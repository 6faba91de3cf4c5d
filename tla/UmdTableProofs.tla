--------------------------- MODULE UmdTableProofs ---------------------------
(***************************************************************************)
(* Proofs about the two tables of umd, for every hash function and every   *)
(* number of stations, addresses and objects: the table of users, whose    *)
(* keys change under its hashes, and the table of connections, whose       *)
(* entries outlive the seconds they were made in.                          *)
(***************************************************************************)
EXTENDS UmdTable, UmdConn, TLAPS

(***************************************************************************)
(* What the operations of the table do to it.                              *)
(***************************************************************************)

\* An object of the table has keys, and they have buckets.
LEMMA HashType ==
  ASSUME NEW key \in Key, NEW i \in Index
  PROVE  Hash(key)[i] \in Bucket
BY TableAssumption DEF Hash, Key, Addr, Index

\* Keys are not the mark of free memory.
LEMMA KeyNotFree ==
  ASSUME NEW key \in Key PROVE key # Free
BY TableAssumption

\* A mac finds objects of the table only.
LEMMA FoundIsListed ==
  ASSUME TypeOK, NoDangling, NEW m \in Mac, NEW o \in FindMac(m)
  PROVE  /\ o \in listed /\ o \in Obj /\ mem[o] \in Key /\ mem[o].mac = m
<1>1. "mac" \in Index /\ o \in Obj /\ bucket["mac"][o] = HashMac[m] /\ mem[o].mac = m
  BY DEF FindMac, Index
<1>2. bucket["mac"][o] # NotIn
  BY <1>1, TableAssumption
<1> QED
  BY <1>1, <1>2 DEF TypeOK, NoDangling

(***************************************************************************)
(* Types and NoDangling, whatever sync and associate do to the keys.       *)
(***************************************************************************)

TableInv == TypeOK /\ NoDangling

\* The empty table holds nothing.
LEMMA TableInit == Init => TableInv
BY DEF Init, TableInv, TypeOK, NoDangling, Index

\* Linking an object that has been given its keys.
LEMMA LinkInv ==
  ASSUME TableInv, NEW o \in Obj, NEW key \in Key, NEW linked \in Key,
         mem' = [mem EXCEPT ![o] = key], h2_add(o, linked),
         synced' \subseteq Obj, extra' \subseteq Obj
  PROVE  TableInv'
<1>1. TypeOK'
  BY HashType DEF TableInv, TypeOK, h2_add
<1>2. \A i \in Index : Hash(linked)[i] # NotIn
  BY HashType, TableAssumption
<1>3. key # Free
  BY KeyNotFree
<1>4. NoDangling'
  BY <1>2, <1>3 DEF TableInv, TypeOK, NoDangling, h2_add
<1> QED
  BY <1>1, <1>4 DEF TableInv

\* Unlinking objects and freeing their memory.
LEMMA DropInv ==
  ASSUME TableInv, NEW S \in SUBSET Obj, Drop(S)
  PROVE  TableInv'
<1>1. TypeOK'
  BY DEF TableInv, TypeOK, Drop, h2_del
<1>2. NoDangling'
  BY DEF TableInv, TypeOK, NoDangling, Drop, h2_del
<1> QED
  BY <1>1, <1>2 DEF TableInv

\* A new object is linked by its mac and no address.
LEMMA NewKey == ASSUME NEW m \in Mac PROVE [mac |-> m, ip |-> NoIp] \in Key
BY DEF Key, Addr

\* Creating a user keeps the table sound.
LEMMA NewInv ==
  ASSUME TableInv, NEW m \in Mac, NEW o \in Obj, New(o, m),
         synced' \subseteq Obj, extra' \subseteq Obj
  PROVE  TableInv'
BY NewKey, LinkInv DEF New

\* Every operation keeps the table sound.
LEMMA TableNext == TableInv /\ [Next]_vars => TableInv'
<1> SUFFICES ASSUME TableInv, [Next]_vars PROVE TableInv'
  OBVIOUS
<1>1. CASE UNCHANGED vars
  BY <1>1 DEF vars, TableInv, TypeOK, NoDangling
<1>2. ASSUME NEW m \in Mac, umd_user_create(m) PROVE TableInv'
  BY <1>2, NewInv DEF umd_user_create, TableInv, TypeOK
<1>3. ASSUME NEW m \in Mac, umd_user_associate(m) PROVE TableInv'
  BY <1>3, NewInv DEF umd_user_associate, TableInv, TypeOK
<1>4. ASSUME NEW m \in Mac, umd_user_delete(m) PROVE TableInv'
  BY <1>4, DropInv DEF umd_user_delete, FindMac
<1>5. ASSUME NEW m \in Mac, NEW ip \in Addr, umd_set_user_ip(m, ip) PROVE TableInv'
  <2>1. PICK o \in FindMac(m) : /\ mem' = [mem EXCEPT ![o].ip = ip]
                                /\ h2_add(o, mem'[o])
    BY <1>5 DEF umd_set_user_ip
  <2>2. o \in Obj /\ mem[o] \in Key /\ synced' \subseteq Obj /\ extra' \subseteq Obj
    BY <1>5, FoundIsListed DEF umd_set_user_ip, TableInv, TypeOK
  <2> DEFINE key == [mem[o] EXCEPT !.ip = ip]
  <2>3. key \in Key
    BY <2>2 DEF Key
  <2>4. mem' = [mem EXCEPT ![o] = key] /\ mem'[o] = key
    BY <2>1, <2>2 DEF TableInv, TypeOK
  <2> HIDE DEF key
  <2> QED
    BY <2>1, <2>2, <2>3, <2>4, LinkInv
<1>6. ASSUME NEW m \in Mac, NEW ip \in Ip, umd_user_delby(m, ip) PROVE TableInv'
  BY <1>6, DropInv DEF umd_user_delby, TableInv, TypeOK
<1>7. ASSUME NEW m \in Mac, NEW dump \in Dumps, umd_user_sync(m, dump) PROVE TableInv'
  <2>1. dump \in Key
    BY TableAssumption
  <2>2. CASE FindMac(m) # {}
    <3>1. PICK o \in FindMac(m) : /\ mem' = [mem EXCEPT ![o] = dump]
                                  /\ UNCHANGED <<listed, bucket, extra>>
                                  /\ synced' = synced \cup {o}
      BY <1>7, <2>2 DEF umd_user_sync
    <3>2. o \in Obj /\ mem[o] \in Key /\ mem[o] # Free /\ dump # Free
      BY <2>1, FoundIsListed, KeyNotFree DEF TableInv
    <3> QED
      BY <2>1, <3>1, <3>2 DEF TableInv, TypeOK, NoDangling
  <2>3. CASE FindMac(m) = {}
    <3>1. PICK o \in Obj : /\ mem' = [mem EXCEPT ![o] = dump]
                           /\ h2_add(o, [mac |-> m, ip |-> NoIp])
                           /\ synced' = synced \cup {o} /\ extra' = extra
      BY <1>7, <2>3 DEF umd_user_sync
    <3>2. synced' \subseteq Obj /\ extra' \subseteq Obj
      BY <3>1 DEF TableInv, TypeOK
    <3> QED
      BY <2>1, <3>1, <3>2, NewKey, LinkInv
  <2> QED
    BY <2>2, <2>3
<1>8. ASSUME NEW ip \in Addr, umd_user_delbyip(ip) PROVE TableInv'
  BY <1>8, DropInv DEF umd_user_delbyip, FindIp
<1>9. ASSUME NEW S \in SUBSET Obj, umd_user_gc(S) PROVE TableInv'
  BY <1>9, DropInv DEF umd_user_gc
<1> QED
  BY <1>1, <1>2, <1>3, <1>4, <1>5, <1>6, <1>7, <1>8, <1>9 DEF Next

\* The table is sound in every reachable state.
LEMMA TableInvariance == Spec => []TableInv
BY TableInit, TableNext, PTL DEF Spec

\* The objects, the list and the buckets stay well formed.
THEOREM TypeCorrect == Spec => []TypeOK
<1>1. TableInv => TypeOK
  BY DEF TableInv
<1> QED
  BY <1>1, TableInvariance, PTL

\* No list or chain ever holds freed memory and every user is on all three,
\* also when sync writes other keys into a linked object or associate creates
\* a second object for a station.
THEOREM NeverDangling == Spec => []NoDangling
<1>1. TableInv => NoDangling
  BY DEF TableInv
<1> QED
  BY <1>1, TableInvariance, PTL

(***************************************************************************)
(* Every user no sync has overwritten is found by its keys: its nodes stay *)
(* in the buckets its object's keys hash to.                               *)
(***************************************************************************)

InBucket(o) == \A i \in Index : bucket[i][o] = Hash(mem[o])[i]

InItsBucket == \A o \in listed \ synced : InBucket(o)

FoundInv == TableInv /\ InItsBucket

\* Being in the bucket of one's keys is being found by them.
LEMMA InBucketFinds ==
  ASSUME NEW o \in Obj, InBucket(o)
  PROVE  Found(o)
<1>1. "mac" \in Index /\ "ip" \in Index
  BY DEF Index
<1>2. bucket["mac"][o] = HashMac[mem[o].mac]
  BY <1>1 DEF InBucket, Hash
<1>3. bucket["ip"][o] = HashIp[mem[o].ip]
  BY <1>1 DEF InBucket, Hash
<1> QED
  BY <1>2, <1>3 DEF Found, FindMac, FindIp

\* In the empty table nothing is lost.
LEMMA FoundInit == Init => FoundInv
BY TableInit DEF Init, FoundInv, InItsBucket

\* Linking an object by the keys it has.
LEMMA LinkByKey ==
  ASSUME FoundInv, NEW o \in Obj, NEW key \in Key,
         mem' = [mem EXCEPT ![o] = key], h2_add(o, key),
         synced' = synced, extra' \subseteq Obj
  PROVE  FoundInv'
<1>1. TableInv'
  BY LinkInv DEF FoundInv, TableInv, TypeOK
<1>2. InItsBucket'
  BY DEF FoundInv, TableInv, TypeOK, InItsBucket, InBucket, h2_add, Index
<1> QED
  BY <1>1, <1>2 DEF FoundInv

\* Dropping objects leaves the others in their buckets.
LEMMA DropKeepsBuckets ==
  ASSUME FoundInv, NEW S \in SUBSET Obj, Drop(S)
  PROVE  FoundInv'
<1>1. TableInv'
  BY DropInv DEF FoundInv
<1>2. InItsBucket'
  BY DEF FoundInv, TableInv, TypeOK, InItsBucket, InBucket, Drop, h2_del
<1> QED
  BY <1>1, <1>2 DEF FoundInv

\* The address of a user changes between its unlinking and its linking.
LEMMA SetIpKeepsBuckets ==
  ASSUME FoundInv, NEW m \in Mac, NEW ip \in Addr, NEW o \in FindMac(m),
         mem' = [mem EXCEPT ![o].ip = ip], h2_add(o, mem'[o]), UNCHANGED <<synced, extra>>
  PROVE  /\ FoundInv'
         /\ o \in listed /\ listed' = listed /\ mem[o].mac = m /\ mem'[o].mac = m
<1>1. o \in Obj /\ o \in listed /\ mem[o] \in Key /\ mem[o].mac = m
  BY FoundIsListed DEF FoundInv, TableInv
<1> DEFINE key == [mem[o] EXCEPT !.ip = ip]
<1>2. key \in Key /\ key.mac = m
  BY <1>1 DEF Key
<1>3. mem' = [mem EXCEPT ![o] = key] /\ mem'[o] = key /\ extra' \subseteq Obj
  BY <1>1 DEF FoundInv, TableInv, TypeOK
<1> HIDE DEF key
<1>4. listed' = listed
  BY <1>1 DEF h2_add
<1> QED
  BY <1>1, <1>2, <1>3, <1>4, LinkByKey

\* A sync touches one object, which it marks.
LEMMA SyncMarks ==
  ASSUME TableInv, NEW m \in Mac, NEW dump \in Dumps, umd_user_sync(m, dump)
  PROVE  \E o \in Obj :
           /\ synced' = synced \cup {o} /\ extra' = extra
           /\ listed' \subseteq listed \cup {o}
           /\ \A p \in Obj \ {o} : /\ mem'[p] = mem[p]
                                   /\ \A i \in Index : bucket'[i][p] = bucket[i][p]
<1>1. CASE FindMac(m) # {}
  <2>1. PICK o \in FindMac(m) : /\ mem' = [mem EXCEPT ![o] = dump]
                                /\ UNCHANGED <<listed, bucket, extra>>
                                /\ synced' = synced \cup {o}
    BY <1>1 DEF umd_user_sync
  <2>2. o \in Obj
    BY DEF FindMac
  <2> QED
    BY <2>1, <2>2 DEF TableInv, TypeOK
<1>2. CASE FindMac(m) = {}
  <2>1. PICK o \in Obj : /\ mem' = [mem EXCEPT ![o] = dump]
                         /\ h2_add(o, [mac |-> m, ip |-> NoIp])
                         /\ synced' = synced \cup {o} /\ extra' = extra
    BY <1>2 DEF umd_user_sync
  <2> QED
    BY <2>1 DEF h2_add, TableInv, TypeOK
<1> QED
  BY <1>1, <1>2

\* Every operation but sync keeps users in the buckets of their keys.
LEMMA FoundNext == FoundInv /\ [Next]_vars => FoundInv'
<1> SUFFICES ASSUME FoundInv, [Next]_vars PROVE FoundInv'
  OBVIOUS
<1>0. TableInv /\ TableInv'
  BY TableNext DEF FoundInv
<1>1. CASE UNCHANGED vars
  BY <1>0, <1>1 DEF vars, FoundInv, InItsBucket, InBucket, Hash
<1>2. ASSUME NEW m \in Mac, NEW o \in Obj, New(o, m), synced' = synced PROVE FoundInv'
  BY <1>0, <1>2, NewKey, LinkByKey DEF New, TableInv, TypeOK
<1>3. ASSUME NEW m \in Mac, umd_user_create(m) PROVE FoundInv'
  BY <1>2, <1>3 DEF umd_user_create
<1>4. ASSUME NEW m \in Mac, umd_user_associate(m) PROVE FoundInv'
  BY <1>2, <1>4 DEF umd_user_associate
<1>5. ASSUME NEW m \in Mac, umd_user_delete(m) PROVE FoundInv'
  BY <1>5, DropKeepsBuckets DEF umd_user_delete, FindMac
<1>6. ASSUME NEW m \in Mac, NEW ip \in Addr, umd_set_user_ip(m, ip) PROVE FoundInv'
  BY <1>6, SetIpKeepsBuckets DEF umd_set_user_ip
<1>7. ASSUME NEW m \in Mac, NEW ip \in Ip, umd_user_delby(m, ip) PROVE FoundInv'
  BY <1>7, DropKeepsBuckets DEF umd_user_delby, FoundInv, TableInv, TypeOK
<1>8. ASSUME NEW ip \in Addr, umd_user_delbyip(ip) PROVE FoundInv'
  BY <1>8, DropKeepsBuckets DEF umd_user_delbyip, FindIp
<1>9. ASSUME NEW S \in SUBSET Obj, umd_user_gc(S) PROVE FoundInv'
  BY <1>9, DropKeepsBuckets DEF umd_user_gc
<1>10. ASSUME NEW m \in Mac, NEW dump \in Dumps, umd_user_sync(m, dump) PROVE FoundInv'
  <2>1. PICK o \in Obj :
           /\ synced' = synced \cup {o}
           /\ listed' \subseteq listed \cup {o}
           /\ \A p \in Obj \ {o} : /\ mem'[p] = mem[p]
                                   /\ \A i \in Index : bucket'[i][p] = bucket[i][p]
    BY <1>0, <1>10, SyncMarks
  <2>2. listed \subseteq Obj
    BY <1>0 DEF TableInv, TypeOK
  <2>3. ASSUME NEW p \in listed' \ synced', NEW i \in Index
        PROVE  bucket'[i][p] = Hash(mem'[p])[i]
    <3>1. p \in listed \ synced /\ p \in Obj \ {o}
      BY <2>1, <2>2, <2>3
    <3>2. bucket[i][p] = Hash(mem[p])[i]
      BY <2>3, <3>1 DEF FoundInv, InItsBucket, InBucket
    <3>3. mem'[p] = mem[p] /\ bucket'[i][p] = bucket[i][p]
      BY <2>1, <3>1
    <3> QED
      BY <3>2, <3>3
  <2>4. InItsBucket'
    BY <2>3 DEF InItsBucket, InBucket, Hash
  <2> QED
    BY <1>0, <2>4 DEF FoundInv
<1> QED
  BY <1>1, <1>3, <1>4, <1>5, <1>6, <1>7, <1>8, <1>9, <1>10 DEF Next

\* Every user that no sync has overwritten is found by its mac and by its
\* present address, whatever else is done to the table, for every pair of
\* hash functions.
THEOREM AlwaysFound == Spec => []FoundUnlessSynced
<1>1. FoundInv => FoundUnlessSynced
  BY InBucketFinds DEF FoundInv, InItsBucket, FoundUnlessSynced, TableInv, TypeOK
<1> QED
  BY <1>1, FoundInit, FoundNext, PTL DEF Spec

(***************************************************************************)
(* A lookup before every creation leaves a station with one user.          *)
(***************************************************************************)

OneInv == FoundInv /\ OneUnlessExtra

\* In the empty table no station has two users.
LEMMA OneInit == Init => OneInv
BY FoundInit DEF Init, OneInv, OneUnlessExtra

\* A station the lookup does not find has no user, but overwritten ones.
LEMMA NotFoundIsNew ==
  ASSUME FoundInv, NEW m \in Mac, FindMac(m) = {}
  PROVE  \A p \in listed \ synced : mem[p].mac # m
<1> SUFFICES ASSUME NEW p \in listed \ synced PROVE mem[p].mac # m
  OBVIOUS
<1>1. Found(p)
  BY InBucketFinds DEF FoundInv, InItsBucket, TableInv, TypeOK
<1> QED
  BY <1>1 DEF Found

\* Only associate and sync give a station a second user.
LEMMA OneNext == OneInv /\ [Next]_vars => OneInv'
<1> SUFFICES ASSUME OneInv, [Next]_vars PROVE OneInv'
  OBVIOUS
<1>0. FoundInv /\ FoundInv' /\ TableInv /\ TypeOK
  BY FoundNext DEF OneInv, FoundInv, TableInv
<1>1. CASE UNCHANGED vars
  BY <1>0, <1>1 DEF vars, OneInv, OneUnlessExtra
<1>2. ASSUME NEW m \in Mac, umd_user_create(m) PROVE OneUnlessExtra'
  <2>1. PICK o \in Obj : New(o, m)
    BY <1>2 DEF umd_user_create
  <2>2. \A p \in listed \ synced : mem[p].mac # m
    BY <1>0, <1>2, NotFoundIsNew DEF umd_user_create
  <2>3. /\ mem' = [mem EXCEPT ![o] = [mac |-> m, ip |-> NoIp]]
        /\ listed' = listed \cup {o} /\ synced' = synced /\ extra' = extra
        /\ mem \in [Obj -> Key \cup {Free}] /\ listed \subseteq Obj
    BY <1>0, <1>2, <2>1 DEF New, h2_add, umd_user_create, TypeOK
  <2> QED
    BY <2>2, <2>3 DEF OneInv, OneUnlessExtra
<1>3. ASSUME NEW m \in Mac, umd_user_associate(m) PROVE OneUnlessExtra'
  <2>1. PICK o \in Obj : New(o, m) /\ extra' = extra \cup {o}
    BY <1>3 DEF umd_user_associate
  <2>2. /\ listed' = listed \cup {o} /\ synced' = synced
        /\ \A p \in Obj \ {o} : mem'[p] = mem[p]
        /\ listed \subseteq Obj
    BY <1>0, <1>3, <2>1 DEF New, h2_add, umd_user_associate, TypeOK
  <2> QED
    BY <2>1, <2>2 DEF OneInv, OneUnlessExtra
<1>4. ASSUME NEW S \in SUBSET Obj, Drop(S) PROVE OneUnlessExtra'
  BY <1>0, <1>4 DEF OneInv, TypeOK, OneUnlessExtra, Drop, h2_del
<1>5. ASSUME NEW m \in Mac, umd_user_delete(m) PROVE OneUnlessExtra'
  BY <1>4, <1>5 DEF umd_user_delete, FindMac
<1>6. ASSUME NEW m \in Mac, NEW ip \in Addr, umd_set_user_ip(m, ip) PROVE OneUnlessExtra'
  <2>1. PICK o \in FindMac(m) : /\ mem' = [mem EXCEPT ![o].ip = ip]
                                /\ h2_add(o, mem'[o])
    BY <1>6 DEF umd_set_user_ip
  <2>2. UNCHANGED <<synced, extra>>
    BY <1>6 DEF umd_set_user_ip
  <2>3. listed' = listed /\ mem[o].mac = m /\ mem'[o].mac = m
    BY <1>0, <2>1, <2>2, SetIpKeepsBuckets
  <2>4. \A p \in listed : mem'[p].mac = mem[p].mac
    BY <1>0, <2>1, <2>3 DEF TypeOK
  <2> QED
    BY <2>2, <2>3, <2>4 DEF OneInv, OneUnlessExtra
<1>7. ASSUME NEW m \in Mac, NEW ip \in Ip, umd_user_delby(m, ip) PROVE OneUnlessExtra'
  BY <1>0, <1>4, <1>7 DEF umd_user_delby, TypeOK
<1>8. ASSUME NEW ip \in Addr, umd_user_delbyip(ip) PROVE OneUnlessExtra'
  BY <1>4, <1>8 DEF umd_user_delbyip, FindIp
<1>9. ASSUME NEW S \in SUBSET Obj, umd_user_gc(S) PROVE OneUnlessExtra'
  BY <1>4, <1>9 DEF umd_user_gc
<1>10. ASSUME NEW m \in Mac, NEW dump \in Dumps, umd_user_sync(m, dump) PROVE OneUnlessExtra'
  <2>1. PICK o \in Obj :
           /\ synced' = synced \cup {o} /\ extra' = extra
           /\ listed' \subseteq listed \cup {o}
           /\ \A p \in Obj \ {o} : mem'[p] = mem[p]
    BY <1>0, <1>10, SyncMarks
  <2>2. listed \subseteq Obj
    BY <1>0 DEF TypeOK
  <2> QED
    BY <2>1, <2>2 DEF OneInv, OneUnlessExtra
<1> QED
  BY <1>0, <1>1, <1>2, <1>3, <1>5, <1>6, <1>7, <1>8, <1>9, <1>10 DEF Next, OneInv

\* A station has two users only through associate or a sync.
THEOREM AlwaysOne == Spec => []OneUnlessExtra
<1>1. OneInv => OneUnlessExtra
  BY DEF OneInv
<1> QED
  BY <1>1, OneInit, OneNext, PTL DEF Spec

(***************************************************************************)
(* The connections: types, and the age of a connection.                    *)
(***************************************************************************)

\* No connection was hit in the future.
HitBefore == \A k \in Pair : hit[k] <= now

\* The timer expires at multiples of TICKS, and between two of them no
\* connection is older than GCCONN and the time since.
Phase == due => now % TICKS = 0

Young ==
  connectable /\ GCCONN # 0 =>
    \A k \in Pair : hit[k] # NoConn =>
      now - hit[k] <= GCCONN + (IF due THEN TICKS ELSE now % TICKS)

ConnInv == ConnTypeOK /\ HitBefore /\ Phase /\ Young

\* A second later the remainder is one more, or the timer expires.
LEMMA NextSecond ==
  ASSUME NEW n \in Nat, NEW u \in Nat \ {0}
  PROVE  /\ n % u \in 0 .. (u - 1)
         /\ (n + 1) % u # 0 => (n + 1) % u = (n % u) + 1
         /\ (n + 1) % u = 0 => (n % u) + 1 = u
<1>1. /\ n % u \in 0 .. (u - 1) /\ n \div u \in Int
      /\ n = u * (n \div u) + (n % u)
  BY SMT
<1>2. /\ (n + 1) % u \in 0 .. (u - 1) /\ (n + 1) \div u \in Int
      /\ n + 1 = u * ((n + 1) \div u) + ((n + 1) % u)
  <2>1. n + 1 \in Int
    OBVIOUS
  <2> QED
    BY <2>1, SMT
<1> DEFINE q == n \div u
           r == n % u
           p == (n + 1) \div u
           c == (n + 1) % u
<1> HIDE DEF q, r, p, c
<1>3. /\ q \in Int /\ p \in Int /\ r \in 0 .. (u - 1) /\ c \in 0 .. (u - 1)
      /\ n = u * q + r /\ n + 1 = u * p + c
  BY <1>1, <1>2 DEF q, r, p, c
<1>4. u * (p - q) = r + 1 - c
  <2>1. u * (p - q) = u * p - u * q
    BY <1>3
  <2> QED
    BY <1>3, <2>1
<1>5. p - q = 0 \/ p - q = 1
  <2>1. CASE p - q <= -1
    <3>1. u * (p - q) <= u * (-1)
      BY <1>3, <2>1
    <3> QED
      BY <1>3, <1>4, <3>1
  <2>2. CASE p - q >= 2
    <3>1. u * (p - q) >= u * 2
      BY <1>3, <2>2
    <3> QED
      BY <1>3, <1>4, <3>1
  <2> QED
    BY <1>3, <2>1, <2>2
<1>6. CASE p - q = 0
  BY <1>3, <1>4, <1>6 DEF r, c
<1>7. CASE p - q = 1
  <2>1. r + 1 = u + c
    BY <1>3, <1>4, <1>7
  <2>2. c = 0 /\ r + 1 = u
    BY <1>3, <2>1
  <2> QED
    BY <1>3, <2>2 DEF r, c
<1> QED
  BY <1>5, <1>6, <1>7

\* A table without connections is as young as one can be.
LEMMA ConnStart == ConnInit => ConnInv
<1>1. ConnInit => ConnTypeOK
  <2> SUFFICES ASSUME ConnInit PROVE ConnTypeOK
    OBVIOUS
  <2>1. connectable \in BOOLEAN /\ now \in Nat /\ due \in BOOLEAN /\ freed \in BOOLEAN
    BY ConnAssumption DEF ConnInit
  <2>2. hit \in [Pair -> Nat \cup {NoConn}]
    BY DEF ConnInit
  <2>3. /\ known \subseteq {h \in Host : Class[h] = "user"}
        /\ last \in Pair \cup {Nobody} /\ packet \in Pair \cup {Nobody}
    BY DEF ConnInit
  <2>4. charged \subseteq (Host \cup {Device}) \X {"lan", "wan"} \X {"up", "down"}
    BY DEF ConnInit
  <2> QED
    BY <2>1, <2>2, <2>3, <2>4 DEF ConnTypeOK
<1>2. ConnInit => HitBefore /\ Phase /\ Young
  BY DEF ConnInit, HitBefore, Phase, Young, NoConn
<1> QED
  BY <1>1, <1>2 DEF ConnInv

\* However its connection is found, a packet leaves it hit now or untouched.
LEMMA LookupEffect ==
  ASSUME ConnTypeOK, NEW k \in Pair, umd_conn_getEx(k)
  PROVE  /\ hit' = hit \/ hit' = [hit EXCEPT ![k] = now]
         /\ last' \in Pair \cup {Nobody} /\ freed' \in BOOLEAN
BY DEF ConnTypeOK, umd_conn_getEx, HitLast, HitFreed, Find, Insert

\* Each handler charges ends of the packet that are users, or the device.
LEMMA ChargesType ==
  ASSUME NEW s \in Host, NEW d \in Host, NEW c \in Charges(s, d)
  PROVE  /\ c \in (Host \cup {Device}) \X {"lan", "wan"} \X {"up", "down"}
         /\ c[1] # Device => Class[c[1]] = "user"
<1> DEFINE dir == umd_conn_dir(s, d)
           up == <<Subject(dir[1], s), FlowType(dir[2]), "up">>
           down == <<Subject(dir[2], d), FlowType(dir[1]), "down">>
<1>1. c = up \/ c = down
  BY DEF Charges
<1>2. /\ dir[1] = "user" => Class[s] = "user"
      /\ dir[2] = "user" => Class[d] = "user"
  BY DEF umd_conn_dir
<1> HIDE DEF dir
<1>3. /\ FlowType(dir[1]) \in {"lan", "wan"} /\ FlowType(dir[2]) \in {"lan", "wan"}
      /\ Subject(dir[1], s) \in Host \cup {Device}
      /\ Subject(dir[2], d) \in Host \cup {Device}
      /\ Subject(dir[1], s) # Device => Class[Subject(dir[1], s)] = "user"
      /\ Subject(dir[2], d) # Device => Class[Subject(dir[2], d)] = "user"
  BY <1>2 DEF FlowType, Subject
<1>4. CASE c = up
  BY <1>3, <1>4
<1>5. CASE c = down
  BY <1>3, <1>5
<1> QED
  BY <1>1, <1>4, <1>5

\* A packet neither from the lan to a user nor to an unknown user is charged
\* as the reference says, with the users that are known after it.
LEMMA ChargedAsExpected ==
  ASSUME ConnTypeOK, NEW s \in Host, NEW d \in Host,
         charged' = Charged(s, d),
         known' = known \cup ({c[1] : c \in charged'} \ {Device}),
         ~FromLan(s, d), ~ToUnknown(s, d)'
  PROVE  (UsersCharged = Expected(s, d))'
<1>1. s # Device /\ d # Device
  BY ConnAssumption
<1>2. umd_conn_dir(s, d) = <<Class[s], Class[d]>>
  BY DEF umd_conn_dir, FromLan
<1>3. CASE Class[s] = "user" /\ Class[d] = "user"
  <2>1. ~Unknown(d)
    <3>1. Unknown(d) => charged' = {}
      BY <1>2, <1>3 DEF Charged
    <3>2. Unknown(d) => d \notin known'
      BY <3>1 DEF Unknown
    <3> QED
      BY <1>3, <3>2 DEF ToUnknown
  <2>2. charged' = {c \in Charges(s, d) : c[1] = Device \/ ~Unknown(c[1])}
    BY <2>1 DEF Charged
  <2>3. CASE s = d
    <3>1. Charges(s, d) = {}
      BY <1>2, <1>3, <2>3 DEF Charges
    <3> QED
      BY <2>2, <2>3, <3>1 DEF UsersCharged, Expected
  <2>4. CASE s # d
    <3> DEFINE up == <<s, "lan", "up">>
               down == <<d, "lan", "down">>
    <3>1. Charges(s, d) = {down, up}
      BY <1>2, <1>3, <2>4 DEF Charges, Subject, FlowType
    <3>2. down \in charged' /\ (up \in charged' <=> ~Unknown(s))
      BY <1>1, <2>1, <2>2, <3>1
    <3>3. \A c \in charged' : c = down \/ c = up
      BY <2>2, <3>1
    <3>4. d \in known'
      BY <1>1, <3>2
    <3>5. s \in known' <=> up \in charged'
      <4>1. up \in charged' => s \in known'
        BY <1>1
      <4>2. up \notin charged' => s \notin known'
        BY <2>4, <3>2, <3>3 DEF Unknown
      <4> QED
        BY <4>1, <4>2
    <3>6. UsersCharged' = charged'
      BY <1>1, <3>3 DEF UsersCharged
    <3>7. Expected(s, d)' = {c \in {up, down} : c[1] \in known'}
      BY <1>3, <2>4 DEF Expected
    <3> QED
      BY <3>2, <3>3, <3>4, <3>5, <3>6, <3>7
  <2> QED
    BY <2>3, <2>4
<1>4. CASE Class[s] = "user" /\ Class[d] # "user"
  <2> DEFINE up == <<s, FlowType(Class[d]), "up">>
  <2>1. Charges(s, d) = {up}
    BY <1>2, <1>4 DEF Charges, Subject
  <2>2. charged' = {c \in {up} : ~Unknown(s)}
    BY <1>1, <1>2, <1>4, <2>1 DEF Charged
  <2>3. s \in known' <=> ~Unknown(s)
    <3>1. ~Unknown(s) => s \in known'
      BY <1>1, <2>2
    <3>2. Unknown(s) => s \notin known'
      BY <2>2 DEF Unknown
    <3> QED
      BY <3>1, <3>2
  <2>4. UsersCharged' = charged'
    BY <1>1, <2>2 DEF UsersCharged
  <2>5. Expected(s, d)' = {c \in {up} : s \in known'}
    BY <1>4 DEF Expected, FlowType
  <2> QED
    BY <2>2, <2>3, <2>4, <2>5
<1>5. CASE Class[s] # "user" /\ Class[d] = "user"
  <2> DEFINE down == <<d, FlowType(Class[s]), "down">>
  <2>1. Charges(s, d) = {down}
    BY <1>2, <1>5 DEF Charges, Subject
  <2>2. charged' = {c \in {down} : ~Unknown(d)}
    BY <1>1, <1>2, <1>5, <2>1 DEF Charged
  <2>3. d \in known' <=> ~Unknown(d)
    <3>1. ~Unknown(d) => d \in known'
      BY <1>1, <2>2
    <3>2. Unknown(d) => d \notin known'
      BY <2>2 DEF Unknown
    <3> QED
      BY <3>1, <3>2
  <2>4. UsersCharged' = charged'
    BY <1>1, <2>2 DEF UsersCharged
  <2>5. Expected(s, d)' = {c \in {down} : d \in known'}
    BY <1>5 DEF Expected, FlowType
  <2> QED
    BY <2>2, <2>3, <2>4, <2>5
<1>6. CASE Class[s] # "user" /\ Class[d] # "user"
  <2>1. \A c \in Charges(s, d) : c[1] = Device
    BY <1>2, <1>6 DEF Charges, Subject
  <2>2. UsersCharged' = {}
    BY <2>1 DEF UsersCharged, Charged
  <2>3. Expected(s, d)' = {}
    BY <1>6 DEF Expected
  <2> QED
    BY <2>2, <2>3
<1> QED
  BY <1>3, <1>4, <1>5, <1>6

\* Collecting connections makes none older.
LEMMA CollectInv ==
  ASSUME ConnInv, NEW gone, Collect(gone), due' = due
  PROVE  ConnInv'
<1>1. ConnTypeOK'
  BY DEF ConnInv, ConnTypeOK, Collect
<1>2. HitBefore' /\ Phase' /\ Young'
  BY DEF ConnInv, ConnTypeOK, HitBefore, Phase, Young, Collect, NoConn
<1> QED
  BY <1>1, <1>2 DEF ConnInv

\* A packet's connection is no older than before, and its charges are typed.
LEMMA PacketInv ==
  ASSUME ConnInv, NEW s \in Host, NEW d \in Host, Packet(s, d)
  PROVE  ConnInv'
<1> DEFINE k == <<s, d>>
<1>1. k \in Pair
  BY DEF Pair
<1>2. umd_conn_getEx(k) /\ ConnTypeOK
  BY DEF Packet, ConnInv
<1>3. /\ hit' = hit \/ hit' = [hit EXCEPT ![k] = now]
      /\ last' \in Pair \cup {Nobody} /\ freed' \in BOOLEAN
  <2> HIDE DEF k
  <2> QED
    BY <1>1, <1>2, LookupEffect
<1>4. charged' \subseteq Charges(s, d)
  BY DEF Packet, Charged
<1>5. \A c \in charged' : /\ c \in (Host \cup {Device}) \X {"lan", "wan"} \X {"up", "down"}
                          /\ c[1] # Device => Class[c[1]] = "user"
  BY <1>4, ChargesType
<1>6. known' \subseteq {h \in Host : Class[h] = "user"}
  <2>1. \A h \in {c[1] : c \in charged'} \ {Device} : h \in Host /\ Class[h] = "user"
    BY <1>5
  <2> QED
    BY <1>2, <2>1 DEF Packet, ConnTypeOK
<1>7. hit' \in [Pair -> Nat \cup {NoConn}]
  BY <1>1, <1>2, <1>3 DEF ConnTypeOK
<1>8. packet' \in Pair \cup {Nobody} /\ UNCHANGED <<connectable, now, due>>
  BY <1>1 DEF Packet
<1>9. ConnTypeOK'
  BY <1>2, <1>3, <1>5, <1>6, <1>7, <1>8 DEF ConnTypeOK
<1> HIDE DEF k
<1>10. \A j \in Pair : hit'[j] = hit[j] \/ hit'[j] = now
  BY <1>1, <1>2, <1>3 DEF ConnTypeOK
<1>11. HitBefore' /\ Phase'
  BY <1>2, <1>8, <1>10 DEF ConnInv, ConnTypeOK, HitBefore, Phase
<1>12. Young'
  <2> SUFFICES ASSUME connectable /\ GCCONN # 0, NEW j \in Pair, hit'[j] # NoConn
               PROVE  now - hit'[j] <= GCCONN + (IF due THEN TICKS ELSE now % TICKS)
    BY <1>8 DEF Young
  <2>1. CASE hit'[j] = hit[j]
    BY <2>1 DEF ConnInv, Young
  <2>2. CASE hit'[j] = now
    <3>1. now \in Nat /\ TICKS \in Nat \ {0} /\ GCCONN \in Nat
      BY <1>2, ConnAssumption DEF ConnTypeOK
    <3>2. now % TICKS \in 0 .. (TICKS - 1)
      BY <3>1, NextSecond
    <3> QED
      BY <2>2, <3>1, <3>2
  <2> QED
    BY <1>10, <2>1, <2>2
<1> QED
  BY <1>9, <1>11, <1>12 DEF ConnInv

\* The timer, at a multiple of TICKS, leaves connections no older than GCCONN.
LEMMA TimerInv == ConnInv /\ umd_conn_timer => ConnInv'
<1> SUFFICES ASSUME ConnInv, umd_conn_timer PROVE ConnInv'
  OBVIOUS
<1> DEFINE gone == {k \in Pair : connectable /\ is_umd_conn_gc(k)}
<1>1. /\ due /\ due' = FALSE /\ UNCHANGED <<connectable, now, known, last, packet, charged>>
      /\ hit' = [k \in Pair |-> IF k \in gone THEN NoConn ELSE hit[k]]
      /\ freed' \in BOOLEAN
  BY DEF umd_conn_timer, Collect, ConnInv, ConnTypeOK
<1>2. ConnTypeOK /\ now \in Nat /\ now % TICKS = 0 /\ GCCONN \in Nat
  BY <1>1, ConnAssumption DEF ConnInv, ConnTypeOK, Phase
<1>3. ConnTypeOK'
  BY <1>1, <1>2 DEF ConnTypeOK
<1>4. HitBefore' /\ Phase'
  BY <1>1, <1>2 DEF ConnInv, ConnTypeOK, HitBefore, Phase, NoConn
<1>5. Young'
  <2> SUFFICES ASSUME connectable, GCCONN # 0, NEW k \in Pair, hit'[k] # NoConn
               PROVE  now - hit'[k] <= GCCONN
    BY <1>1, <1>2 DEF Young
  <2>1. hit'[k] = hit[k] /\ ~is_umd_conn_gc(k)
    BY <1>1
  <2>2. hit[k] \in Nat /\ hit[k] <= now
    BY <1>2, <2>1 DEF ConnInv, ConnTypeOK, HitBefore
  <2>3. hit[k] # NoConn
    BY <2>1
  <2>4. ~(hit[k] < now /\ now - hit[k] > GCCONN)
    BY <2>1, <2>3 DEF is_umd_conn_gc
  <2> QED
    BY <1>2, <2>1, <2>2, <2>4
<1> QED
  BY <1>3, <1>4, <1>5 DEF ConnInv

\* A second makes every connection a second older, and the remainder too.
LEMMA TickInv == ConnInv /\ Tick => ConnInv'
<1> SUFFICES ASSUME ConnInv, Tick PROVE ConnInv'
  OBVIOUS
<1>1. /\ ~due /\ now' = now + 1 /\ due' = ((now + 1) % TICKS = 0)
      /\ UNCHANGED <<connectable, known, hit, last, freed, packet, charged>>
  BY DEF Tick
<1>2. ConnTypeOK /\ now \in Nat /\ TICKS \in Nat \ {0} /\ GCCONN \in Nat
  BY ConnAssumption DEF ConnInv, ConnTypeOK
<1>3. ConnTypeOK'
  BY <1>1, <1>2 DEF ConnTypeOK
<1>4. HitBefore' /\ Phase'
  <2>1. \A k \in Pair : hit[k] \in Nat \cup {NoConn} /\ hit[k] <= now
    BY <1>2 DEF ConnInv, ConnTypeOK, HitBefore
  <2>2. HitBefore'
    BY <1>1, <1>2, <2>1 DEF HitBefore, NoConn
  <2>3. Phase'
    BY <1>1 DEF Phase
  <2> QED
    BY <2>2, <2>3
<1>5. /\ now % TICKS \in 0 .. (TICKS - 1)
      /\ (now + 1) % TICKS # 0 => (now + 1) % TICKS = (now % TICKS) + 1
      /\ (now + 1) % TICKS = 0 => (now % TICKS) + 1 = TICKS
  BY <1>2, NextSecond
<1>6. Young'
  <2> SUFFICES ASSUME connectable, GCCONN # 0, NEW k \in Pair, hit[k] # NoConn
               PROVE  now' - hit[k] <= GCCONN + (IF due' THEN TICKS ELSE now' % TICKS)
    <3>1. connectable' = connectable /\ hit' = hit
      BY <1>1
    <3> QED
      BY <3>1 DEF Young
  <2>1. now - hit[k] <= GCCONN + (now % TICKS) /\ hit[k] \in Nat
    BY <1>1, <1>2 DEF ConnInv, ConnTypeOK, Young
  <2>2. CASE due'
    <3>1. (now % TICKS) + 1 = TICKS
      BY <1>1, <1>5, <2>2
    <3> QED
      BY <1>1, <1>2, <1>5, <2>1, <2>2, <3>1
  <2>3. CASE ~due'
    <3>1. now' % TICKS = (now % TICKS) + 1
      BY <1>1, <1>5, <2>3
    <3> QED
      BY <1>1, <1>2, <1>5, <2>1, <2>3, <3>1
  <2> QED
    BY <2>2, <2>3
<1> QED
  BY <1>3, <1>4, <1>6 DEF ConnInv

\* The connections' invariant is inductive.
LEMMA ConnStep == ConnInv /\ [ConnNext]_connVars => ConnInv'
<1> SUFFICES ASSUME ConnInv, [ConnNext]_connVars PROVE ConnInv'
  OBVIOUS
<1>1. ASSUME NEW s \in Host, NEW d \in Host, Packet(s, d) PROVE ConnInv'
  BY <1>1, PacketInv
<1>2. ASSUME NEW h \in Host, UserCreated(h) PROVE ConnInv'
  BY <1>2 DEF UserCreated, ConnInv, ConnTypeOK, HitBefore, Phase, Young
<1>3. ASSUME NEW h \in Host, UserDeleted(h) PROVE ConnInv'
  BY <1>3 DEF UserDeleted, ConnInv, ConnTypeOK, HitBefore, Phase, Young
<1>4. CASE umd_conn_gc
  <2> DEFINE gone == {k \in Pair : hit[k] # NoConn}
  <2>1. Collect(gone) /\ due' = due
    BY <1>4 DEF umd_conn_gc
  <2>2. CASE due' = due
    <3> HIDE DEF gone
    <3> QED
      BY <2>1, CollectInv
  <2> QED
    BY <2>1, <2>2
<1>5. CASE umd_conn_timer
  BY <1>5, TimerInv
<1>6. CASE Tick
  BY <1>6, TickInv
<1>7. CASE UNCHANGED connVars
  BY <1>7 DEF connVars, ConnInv, ConnTypeOK, HitBefore, Phase, Young
<1> QED
  BY <1>1, <1>2, <1>3, <1>4, <1>5, <1>6, <1>7 DEF ConnNext

\* The connections keep their invariant.
LEMMA ConnInductive == ConnSpec => []ConnInv
  BY ConnStart, ConnStep, PTL DEF ConnSpec

\* The variables of the connections keep their types.
THEOREM ConnTyped == ConnSpec => []ConnTypeOK
  BY ConnInductive, PTL DEF ConnInv

\* Once the timer has been handled, no connection of the table was left
\* unhit for GCCONN and TICKS seconds, for every period and clock.
THEOREM NeverStale == ConnSpec => []NoStaleConn
<1>1. ConnInv => NoStaleConn
  <2> SUFFICES ASSUME ConnInv, ~due, connectable, GCCONN # 0,
                      NEW k \in Pair, hit[k] # NoConn
               PROVE  now - hit[k] < GCCONN + TICKS
    BY DEF NoStaleConn
  <2>1. now \in Nat /\ TICKS \in Nat \ {0} /\ GCCONN \in Nat
    BY ConnAssumption DEF ConnInv, ConnTypeOK
  <2>2. now % TICKS \in 0 .. (TICKS - 1)
    BY <2>1, NextSecond
  <2>3. now - hit[k] <= GCCONN + (now % TICKS) /\ hit[k] \in Nat
    BY DEF ConnInv, ConnTypeOK, Young
  <2> QED
    BY <2>1, <2>2, <2>3
<1> QED
  BY <1>1, ConnInductive, PTL

\* Whatever the ends, the classes and the settings, each user at an end of a
\* packet is charged exactly once, in its direction, but for the lan's packets
\* and those to another user that is unknown.
THEOREM ChargedRight == ConnSpec => []ChargedButFromLan
<1>1. ConnInit => ChargedButFromLan
  BY DEF ConnInit, ChargedButFromLan
<1>2. ConnTypeOK /\ ChargedButFromLan /\ [ConnNext]_connVars => ChargedButFromLan'
  <2> SUFFICES ASSUME ConnTypeOK, ChargedButFromLan, [ConnNext]_connVars
               PROVE  ChargedButFromLan'
    OBVIOUS
  <2>1. ASSUME NEW s \in Host, NEW d \in Host, Packet(s, d) PROVE ChargedButFromLan'
    <3>1. packet' = <<s, d>>
      BY <2>1 DEF Packet
    <3>2. ASSUME ~FromLan(s, d), ~ToUnknown(s, d)' PROVE (UsersCharged = Expected(s, d))'
      BY <2>1, <3>2, ChargedAsExpected DEF Packet
    <3> QED
      BY <3>1, <3>2 DEF ChargedButFromLan, FromLan
  <2>2. CASE packet' = Nobody
    BY <2>2 DEF ChargedButFromLan
  <2>3. CASE UNCHANGED <<packet, charged, known>>
    BY <2>3 DEF ChargedButFromLan, FromLan, ToUnknown, UsersCharged, Expected
  <2> QED
    BY <2>1, <2>2, <2>3 DEF ConnNext, connVars, UserCreated, UserDeleted, umd_conn_gc,
       umd_conn_timer, Collect, Tick
<1> QED
  BY <1>1, <1>2, ConnTyped, PTL DEF ConnSpec

=============================================================================
