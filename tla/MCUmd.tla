------------------------------- MODULE MCUmd --------------------------------
(* Umd with the stations, limits and documents its runs use.               *)
EXTENDS Umd, TLC

\* Every user is of one station.
OneStation == [o \in Obj |-> "m1"]

UserSymmetry == Permutations(Obj)

\* The events of the last step decide nothing that comes after it.
Unlogged == <<now, due, [o \in Obj |-> Fresh(user[o])], lastBound>>

Wan(n) == [t \in Type |-> IF t = "wan" THEN n ELSE 0]
Both(n) == [t \in Type |-> n]

\* Limits on both sides, with idle times and a reauth threshold.
Strict ==
  [NoLimit EXCEPT !.max = Wan(3), !.reauth = Wan(1), !.idle = Both(2),
                  !.flowmax = [t \in Type |-> [d \in Dir |-> 2]],
                  !.flowreauth["wan"] = [d \in Dir |-> IF d = "all" THEN 1 ELSE 0]]

\* app/umd/auth.json scaled down: limits on the wan; with one idle time.
OneIdle == [NoLimit EXCEPT !.max = Wan(2), !.idle["wan"] = 3, !.flowmax["wan"]["all"] = 2]

\* Volume alone: a second packet on the wan is too much up, and in total.
Volume == [NoLimit EXCEPT !.flowmax["wan"] = [d \in Dir |-> IF d = "down" THEN 2 ELSE 1]]

IdleLimits == {Strict, OneIdle}
VolumeLimits == {Volume}

\* What the driver counts of a station, more one way than the other.
SomeCounters == {[d \in Dir |-> IF d = "up" THEN 1 ELSE IF d = "down" THEN 2 ELSE 3]}

\* Documents of a peer: a user it has bound, one it has authenticated and
\* charged with a packet, one it has blocked.
PeerBound ==
  [Absent EXCEPT !.state = "bind", !.ip = "ip2",
                 !.limit.idle = Both(IDLE), !.aging = Both(IDLE)]
PeerAuth ==
  [Absent EXCEPT !.state = "auth", !.ip = "ip2", !.limit = Volume,
                 !.flow = [t \in Type |-> [d \in Dir |-> IF d = "down" THEN 0 ELSE 1]]]
PeerBlocked == [Absent EXCEPT !.state = "block", !.reason = "block",
                              !.limit.idle = Both(IDLE)]
PeerDumps == {PeerBound, PeerAuth, PeerBlocked}
NoDumps == {}

=============================================================================
