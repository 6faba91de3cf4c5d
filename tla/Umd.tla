-------------------------------- MODULE Umd ---------------------------------
(***************************************************************************)
(* The user manager of app/umd (user.c, flow.c, timer.c, cli.c): the life  *)
(* of a station behind the gateway, from its first packet through bind,    *)
(* fake and auth to its removal.  A user is bound to an address, admitted  *)
(* on trial (fake), authenticated within limits of time and volume, sent   *)
(* back by whatever limit it exceeds, and collected when unused.           *)
(*                                                                         *)
(* umd is one event loop.  Client commands, captured packets and the timer *)
(* are handlers that run to their end; a handler calls several of the      *)
(* user_* operators in turn, each reporting an event to a script.          *)
(*                                                                         *)
(* Every operator of user.c is a function from the user before it to the   *)
(* user after it; `log` holds the events a handler has reported.  A user   *)
(* is an object of the table: a station has one, unless associate comes    *)
(* for a station that already has one.                                     *)
(***************************************************************************)
EXTENDS Integers, Sequences

CONSTANTS
  Obj,        \* memory for users
  Station,    \* the station each is, or would be, a user of
  Ip,         \* the addresses stations send from
  TICKS,      \* umd.cfg.ticks, seconds between two runs of the timer
  IDLE,       \* umd.cfg.idle
  FAKE,       \* umd.cfg.fake
  GCUSER,     \* umd.cfg.gcuser
  Autouser, Fakeable, Reauthable,       \* the flags of umd.cfg
  Limits,     \* limits an auth command carries
  Dumps,      \* users a sync command carries: documents umd_juser wrote
  PktLen,     \* lengths of packets
  Counters,   \* what the wireless driver may count of a station, {} where
              \* umd is built without asking it
  CliUntil,   \* bound: no command or packet comes after this time
  MaxTime,    \* bound: the clock is not driven past this time
  MaxFlow     \* bound: a user whose lan flow exceeds this sends no more

NoIp == "0.0.0.0"

\* The getipbymac script prints no address.
Nothing == "nothing"

\* What a command or a script can give: is_good_ipstring takes 0.0.0.0 too.
Address == Ip \cup {NoIp}

Type == {"lan", "wan"}
Dir == {"up", "down", "all"}
Bound == {"bind", "fake", "auth"}
State == {"absent", "none", "block"} \cup Bound
Reason == {"none", "auto", "onlinetime", "flowlimit", "admin", "aging",
           "initiative", "block"}

\* max and reauth (what umd_limit_reauthor makes of max, numerator and
\* denominator) of 0 mean no limit, idle of 0 means no aging.
Limit == [max : [Type -> Nat], reauth : [Type -> Nat], idle : [Type -> Nat],
          flowmax : [Type -> [Dir -> Nat]], flowreauth : [Type -> [Dir -> Nat]]]

NoLimit ==
  LET zero == [t \in Type |-> 0]
      none == [t \in Type |-> [d \in Dir |-> 0]]
  IN  [max |-> zero, reauth |-> zero, idle |-> zero,
       flowmax |-> none, flowreauth |-> none]

Action == {"create", "delete", "bind", "unbind", "fake", "unfake", "auth",
           "deauth", "reauth", "block", "unblock", "sync"}

\* An event carries the user as it is when the script is started.
Event == [action : Action, state : State, ip : Address]

\* downtime, group, hitime, create, rates and ssid are reported and never read.
User == [state : State, reason : Reason, ip : Address,
         noused : Nat, faketime : Nat, uptime : [Type -> Nat],
         aging : [Type -> Int], limit : Limit,
         flow : [Type -> [Dir -> Nat]], log : Seq(Event)]

Absent ==
  [state |-> "absent", reason |-> "none", ip |-> NoIp, noused |-> 0,
   faketime |-> 0, uptime |-> [t \in Type |-> 0], aging |-> [t \in Type |-> 0],
   limit |-> NoLimit, flow |-> [t \in Type |-> [d \in Dir |-> 0]], log |-> <<>>]

ASSUME UmdAssumption ==
  /\ TICKS \in Nat \ {0}
  /\ IDLE \in Nat /\ FAKE \in Nat /\ GCUSER \in Nat
  /\ Autouser \in BOOLEAN /\ Fakeable \in BOOLEAN /\ Reauthable \in BOOLEAN
  /\ Limits \subseteq Limit
  /\ Dumps \subseteq User
  /\ PktLen \subseteq Nat
  /\ Counters \subseteq {c \in [Dir -> Nat] : c["all"] = c["up"] + c["down"]}
  /\ CliUntil \in Nat /\ MaxTime \in Nat /\ MaxFlow \in Nat

VARIABLES
  now,        \* time(NULL)
  due,        \* the timer has expired and has not been handled yet
  user,       \* umd.head.user
  lastBound   \* auxiliary: when each user was last bound

vars == <<now, due, user, lastBound>>

TypeOK ==
  /\ now \in Nat
  /\ due \in BOOLEAN
  /\ user \in [Obj -> User]
  /\ lastBound \in [Obj -> Nat]

IsBound(u) == u.state \in Bound

Report(u, action) ==
  [u EXCEPT !.log = Append(@, [action |-> action, state |-> u.state, ip |-> u.ip])]

-----------------------------------------------------------------------------
(* lan and wan, online and offline.                                        *)

LanOnline(u) ==
  [u EXCEPT !.uptime = [t \in Type |-> IF t = "lan" THEN now ELSE 0],
            !.limit.idle = [t \in Type |-> IDLE],
            !.flow = [t \in Type |-> [d \in Dir |-> 0]]]

\* Mutant: the wan flow of an earlier session is kept.
WanOnlineKeepFlow(u) == [u EXCEPT !.uptime["wan"] = now]

\* Mutant: the wrong flow is reset.
WanOnlineResetLan(u) ==
  [u EXCEPT !.uptime["wan"] = now, !.flow["lan"] = [d \in Dir |-> 0]]

WanOnline(u) ==
  [u EXCEPT !.uptime["wan"] = now, !.flow["wan"] = [d \in Dir |-> 0]]

LanOffline(u) == IF u.state = "none" THEN [u EXCEPT !.noused = now] ELSE u

UpdateAging(u) == [u EXCEPT !.aging = u.limit.idle]

-----------------------------------------------------------------------------
(* The operators of user.c.                                                *)

Create(u) ==
  IF u.state # "absent" THEN u
  ELSE Report([LanOnline([Absent EXCEPT !.state = "none", !.log = u.log])
                 EXCEPT !.noused = now], "create")

Delete(u) == [Absent EXCEPT !.log = Report(u, "delete").log]

Deauth(u, reason) ==
  IF u.state # "auth" THEN u
  ELSE [Report([u EXCEPT !.reason = reason], "deauth") EXCEPT !.state = "bind"]

\* Mutant: the event callback is not passed on.
UnfakeSilent(u, reason) ==
  IF u.state # "fake" THEN u ELSE [u EXCEPT !.reason = reason, !.state = "bind"]

Unfake(u, reason) ==
  IF u.state # "fake" THEN u
  ELSE [Report([u EXCEPT !.reason = reason], "unfake") EXCEPT !.state = "bind"]

\* Mutant: lan offline before the state changes.
UnbindOfflineFirst(u, reason) ==
  LET v == Unfake(Deauth(u, reason), reason)
  IN  IF v.state # "bind" THEN v
      ELSE [LanOffline(Report([v EXCEPT !.reason = reason], "unbind"))
              EXCEPT !.ip = NoIp, !.state = "none"]

\* Mutant: the event is reported last.
UnbindReportLast(u, reason) ==
  LET v == Unfake(Deauth(u, reason), reason)
  IN  IF v.state # "bind" THEN v
      ELSE Report(LanOffline([v EXCEPT !.reason = reason, !.ip = NoIp,
                                       !.state = "none"]), "unbind")

\* Mutant: the address is kept.
UnbindKeepIp(u, reason) ==
  LET v == Unfake(Deauth(u, reason), reason)
  IN  IF v.state # "bind" THEN v
      ELSE LanOffline([Report([v EXCEPT !.reason = reason], "unbind")
                         EXCEPT !.state = "none"])

\* auth or fake ==> bind ==> none.  lan offline comes last: only for a user
\* @none does it note the time as noused.
Unbind(u, reason) ==
  LET v == Unfake(Deauth(u, reason), reason)
  IN  IF v.state # "bind" THEN v
      ELSE LanOffline([Report([v EXCEPT !.reason = reason], "unbind")
                         EXCEPT !.ip = NoIp, !.state = "none"])

Block(u) ==
  LET v == Unbind(u, "block")
  IN  IF v.state # "none" THEN v
      ELSE [Report([v EXCEPT !.reason = "block"], "block") EXCEPT !.state = "block"]

Unblock(u) ==
  IF u.state # "block" THEN u ELSE Report([u EXCEPT !.state = "none"], "unblock")

\* A user bound to another address is unbound first.
Release(u, ip) == IF IsBound(u) /\ u.ip # ip THEN Unbind(u, "auto") ELSE u

Bind(u, ip) ==
  LET v == Release(u, ip)
  IN  IF v.state # "none" THEN v
      ELSE Report(UpdateAging(LanOnline([v EXCEPT !.ip = ip, !.state = "bind"])), "bind")

\* Mutant: the guard against a blocked user is missing.
FakeBlocked(u, ip) ==
  LET v == Release(u, ip)
  IN  IF IsBound(v) THEN v
      ELSE Report([UpdateAging(LanOnline([v EXCEPT !.ip = ip, !.state = "fake"]))
                     EXCEPT !.faketime = now], "fake")

Fake(u, ip) ==
  LET v == Release(u, ip)
  IN  IF u.state = "block" \/ IsBound(v) THEN v
      ELSE Report([UpdateAging(LanOnline([v EXCEPT !.ip = ip, !.state = "fake"]))
                     EXCEPT !.faketime = now], "fake")

Reauth(u) == IF u.state # "auth" THEN u ELSE Report(u, "reauth")

\* ip: what the getipbymac script finds for a user @none.
Auth(u, limit, ip) ==
  LET v == IF u.state = "none" /\ ip # Nothing THEN Bind(u, ip) ELSE u
  IN  IF ~IsBound(v) THEN v
      ELSE Report(UpdateAging(WanOnline([v EXCEPT !.state = "auth", !.reason = "none",
                                                  !.limit = limit])), "auth")

\* umd_touser overwrites every member the document has; it has no faketime
\* member that umd_touser reads.
Sync(u, dump) ==
  Report([dump EXCEPT !.faketime = u.faketime, !.log = u.log], "sync")

-----------------------------------------------------------------------------
(* A captured packet, charged to the user at its user end.                 *)

\* "lan' flow include wan's flow"
FlowUpdate(u, type, dir, len) ==
  LET charged == IF type = "wan" THEN {"wan", "lan"} ELSE {type}
  IN  [u EXCEPT !.flow = [t \in Type |-> [d \in Dir |->
         u.flow[t][d] + IF t \in charged /\ d \in {dir, "all"} THEN len ELSE 0]]]

Exceeds(u, bound, type, dir) ==
  \E d \in {dir, "all"} : bound[type][d] # 0 /\ bound[type][d] < u.flow[type][d]

FlowReauth(u, type, dir) ==
  IF Reauthable /\ type = "wan" /\ Exceeds(u, u.limit.flowreauth, type, dir)
  THEN Reauth(u) ELSE u

\* wan over its limit: auth ==> bind; lan over its limit: ==> none.
Overflow(u, type, dir) ==
  LET v == IF type = "wan" /\ Exceeds(u, u.limit.flowmax, type, dir)
           THEN Deauth(u, "flowlimit") ELSE u
  IN  IF Exceeds(v, v.limit.flowmax, "lan", dir) THEN Unbind(v, "flowlimit") ELSE v

\* Only a station the table does not hold becomes a user by its packet.
AutoUser(u, ip) ==
  IF u.state # "absent" \/ ~Autouser THEN u
  ELSE IF Fakeable THEN Fake(Create(u), ip) ELSE Bind(Create(u), ip)

umd_conn_handle(u, ip, type, dir, len) ==
  LET v == AutoUser(u, ip)
  IN  IF ~IsBound(v) THEN v
      ELSE UpdateAging(Overflow(FlowReauth(FlowUpdate(v, type, dir, len), type, dir),
                                type, dir))

-----------------------------------------------------------------------------
(* The timer.                                                              *)

Older(time, age) == time < now /\ now - time > age

FakeTimeout(u) ==
  IF u.state = "fake" /\ FAKE # 0 /\ Older(u.faketime, FAKE)
  THEN Unfake(u, "onlinetime") ELSE u

OnlineReauth(u) ==
  IF Reauthable /\ \E t \in Type : u.limit.reauth[t] # 0 /\ Older(u.uptime[t], u.limit.reauth[t])
  THEN Reauth(u) ELSE u

\* Mutant: only the lan is looked at.
LanTimeout(u) ==
  IF u.limit.max["lan"] # 0 /\ Older(u.uptime["lan"], u.limit.max["lan"])
  THEN Deauth(u, "onlinetime") ELSE u

OnlineTimeout(u) ==
  IF \E t \in Type : u.limit.max[t] # 0 /\ Older(u.uptime[t], u.limit.max[t])
  THEN Deauth(u, "onlinetime") ELSE u

Age(u, type) ==
  IF u.limit.idle[type] = 0 THEN u
  ELSE LET v == [u EXCEPT !.aging[type] = @ - TICKS]
       IN  IF v.aging[type] <= 0 THEN Unbind(v, "aging") ELSE v

\* Mutant: only authenticated users age.
AgingAuthOnly(u) == IF u.state = "auth" THEN Age(Age(u, "wan"), "lan") ELSE u

OnlineAging(u) == IF IsBound(u) THEN Age(Age(u, "wan"), "lan") ELSE u

umd_user_gc(u) == IF u.state = "none" THEN Delete(u) ELSE u

GcAuto(u) ==
  IF GCUSER # 0 /\ Older(u.noused, GCUSER) THEN umd_user_gc(u) ELSE u

\* The driver does not know the station.
Unheard == [d \in Dir |-> -1]

\* The driver's counters of the station take the place of both flows.
BrflowUpdate(u, counter) ==
  IF u.state = "absent" \/ counter = Unheard THEN u
  ELSE UpdateAging([u EXCEPT !.flow = [t \in Type |-> counter]])

umduser_timer_handle(u, counter) ==
  GcAuto(BrflowUpdate(OnlineAging(OnlineTimeout(OnlineReauth(FakeTimeout(u)))),
                      counter))

-----------------------------------------------------------------------------
(* Handlers.                                                               *)

Fresh(u) == [u EXCEPT !.log = <<>>]

\* The users become next[o]; the log is that of this step.
Become(next) ==
  /\ user' = next
  /\ lastBound' = [o \in Obj |->
       IF IsBound(user[o]) \/ IsBound(next[o]) THEN now ELSE lastBound[o]]

Handle(o, u) == Become([x \in Obj |-> IF x = o THEN u ELSE Fresh(user[x])])

\* A command or a packet arrives.
Serve(o, u) ==
  /\ now <= CliUntil
  /\ Handle(o, u)
  /\ UNCHANGED <<now, due>>

It(o) == Fresh(user[o])
Present(o) == user[o].state # "absent"

Users(station) == {o \in Obj : Station[o] = station /\ Present(o)}

\* o is what umduser_get finds of its station, one of its users, or the
\* memory for one if it finds none.
Got(o) == Present(o) \/ Users(Station[o]) = {}

umd_user_create(o) == Got(o) /\ Serve(o, Create(It(o)))

\* The user umduser_get finds is not looked at.
umd_user_associate(o) == ~Present(o) /\ Serve(o, Create(It(o)))

\* delete, and diassociate.
umd_user_delete(o) == Present(o) /\ Serve(o, Delete(It(o)))

umd_user_block(o) == Got(o) /\ Serve(o, Block(Create(It(o))))

umd_user_unblock(o) == Present(o) /\ Serve(o, Unblock(It(o)))

umd_user_bind(o, ip) == Got(o) /\ Serve(o, Bind(Create(It(o)), ip))

umd_user_unbind(o) == Present(o) /\ Serve(o, Unbind(It(o), "initiative"))

umd_user_fake(o, ip) == Fakeable /\ Got(o) /\ Serve(o, Fake(Create(It(o)), ip))

umd_user_unfake(o) == Fakeable /\ Present(o) /\ Serve(o, Unfake(It(o), "initiative"))

umd_user_auth(o, limit, ip) == Got(o) /\ Serve(o, Auth(Create(It(o)), limit, ip))

umd_user_deauth(o) == Present(o) /\ Serve(o, Deauth(It(o), "admin"))

umd_user_reauth(o) == Reauthable /\ Present(o) /\ Serve(o, Reauth(It(o)))

umd_user_sync(o, dump) == Got(o) /\ Serve(o, Sync(Create(It(o)), dump))

\* The gc command.
umd_handle_gc ==
  /\ now <= CliUntil
  /\ GCUSER # 0
  /\ Become([o \in Obj |-> umd_user_gc(Fresh(user[o]))])
  /\ UNCHANGED <<now, due>>

\* A command or a packet that changes no user: it is refused, or it is of a
\* user that is not in Obj.
Elsewhere ==
  /\ now <= CliUntil
  /\ Become([o \in Obj |-> Fresh(user[o])])
  /\ UNCHANGED <<now, due>>

Packet(o, ip, type, dir, len) ==
  /\ user[o].flow["lan"]["all"] <= MaxFlow
  /\ Got(o)
  /\ Serve(o, umd_conn_handle(It(o), ip, type, dir, len))

\* A second passes; the timer expires every TICKS seconds.
Tick ==
  /\ ~due
  /\ now < MaxTime
  /\ now' = now + 1
  /\ due' = ((now + 1) % TICKS = 0)
  /\ user' = [o \in Obj |-> Fresh(user[o])]
  /\ UNCHANGED lastBound

\* A station that is no longer spoken to is no longer known to the driver.
Heard == IF now <= CliUntil THEN Counters \cup {Unheard} ELSE {Unheard}

umd_user_timer ==
  /\ due
  /\ due' = FALSE
  /\ \E counter \in [Obj -> Heard] :
       Become([o \in Obj |-> umduser_timer_handle(Fresh(user[o]), counter[o])])
  /\ UNCHANGED now

-----------------------------------------------------------------------------

Init ==
  /\ now = 0
  /\ due = FALSE
  /\ user = [o \in Obj |-> Absent]
  /\ lastBound = [o \in Obj |-> 0]

Command(o) ==
  \/ umd_user_create(o)
  \/ umd_user_associate(o)
  \/ umd_user_delete(o)
  \/ umd_user_block(o)
  \/ umd_user_unblock(o)
  \/ \E ip \in Address : umd_user_bind(o, ip)
  \/ umd_user_unbind(o)
  \/ \E ip \in Address : umd_user_fake(o, ip)
  \/ umd_user_unfake(o)
  \/ \E limit \in Limits, ip \in Address \cup {Nothing} : umd_user_auth(o, limit, ip)
  \/ umd_user_deauth(o)
  \/ umd_user_reauth(o)
  \/ \E dump \in Dumps : umd_user_sync(o, dump)

Next ==
  \/ Tick
  \/ umd_user_timer
  \/ umd_handle_gc
  \/ Elsewhere
  \/ \E o \in Obj :
       \/ Command(o)
       \/ \E ip \in Ip, type \in Type, dir \in {"up", "down"}, len \in PktLen :
            Packet(o, ip, type, dir, len)

Spec == Init /\ [][Next]_vars

Passed == ~due /\ now < MaxTime /\ now' = now + 1
Handled == due /\ due' = FALSE

\* Time passes and the loop runs its timer: Tick is the one step in which the
\* clock moves, umd_user_timer the one that takes the expiry.
FairSpec == Spec /\ WF_now(Passed) /\ WF_due(Handled)

-----------------------------------------------------------------------------
(* Properties.                                                             *)

\* A user that is not bound has no address, through every path on which several
\* operators are called in a row.
UnboundHasNoIp == \A o \in Obj : ~IsBound(user[o]) => user[o].ip = NoIp

\* "lan's flow include wan's flow" (umd_overflow): whatever sessions were
\* opened and closed, no direction of the lan has counted less than the wan,
\* and each total is the sum of its directions.
LanIncludesWan ==
  \A o \in Obj :
    LET flow == user[o].flow
    IN  /\ \A d \in Dir : flow["lan"][d] >= flow["wan"][d]
        /\ \A t \in Type : flow[t]["all"] = flow[t]["up"] + flow[t]["down"]

\* An authenticated user has not used more wan volume than its limits allow,
\* in either direction or in total, between any two handlers.
FlowQuota ==
  \A o \in Obj : user[o].state = "auth" =>
    \A d \in Dir :
      LET max == user[o].limit.flowmax["wan"][d]
      IN  max = 0 \/ user[o].flow["wan"][d] <= max

\* Once the timer has been handled, no authenticated user has been online for
\* longer than its wan limit, and no user on trial for longer than FAKE.
TimeQuota ==
  ~due =>
    \A o \in Obj :
      LET u == user[o]
      IN  /\ u.state = "auth" /\ u.limit.max["wan"] # 0
               => now - u.uptime["wan"] < u.limit.max["wan"] + TICKS
          /\ u.state = "fake" /\ FAKE # 0 => now - u.faketime < FAKE + TICKS

\* The aging counter of a bound user is within its idle time and above zero:
\* no path leaves a counter of an earlier state or earlier limits running.
AgingInRange ==
  \A o \in Obj : IsBound(user[o]) =>
    \A t \in Type : user[o].limit.idle[t] # 0 =>
      user[o].aging[t] \in 1 .. user[o].limit.idle[t]

Blocked(station) ==
  /\ Users(station) # {}
  /\ \A o \in Users(station) : user[o].state = "block"

\* The step reports one of the actions of the station.
Reported(station, actions) ==
  \E o \in Obj : /\ Station[o] = station
                 /\ \E i \in 1 .. Len(user'[o].log) : user'[o].log[i].action \in actions

\* A blocked station cannot get in by a step of its own: a step that binds one
\* of its users is a document of a peer.  It stays blocked until unblock,
\* delete or such a document, or until associate makes it a second user.
BlockedStaysOut ==
  [][\A station \in {Station[o] : o \in Obj} : Blocked(station) =>
       /\ \/ \A o \in Users(station)' : ~IsBound(user'[o])
          \/ Reported(station, {"sync"})
       /\ \/ Blocked(station)'
          \/ Reported(station, {"unblock", "delete", "sync", "create"})]_vars

\* The states an event can come in, and the state it leads to.
From(action) ==
  CASE action = "create" -> {"absent"}
    [] action \in {"bind", "fake", "block"} -> {"none"}
    [] action = "auth" -> Bound
    [] action \in {"deauth", "reauth"} -> {"auth"}
    [] action = "unfake" -> {"fake"}
    [] action = "unbind" -> {"bind"}
    [] action = "unblock" -> {"block"}
    [] action \in {"delete", "sync"} -> State

To(e) ==
  CASE e.action \in {"create", "unbind", "unblock"} -> "none"
    [] e.action \in {"bind", "deauth", "unfake"} -> "bind"
    [] e.action \in {"fake", "auth", "block"} -> e.action
    [] e.action = "delete" -> "absent"
    [] e.action \in {"reauth", "sync"} -> e.state

\* Events reported before the state changes: they carry the state that ends.
Early == {"delete", "deauth", "unfake", "unbind", "block"}

\* The events of log tell how a user came from state `before` to `state`.
Told(before, log, state) ==
  LET at(i) == IF i = 0 THEN before ELSE To(log[i])
  IN  /\ state = at(Len(log))
      /\ \A i \in 1 .. Len(log) :
           /\ at(i - 1) \in From(log[i].action)
           /\ log[i].state = IF log[i].action \in Early THEN at(i - 1) ELSE at(i)

\* The scripts can follow: the events of a step, in order, lead each user from
\* its state before the step to its state after it, each comes in a state it
\* can come in, and carries the state it ends or the one it starts.
EventsTell ==
  [][\A o \in Obj : Told(user[o].state, user'[o].log, user'[o].state)]_vars

\* The events that give a user its address, and those that take it.
Gives == {"bind", "fake", "sync"}
Takes == {"unbind", "delete"}

\* The events of log tell how a user came from address `before` to `ip`.
Addressed(before, log, ip) ==
  LET at(i) == IF i = 0 THEN before
               ELSE IF log[i].action \in Takes THEN NoIp ELSE log[i].ip
  IN  /\ ip = at(Len(log))
      /\ \A i \in 1 .. Len(log) : log[i].action \notin Gives => log[i].ip = at(i - 1)

\* The scripts can tell whose traffic to let through: bind, fake and sync carry
\* the user's new address, every other event the one it has had since, so that
\* deauth, unfake and unbind come before it is cleared.
EventsNameIp ==
  [][\A o \in Obj : Addressed(user[o].ip, user'[o].log, user'[o].ip)]_vars

\* The timer never collects a user that was bound in the last GCUSER seconds,
\* nor one that is bound or blocked.
NotCollectedEarly ==
  [][due /\ ~due' => \A o \in Obj : Present(o) /\ user'[o].state = "absent" =>
       now - lastBound[o] > GCUSER /\ user[o].state # "block"]_vars

\* Once nobody speaks to a station any more, the timer leads its users out: from
\* auth or fake to bind, to none, and out of the table, unless they are blocked.
IdleUserLeaves ==
  <>[](\A o \in Obj : user[o].state \in {"absent", "block"})
=============================================================================
