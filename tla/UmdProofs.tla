----------------------------- MODULE UmdProofs ------------------------------
(***************************************************************************)
(* Proofs about the user manager, for any number of users and every        *)
(* configuration.  What the operators of user.c keep true is a property of *)
(* one user, GoodUser; each operator is shown to keep it, so every handler *)
(* does, in whatever order it calls them.  Last, that one user is enough   *)
(* to look at.                                                             *)
(***************************************************************************)
EXTENDS Umd, SequenceTheorems, TLAPS

\* A user that is not bound has no address.
IpWhileBound(u) == ~IsBound(u) => u.ip = NoIp

\* The lan counts what the wan counts, and the totals are sums.
FlowSums(f) ==
  /\ \A d \in Dir : f["lan"][d] >= f["wan"][d]
  /\ \A t \in Type : f[t]["all"] = f[t]["up"] + f[t]["down"]

\* The aging counters of a bound user are within its idle times.
AgingRuns(u) ==
  IsBound(u) => \A t \in Type : u.limit.idle[t] # 0 => u.aging[t] \in 1 .. u.limit.idle[t]

GoodUser(u) ==
  /\ u \in User
  /\ IpWhileBound(u)
  /\ FlowSums(u.flow)
  /\ AgingRuns(u)

\* The same but for the aging counters, which some operators renew last.
Unaged(u) == u \in User /\ IpWhileBound(u) /\ FlowSums(u.flow)

\* The documents a peer sends describe such users.
GoodDumps == \A dump \in Dumps : GoodUser(dump)

\* no flow, no time
NoFlow == [t \in Type |-> [d \in Dir |-> 0]]
NoTime == [t \in Type |-> 0]

\* Counters at zero are counters, and add up.
LEMMA NoFlowType == NoFlow \in [Type -> [Dir -> Nat]] /\ FlowSums(NoFlow)
BY DEF NoFlow, FlowSums, Type, Dir

\* Times at zero are times.
LEMMA NoTimeType == NoTime \in [Type -> Nat]
BY DEF NoTime

\* No limits are limits.
LEMMA NoLimitType == NoLimit \in Limit
BY NoFlowType, NoTimeType DEF NoLimit, Limit, NoFlow, NoTime

\* A station without a user is good.
LEMMA AbsentGood == GoodUser(Absent)
<1>1. Absent = [state |-> "absent", reason |-> "none", ip |-> NoIp, noused |-> 0,
                faketime |-> 0, uptime |-> NoTime, aging |-> NoTime,
                limit |-> NoLimit, flow |-> NoFlow, log |-> <<>>]
  BY DEF Absent, NoTime, NoFlow
<1>2. NoTime \in [Type -> Int] /\ NoTime \in [Type -> Nat]
  BY NoTimeType DEF NoTime
<1>3. <<>> \in Seq(Event)
  OBVIOUS
<1>4. Absent \in User
  BY <1>1, <1>2, <1>3, NoFlowType, NoLimitType DEF User, State, Reason, Address
<1>5. ~IsBound(Absent) /\ Absent.ip = NoIp /\ Absent.flow = NoFlow
  BY <1>1 DEF IsBound, Bound
<1> QED
  BY <1>4, <1>5, NoFlowType DEF GoodUser, IpWhileBound, AgingRuns

(***************************************************************************)
(* The parts operators are built from.                                     *)
(***************************************************************************)

\* Reporting an event changes the log only.
LEMMA ReportKeeps ==
  ASSUME NEW u \in User, NEW action \in Action
  PROVE  /\ Report(u, action) \in User
         /\ Report(u, action).state = u.state
         /\ Unaged(u) => Unaged(Report(u, action))
         /\ GoodUser(u) => GoodUser(Report(u, action))
<1> DEFINE e == [action |-> action, state |-> u.state, ip |-> u.ip]
           v == Report(u, action)
<1>1. e \in Event
  BY DEF Event, User
<1>2. Append(u.log, e) \in Seq(Event)
  BY <1>1 DEF User
<1> HIDE DEF e
<1>3. v = [u EXCEPT !.log = Append(u.log, e)]
  BY DEF Report, e
<1>4. /\ v \in User /\ v.state = u.state /\ v.ip = u.ip /\ v.flow = u.flow
      /\ v.limit = u.limit /\ v.aging = u.aging
  BY <1>2, <1>3 DEF User
<1> HIDE DEF v
<1>5. /\ Unaged(u) => Unaged(v)
      /\ GoodUser(u) => GoodUser(v)
  BY <1>4 DEF Unaged, GoodUser, IpWhileBound, IsBound, AgingRuns
<1> QED
  BY <1>4, <1>5 DEF v

\* Going online on the lan starts the counters over.
LEMMA LanOnlineKeeps ==
  ASSUME now \in Nat, NEW u \in User
  PROVE  /\ LanOnline(u) \in User
         /\ LanOnline(u).state = u.state /\ LanOnline(u).ip = u.ip
         /\ FlowSums(LanOnline(u).flow)
<1> DEFINE up == [t \in Type |-> IF t = "lan" THEN now ELSE 0]
           idle == [t \in Type |-> IDLE]
           v == LanOnline(u)
<1>1. up \in [Type -> Nat] /\ idle \in [Type -> Nat]
  BY UmdAssumption
<1> HIDE DEF up, idle
<1>2. u.limit \in Limit
  BY DEF User
<1>3. [u.limit EXCEPT !.idle = idle] \in Limit
  BY <1>1, <1>2 DEF Limit
<1>4. v = [u EXCEPT !.uptime = up, !.limit = [u.limit EXCEPT !.idle = idle], !.flow = NoFlow]
  BY DEF LanOnline, up, idle, NoFlow, User
<1>5. v \in User /\ v.state = u.state /\ v.ip = u.ip /\ v.flow = NoFlow
  BY <1>1, <1>3, <1>4, NoFlowType DEF User
<1> QED
  BY <1>5, NoFlowType

\* Renewing the aging counters makes them right.
LEMMA UpdateAgingGood ==
  ASSUME NEW u, Unaged(u)
  PROVE  GoodUser(UpdateAging(u)) /\ UpdateAging(u).state = u.state
<1> DEFINE v == UpdateAging(u)
<1>0. u \in User /\ u.limit.idle \in [Type -> Nat]
  BY DEF Unaged, User, Limit
<1>1. u \in User /\ u.limit.idle \in [Type -> Nat] /\ u.limit.idle \in [Type -> Int]
  BY <1>0
<1>2. /\ v \in User /\ v.state = u.state /\ v.ip = u.ip /\ v.flow = u.flow
      /\ v.limit = u.limit /\ v.aging = u.limit.idle
  BY <1>1 DEF UpdateAging, User
<1> HIDE DEF v
<1>3. AgingRuns(v)
  BY <1>1, <1>2 DEF AgingRuns
<1>4. GoodUser(v) /\ v.state = u.state
  BY <1>2, <1>3 DEF Unaged, GoodUser, IpWhileBound, IsBound
<1> QED
  BY <1>4 DEF v

(***************************************************************************)
(* The operators of user.c keep a user good.                               *)
(***************************************************************************)

\* user_create makes a good user.
LEMMA CreateGood ==
  ASSUME now \in Nat, NEW u, GoodUser(u)
  PROVE  GoodUser(Create(u))
<1> DEFINE a == [Absent EXCEPT !.state = "none", !.log = u.log]
           b == [LanOnline(a) EXCEPT !.noused = now]
<1>1. CASE u.state # "absent"
  BY <1>1 DEF Create
<1>2. CASE u.state = "absent"
  <2>1. Absent \in User /\ u.log \in Seq(Event)
    BY AbsentGood DEF GoodUser, User
  <2>2. a \in User /\ a.state = "none" /\ a.ip = NoIp
    BY <2>1 DEF User, State, Absent
  <2> HIDE DEF a
  <2>3. /\ LanOnline(a) \in User /\ LanOnline(a).state = "none"
        /\ LanOnline(a).ip = NoIp /\ FlowSums(LanOnline(a).flow)
    BY <2>2, LanOnlineKeeps
  <2>4. b \in User /\ b.state = "none" /\ b.ip = NoIp /\ FlowSums(b.flow)
    BY <2>3 DEF User
  <2> HIDE DEF b
  <2>5. GoodUser(b)
    BY <2>4 DEF GoodUser, IpWhileBound, IsBound, Bound, AgingRuns
  <2>6. Create(u) = Report(b, "create")
    BY <1>2 DEF Create, a, b
  <2> QED
    BY <2>4, <2>5, <2>6, ReportKeeps DEF Action
<1> QED
  BY <1>1, <1>2

\* user_delete leaves nothing but the event.
LEMMA DeleteGood ==
  ASSUME NEW u, GoodUser(u)
  PROVE  GoodUser(Delete(u))
<1> DEFINE log == Report(u, "delete").log
<1>1. log \in Seq(Event)
  BY ReportKeeps DEF GoodUser, User, Action
<1> HIDE DEF log
<1>2. /\ [Absent EXCEPT !.log = log] \in User
      /\ [Absent EXCEPT !.log = log].ip = NoIp
      /\ [Absent EXCEPT !.log = log].state = "absent"
      /\ [Absent EXCEPT !.log = log].flow = Absent.flow
  BY <1>1, AbsentGood DEF GoodUser, User, Absent
<1> QED
  BY <1>2, AbsentGood DEF Delete, log, GoodUser, IpWhileBound, IsBound, Bound, AgingRuns

\* A good user is one whatever becomes of its aging counters.
LEMMA GoodIsUnaged == ASSUME NEW u, GoodUser(u) PROVE Unaged(u)
BY DEF GoodUser, Unaged

\* A user that is not bound does not age.
LEMMA UnboundIsGood ==
  ASSUME NEW u, Unaged(u), ~IsBound(u) PROVE GoodUser(u)
BY DEF GoodUser, Unaged, AgingRuns

\* From one bound state to another.
LEMMA DemoteGood ==
  ASSUME NEW u, Unaged(u), IsBound(u), NEW reason \in Reason, NEW action \in Action
  PROVE  LET v == [Report([u EXCEPT !.reason = reason], action) EXCEPT !.state = "bind"]
         IN  Unaged(v) /\ v.state = "bind" /\ (GoodUser(u) => GoodUser(v))
<1> DEFINE a == [u EXCEPT !.reason = reason]
           b == Report(a, action)
           v == [b EXCEPT !.state = "bind"]
<1>1. /\ a \in User /\ a.state = u.state /\ a.ip = u.ip /\ a.flow = u.flow
      /\ a.limit = u.limit /\ a.aging = u.aging
  BY DEF Unaged, User
<1>2. Unaged(a) /\ IsBound(a) /\ (GoodUser(u) => GoodUser(a))
  BY <1>1 DEF Unaged, GoodUser, IpWhileBound, IsBound, AgingRuns
<1> HIDE DEF a
<1>3. Unaged(b) /\ IsBound(b) /\ (GoodUser(u) => GoodUser(b))
  BY <1>1, <1>2, ReportKeeps DEF IsBound
<1> HIDE DEF b
<1>4. /\ v \in User /\ v.state = "bind" /\ v.ip = b.ip /\ v.flow = b.flow
      /\ v.limit = b.limit /\ v.aging = b.aging
  BY <1>3 DEF Unaged, User, State, Bound
<1> HIDE DEF v
<1>5. Unaged(v) /\ v.state = "bind" /\ (GoodUser(u) => GoodUser(v))
  BY <1>3, <1>4 DEF Unaged, GoodUser, IpWhileBound, IsBound, AgingRuns, Bound
<1> QED
  BY <1>5 DEF v, b, a

\* user_deauth takes a good user back to bind.
LEMMA DeauthGood ==
  ASSUME NEW u, Unaged(u), NEW reason \in Reason
  PROVE  /\ Unaged(Deauth(u, reason)) /\ Deauth(u, reason).state # "auth"
         /\ GoodUser(u) => GoodUser(Deauth(u, reason))
<1>1. CASE u.state # "auth"
  BY <1>1 DEF Deauth
<1>2. CASE u.state = "auth"
  <2>1. IsBound(u) /\ "deauth" \in Action
    BY <1>2 DEF IsBound, Bound, Action
  <2> QED
    BY <1>2, <2>1, DemoteGood DEF Deauth
<1> QED
  BY <1>1, <1>2

\* user_unfake takes a good user back to bind.
LEMMA UnfakeGood ==
  ASSUME NEW u, Unaged(u), NEW reason \in Reason
  PROVE  /\ Unaged(Unfake(u, reason)) /\ Unfake(u, reason).state # "fake"
         /\ u.state # "auth" => Unfake(u, reason).state # "auth"
         /\ GoodUser(u) => GoodUser(Unfake(u, reason))
<1>1. CASE u.state # "fake"
  BY <1>1 DEF Unfake
<1>2. CASE u.state = "fake"
  <2>1. IsBound(u) /\ "unfake" \in Action
    BY <1>2 DEF IsBound, Bound, Action
  <2> QED
    BY <1>2, <2>1, DemoteGood DEF Unfake
<1> QED
  BY <1>1, <1>2

\* user_lan_offline changes noused only.
LEMMA LanOfflineKeeps ==
  ASSUME now \in Nat, NEW u \in User
  PROVE  /\ LanOffline(u) \in User /\ LanOffline(u).state = u.state
         /\ LanOffline(u).ip = u.ip /\ LanOffline(u).flow = u.flow
BY DEF LanOffline, User

\* Unbinding is right whatever the aging counters are.
LEMMA UnbindGood ==
  ASSUME now \in Nat, NEW u, Unaged(u), NEW reason \in Reason
  PROVE  GoodUser(Unbind(u, reason)) /\ ~IsBound(Unbind(u, reason))
<1> DEFINE v == Unfake(Deauth(u, reason), reason)
           a == [v EXCEPT !.reason = reason]
           b == Report(a, "unbind")
           c == [b EXCEPT !.ip = NoIp, !.state = "none"]
<1>1. Unaged(v) /\ v.state # "auth" /\ v.state # "fake"
  BY DeauthGood, UnfakeGood
<1> HIDE DEF v
<1>2. a \in User /\ a.flow = v.flow /\ a.ip = v.ip /\ a.state = v.state
  BY <1>1 DEF Unaged, User
<1>3. Unaged(a)
  BY <1>1, <1>2 DEF Unaged, IpWhileBound, IsBound
<1> HIDE DEF a
<1>4. Unaged(b)
  BY <1>2, <1>3, ReportKeeps DEF Action
<1> HIDE DEF b
<1>5. c \in User /\ c.ip = NoIp /\ c.state = "none" /\ c.flow = b.flow
  BY <1>4 DEF Unaged, User, State, Address
<1> HIDE DEF c
<1>6. /\ LanOffline(c) \in User /\ LanOffline(c).ip = NoIp
      /\ LanOffline(c).state = "none" /\ LanOffline(c).flow = b.flow
  BY <1>5, LanOfflineKeeps
<1>7. GoodUser(LanOffline(c)) /\ ~IsBound(LanOffline(c))
  BY <1>4, <1>6 DEF GoodUser, Unaged, IpWhileBound, IsBound, Bound, AgingRuns
<1>8. Unbind(u, reason) = IF v.state # "bind" THEN v ELSE LanOffline(c)
  BY DEF Unbind, v, a, b, c
<1>9. v.state # "bind" => GoodUser(v) /\ ~IsBound(v)
  BY <1>1, UnboundIsGood DEF IsBound, Bound
<1> QED
  BY <1>7, <1>8, <1>9

\* A user out of the bound states, changed only in its state and reason.
LEMMA OutsideGood ==
  ASSUME NEW u, GoodUser(u), ~IsBound(u), NEW v \in User, v.ip = u.ip,
         v.flow = u.flow, ~IsBound(v)
  PROVE  GoodUser(v)
BY DEF GoodUser, IpWhileBound, AgingRuns

\* user_block leaves a good user, without an address if it was let in.
LEMMA BlockGood ==
  ASSUME now \in Nat, NEW u, GoodUser(u)
  PROVE  GoodUser(Block(u))
<1> DEFINE v == Unbind(u, "block")
           a == [v EXCEPT !.reason = "block"]
           b == Report(a, "block")
           c == [b EXCEPT !.state = "block"]
<1>0. "block" \in Reason /\ "block" \in Action
  BY DEF Reason, Action
<1>1. GoodUser(v)
  BY <1>0, UnbindGood, GoodIsUnaged
<1> HIDE DEF v
<1>2. CASE v.state = "none"
  <2>1. a \in User /\ a.flow = v.flow /\ a.ip = v.ip /\ a.state = "none"
    BY <1>1, <1>0, <1>2 DEF GoodUser, User
  <2>2. GoodUser(a)
    BY <1>1, <1>2, <2>1, OutsideGood DEF IsBound, Bound
  <2> HIDE DEF a
  <2>3. GoodUser(b) /\ b.state = "none"
    BY <2>1, <2>2, <1>0, ReportKeeps
  <2> HIDE DEF b
  <2>4. c \in User /\ c.flow = b.flow /\ c.ip = b.ip /\ c.state = "block"
    BY <2>3 DEF GoodUser, User, State
  <2> HIDE DEF c
  <2>5. GoodUser(c)
    BY <2>3, <2>4, OutsideGood DEF IsBound, Bound
  <2>6. Block(u) = c
    BY <1>2 DEF Block, v, a, b, c
  <2> QED
    BY <2>5, <2>6
<1>3. CASE v.state # "none"
  BY <1>1, <1>3 DEF Block, v
<1> QED
  BY <1>2, <1>3

\* user_unblock leaves a good user.
LEMMA UnblockGood ==
  ASSUME NEW u, GoodUser(u)
  PROVE  GoodUser(Unblock(u))
<1> DEFINE v == [u EXCEPT !.state = "none"]
<1>1. CASE u.state = "block"
  <2>1. v \in User /\ v.flow = u.flow /\ v.ip = u.ip /\ v.state = "none"
    BY DEF GoodUser, User, State
  <2> HIDE DEF v
  <2>2. GoodUser(v)
    BY <1>1, <2>1, OutsideGood DEF IsBound, Bound
  <2>3. Unblock(u) = Report(v, "unblock")
    BY <1>1 DEF Unblock, v
  <2> QED
    BY <2>1, <2>2, <2>3, ReportKeeps DEF Action
<1>2. CASE u.state # "block"
  BY <1>2 DEF Unblock
<1> QED
  BY <1>1, <1>2

\* A user that comes with another address is unbound, or left alone.
LEMMA ReleaseGood ==
  ASSUME now \in Nat, NEW u, GoodUser(u), NEW ip
  PROVE  GoodUser(Release(u, ip)) /\ (u.state = "block" => Release(u, ip) = u)
<1>1. "auto" \in Reason
  BY DEF Reason
<1>2. GoodUser(Unbind(u, "auto"))
  BY <1>1, UnbindGood, GoodIsUnaged
<1> QED
  BY <1>2 DEF Release, IsBound, Bound

\* A user comes in under an address, and its aging counters are renewed.
LEMMA EnterGood ==
  ASSUME now \in Nat, NEW u \in User, NEW ip \in Address, NEW state \in Bound
  PROVE  LET v == UpdateAging(LanOnline([u EXCEPT !.ip = ip, !.state = state]))
         IN  GoodUser(v) /\ v.state = state
<1> DEFINE a == [u EXCEPT !.ip = ip, !.state = state]
<1>1. a \in User /\ a.ip = ip /\ a.state = state
  BY DEF User, State
<1> HIDE DEF a
<1>2. /\ LanOnline(a) \in User /\ LanOnline(a).state = state
      /\ LanOnline(a).ip = ip /\ FlowSums(LanOnline(a).flow)
  BY <1>1, LanOnlineKeeps
<1>4. Unaged(LanOnline(a))
  BY <1>2 DEF Unaged, IpWhileBound, IsBound
<1>5. GoodUser(UpdateAging(LanOnline(a))) /\ UpdateAging(LanOnline(a)).state = state
  BY <1>2, <1>4, UpdateAgingGood
<1> QED
  BY <1>5 DEF a

\* user_bind leaves a good user.
LEMMA BindGood ==
  ASSUME now \in Nat, NEW u, GoodUser(u), NEW ip \in Address
  PROVE  GoodUser(Bind(u, ip))
<1> DEFINE v == Release(u, ip)
           w == UpdateAging(LanOnline([v EXCEPT !.ip = ip, !.state = "bind"]))
<1>1. GoodUser(v) /\ v \in User
  BY ReleaseGood DEF GoodUser
<1> HIDE DEF v
<1>2. GoodUser(w)
  BY <1>1, EnterGood DEF Bound
<1> HIDE DEF w
<1>3. GoodUser(Report(w, "bind"))
  BY <1>2, ReportKeeps DEF Action, GoodUser
<1>4. Bind(u, ip) = IF v.state # "none" THEN v ELSE Report(w, "bind")
  BY DEF Bind, v, w
<1> QED
  BY <1>1, <1>3, <1>4

\* user_fake leaves a good user.
LEMMA FakeGood ==
  ASSUME now \in Nat, NEW u, GoodUser(u), NEW ip \in Address
  PROVE  GoodUser(Fake(u, ip))
<1> DEFINE v == Release(u, ip)
           w == UpdateAging(LanOnline([v EXCEPT !.ip = ip, !.state = "fake"]))
           x == [w EXCEPT !.faketime = now]
<1>1. GoodUser(v) /\ v \in User
  BY ReleaseGood DEF GoodUser
<1> HIDE DEF v
<1>2. GoodUser(w)
  BY <1>1, EnterGood DEF Bound
<1> HIDE DEF w
<1>3. /\ x \in User /\ x.state = w.state /\ x.ip = w.ip /\ x.flow = w.flow
      /\ x.limit = w.limit /\ x.aging = w.aging
  BY <1>2 DEF GoodUser, User
<1>4. GoodUser(x)
  BY <1>2, <1>3 DEF GoodUser, IpWhileBound, IsBound, AgingRuns
<1> HIDE DEF x
<1>5. GoodUser(Report(x, "fake"))
  BY <1>3, <1>4, ReportKeeps DEF Action
<1>6. Fake(u, ip) = IF u.state = "block" \/ IsBound(v) THEN v ELSE Report(x, "fake")
  BY DEF Fake, v, w, x
<1> QED
  BY <1>1, <1>5, <1>6

\* user_reauth reports, and changes nothing else.
LEMMA ReauthGood ==
  ASSUME NEW u, GoodUser(u)
  PROVE  GoodUser(Reauth(u))
<1>1. u \in User /\ "reauth" \in Action
  BY DEF GoodUser, Action
<1> QED
  BY <1>1, ReportKeeps DEF Reauth

\* Going online on the wan starts its counters over, below the lan's.
LEMMA WanOnlineKeeps ==
  ASSUME now \in Nat, NEW u, Unaged(u)
  PROVE  Unaged(WanOnline(u))
<1> DEFINE z == [d \in Dir |-> 0]
           v == WanOnline(u)
<1>1. u.uptime \in [Type -> Nat] /\ u.flow \in [Type -> [Dir -> Nat]] /\ "wan" \in Type
  BY DEF Unaged, User, Type
<1>2. [u.uptime EXCEPT !["wan"] = now] \in [Type -> Nat]
  BY <1>1
<1>3. [u.flow EXCEPT !["wan"] = z] \in [Type -> [Dir -> Nat]]
  BY <1>1
<1>4. v = [u EXCEPT !.uptime = [u.uptime EXCEPT !["wan"] = now],
                    !.flow = [u.flow EXCEPT !["wan"] = z]]
  BY DEF WanOnline, Unaged, User
<1>5. /\ v \in User /\ v.state = u.state /\ v.ip = u.ip
      /\ v.flow = [u.flow EXCEPT !["wan"] = z]
  BY <1>2, <1>3, <1>4 DEF Unaged, User
<1>6. FlowSums(v.flow)
  <2>1. FlowSums(u.flow)
    BY DEF Unaged
  <2>2. \A d \in Dir : u.flow["lan"][d] \in Nat
    BY <1>1 DEF Type
  <2>3. /\ v.flow["lan"] = u.flow["lan"] /\ v.flow["wan"] = z
    BY <1>1, <1>5 DEF Type
  <2>4. \A d \in Dir : v.flow["lan"][d] >= v.flow["wan"][d]
    BY <2>2, <2>3
  <2>5. \A t \in Type : v.flow[t]["all"] = v.flow[t]["up"] + v.flow[t]["down"]
    BY <2>1, <2>3 DEF FlowSums, Type, Dir
  <2> QED
    BY <2>4, <2>5 DEF FlowSums
<1> QED
  BY <1>5, <1>6 DEF Unaged, IpWhileBound, IsBound

\* user_auth leaves a good user, under the limits it came with.
LEMMA AuthGood ==
  ASSUME now \in Nat, NEW u, GoodUser(u), NEW limit \in Limits, NEW ip \in Address \cup {Nothing}
  PROVE  GoodUser(Auth(u, limit, ip))
<1> DEFINE v == IF u.state = "none" /\ ip # Nothing THEN Bind(u, ip) ELSE u
           a == [v EXCEPT !.state = "auth", !.reason = "none", !.limit = limit]
           w == UpdateAging(WanOnline(a))
<1>1. GoodUser(v)
  <2>1. CASE ip \in Address
    BY <2>1, BindGood
  <2>2. CASE ip = Nothing
    BY <2>2
  <2> QED
    BY <2>1, <2>2
<1> HIDE DEF v
<1>2. CASE IsBound(v)
  <2>1. /\ a \in User /\ a.state = "auth" /\ a.ip = v.ip /\ a.flow = v.flow
    BY <1>1, UmdAssumption DEF GoodUser, User, State, Bound, Reason
  <2>2. Unaged(a)
    BY <1>1, <1>2, <2>1 DEF GoodUser, Unaged, IpWhileBound, IsBound, Bound
  <2> HIDE DEF a
  <2>3. GoodUser(w) /\ w \in User
    BY <2>2, WanOnlineKeeps, UpdateAgingGood DEF GoodUser
  <2> HIDE DEF w
  <2>4. Auth(u, limit, ip) = Report(w, "auth")
    BY <1>2 DEF Auth, v, a, w
  <2> QED
    BY <2>3, <2>4, ReportKeeps DEF Action
<1>3. CASE ~IsBound(v)
  BY <1>1, <1>3 DEF Auth, v
<1> QED
  BY <1>2, <1>3

\* A good document makes a good user.
LEMMA SyncGood ==
  ASSUME GoodDumps, NEW u, GoodUser(u), NEW dump \in Dumps
  PROVE  GoodUser(Sync(u, dump))
<1> DEFINE a == [dump EXCEPT !.faketime = u.faketime, !.log = u.log]
<1>1. GoodUser(dump) /\ u.faketime \in Nat /\ u.log \in Seq(Event)
  BY DEF GoodDumps, GoodUser, User
<1>2. /\ a \in User /\ a.state = dump.state /\ a.ip = dump.ip /\ a.flow = dump.flow
      /\ a.limit = dump.limit /\ a.aging = dump.aging
  BY <1>1 DEF GoodUser, User
<1>3. GoodUser(a)
  BY <1>1, <1>2 DEF GoodUser, IpWhileBound, IsBound, AgingRuns
<1> HIDE DEF a
<1>4. Sync(u, dump) = Report(a, "sync")
  BY DEF Sync, a
<1> QED
  BY <1>2, <1>3, <1>4, ReportKeeps DEF Action

(***************************************************************************)
(* A packet and the timer keep a user good.                                *)
(***************************************************************************)

\* A packet counted on the wan is counted on the lan too.
LEMMA FlowUpdateGood ==
  ASSUME NEW u, GoodUser(u), NEW type \in Type, NEW dir \in {"up", "down"}, NEW len \in PktLen
  PROVE  GoodUser(FlowUpdate(u, type, dir, len))
<1> DEFINE charged == IF type = "wan" THEN {"wan", "lan"} ELSE {type}
           more(t, d) == IF t \in charged /\ d \in {dir, "all"} THEN len ELSE 0
           flow == [t \in Type |-> [d \in Dir |-> u.flow[t][d] + more(t, d)]]
           v == FlowUpdate(u, type, dir, len)
<1>1. len \in Nat /\ u.flow \in [Type -> [Dir -> Nat]] /\ FlowSums(u.flow)
  BY UmdAssumption DEF GoodUser, User
<1>2. \A t \in Type, d \in Dir : u.flow[t][d] \in Nat /\ more(t, d) \in Nat
  BY <1>1
<1>3. flow \in [Type -> [Dir -> Nat]]
  BY <1>2
<1>4. \A d \in Dir : more("lan", d) >= more("wan", d)
  BY <1>1 DEF Type
<1>5. \A t \in Type : more(t, "all") = more(t, "up") + more(t, "down")
  BY <1>1
<1>6. v = [u EXCEPT !.flow = flow]
  BY DEF FlowUpdate
<1>7. \A t \in Type, d \in Dir : flow[t][d] = u.flow[t][d] + more(t, d)
  OBVIOUS
<1> HIDE DEF more, flow
<1>8. FlowSums(flow)
  <2>1. "lan" \in Type /\ "wan" \in Type /\ "all" \in Dir /\ "up" \in Dir /\ "down" \in Dir
    BY DEF Type, Dir
  <2>2. ASSUME NEW d \in Dir PROVE flow["lan"][d] >= flow["wan"][d]
    <3>1. u.flow["lan"][d] >= u.flow["wan"][d]
      BY <1>1 DEF FlowSums
    <3>2. more("lan", d) >= more("wan", d)
      BY <1>4
    <3> QED
      BY <1>2, <1>7, <2>1, <3>1, <3>2
  <2>3. ASSUME NEW t \in Type PROVE flow[t]["all"] = flow[t]["up"] + flow[t]["down"]
    <3>1. u.flow[t]["all"] = u.flow[t]["up"] + u.flow[t]["down"]
      BY <1>1 DEF FlowSums
    <3> QED
      BY <1>2, <1>5, <1>7, <2>1, <3>1
  <2> QED
    BY <2>2, <2>3 DEF FlowSums
<1>9. /\ v \in User /\ v.state = u.state /\ v.ip = u.ip /\ v.flow = flow
      /\ v.limit = u.limit /\ v.aging = u.aging
  BY <1>3, <1>6 DEF GoodUser, User
<1> QED
  BY <1>8, <1>9 DEF GoodUser, IpWhileBound, IsBound, AgingRuns

\* A user over its limits of volume is led out as a good user.
LEMMA OverflowGood ==
  ASSUME now \in Nat, NEW u, GoodUser(u), NEW type, NEW dir
  PROVE  GoodUser(Overflow(u, type, dir))
<1> DEFINE v == IF type = "wan" /\ Exceeds(u, u.limit.flowmax, type, dir)
                THEN Deauth(u, "flowlimit") ELSE u
<1>1. "flowlimit" \in Reason
  BY DEF Reason
<1>2. GoodUser(v)
  BY <1>1, DeauthGood, GoodIsUnaged
<1> HIDE DEF v
<1>3. GoodUser(Unbind(v, "flowlimit"))
  BY <1>1, <1>2, UnbindGood, GoodIsUnaged
<1> QED
  BY <1>2, <1>3 DEF Overflow, v

\* A packet leaves a good user.
LEMMA PacketGood ==
  ASSUME now \in Nat, NEW u, GoodUser(u), NEW ip \in Ip, NEW type \in Type,
         NEW dir \in {"up", "down"}, NEW len \in PktLen
  PROVE  GoodUser(umd_conn_handle(u, ip, type, dir, len))
<1> DEFINE v == AutoUser(u, ip)
           f == FlowUpdate(v, type, dir, len)
           g == FlowReauth(f, type, dir)
           h == Overflow(g, type, dir)
<1>1. GoodUser(v)
  <2>1. ip \in Address
    BY DEF Address
  <2> QED
    BY <2>1, CreateGood, FakeGood, BindGood DEF AutoUser
<1> HIDE DEF v
<1>2. GoodUser(f)
  BY <1>1, FlowUpdateGood
<1> HIDE DEF f
<1>3. GoodUser(g)
  BY <1>2, ReauthGood DEF FlowReauth
<1> HIDE DEF g
<1>4. GoodUser(h)
  BY <1>3, OverflowGood
<1> HIDE DEF h
<1>5. GoodUser(UpdateAging(h))
  BY <1>4, UpdateAgingGood, GoodIsUnaged
<1> QED
  BY <1>1, <1>5 DEF umd_conn_handle, v, f, g, h

\* A timer run takes TICKS off a counter, or the user out.
LEMMA AgeGood ==
  ASSUME now \in Nat, NEW u, GoodUser(u), NEW type \in Type
  PROVE  GoodUser(Age(u, type))
<1> DEFINE v == [u EXCEPT !.aging[type] = @ - TICKS]
<1>1. CASE u.limit.idle[type] = 0
  BY <1>1 DEF Age
<1>2. CASE u.limit.idle[type] # 0
  <2>1. /\ u.aging \in [Type -> Int] /\ TICKS \in Nat \ {0}
        /\ u.limit.idle \in [Type -> Nat]
    BY UmdAssumption DEF GoodUser, User, Limit
  <2>2. [u.aging EXCEPT ![type] = u.aging[type] - TICKS] \in [Type -> Int]
    BY <2>1
  <2>3. v = [u EXCEPT !.aging = [u.aging EXCEPT ![type] = u.aging[type] - TICKS]]
    OBVIOUS
  <2>4. /\ v \in User /\ v.state = u.state /\ v.ip = u.ip /\ v.flow = u.flow
        /\ v.limit = u.limit
        /\ v.aging = [u.aging EXCEPT ![type] = u.aging[type] - TICKS]
    BY <2>2, <2>3 DEF GoodUser, User
  <2>5. Age(u, type) = IF v.aging[type] <= 0 THEN Unbind(v, "aging") ELSE v
    BY <1>2 DEF Age
  <2> HIDE DEF v
  <2>6. Unaged(v) /\ "aging" \in Reason
    BY <2>4 DEF GoodUser, Unaged, IpWhileBound, IsBound, Reason
  <2>7. GoodUser(Unbind(v, "aging"))
    BY <2>6, UnbindGood
  <2>8. CASE ~(v.aging[type] <= 0)
    <3>1. ASSUME IsBound(v), NEW t \in Type, v.limit.idle[t] # 0
          PROVE  v.aging[t] \in 1 .. v.limit.idle[t]
      <4>1. u.aging[t] \in 1 .. u.limit.idle[t]
        BY <2>4, <3>1 DEF GoodUser, AgingRuns, IsBound
      <4>2. CASE t # type
        BY <2>1, <2>4, <4>1, <4>2
      <4>3. CASE t = type
        <5>1. v.aging[t] = u.aging[t] - TICKS /\ v.aging[t] > 0
          BY <2>1, <2>4, <2>8, <4>3
        <5>2. u.aging[t] \in Int /\ u.limit.idle[t] \in Nat
          BY <2>1
        <5> QED
          BY <2>1, <2>4, <4>1, <5>1, <5>2
      <4> QED
        BY <4>2, <4>3
    <3>2. AgingRuns(v)
      BY <3>1 DEF AgingRuns
    <3> QED
      BY <2>5, <2>6, <2>8, <3>2 DEF Unaged, GoodUser
  <2> QED
    BY <2>5, <2>7, <2>8
<1> QED
  BY <1>1, <1>2

\* Collecting leaves a good user, or none.
LEMMA GcGood ==
  ASSUME NEW u, GoodUser(u)
  PROVE  GoodUser(umd_user_gc(u))
BY DeleteGood DEF umd_user_gc

\* What the driver counts is the volume of both types, and aging starts over.
LEMMA BrflowKeeps ==
  ASSUME NEW u, u \in User, NEW counter \in Counters
  PROVE  LET f == [u EXCEPT !.flow = [t \in Type |-> counter]]
         IN  /\ f \in User /\ FlowSums(f.flow) /\ f.state = u.state /\ f.ip = u.ip
             /\ f.log = u.log /\ f.noused = u.noused /\ f.faketime = u.faketime
             /\ f.uptime = u.uptime /\ f.limit = u.limit
<1> DEFINE flow == [t \in Type |-> counter]
<1>1. counter \in [Dir -> Nat] /\ counter["all"] = counter["up"] + counter["down"]
  BY UmdAssumption
<1>2. flow \in [Type -> [Dir -> Nat]]
  BY <1>1
<1>3. \A t \in Type : flow[t] = counter
  OBVIOUS
<1>4. FlowSums(flow)
  <2>1. \A d \in Dir : counter[d] \in Nat /\ counter[d] >= counter[d]
    BY <1>1
  <2>2. flow["lan"] = counter /\ flow["wan"] = counter
    BY <1>3 DEF Type
  <2> HIDE DEF flow
  <2> QED
    BY <1>1, <1>3, <2>1, <2>2 DEF FlowSums
<1> HIDE DEF flow
<1> QED
  BY <1>2, <1>4 DEF User, flow

LEMMA BrflowGood ==
  ASSUME NEW u, GoodUser(u), NEW counter \in Counters \cup {Unheard}
  PROVE  GoodUser(BrflowUpdate(u, counter))
<1> DEFINE f == [u EXCEPT !.flow = [t \in Type |-> counter]]
<1>1. CASE u.state = "absent" \/ counter = Unheard
  BY <1>1 DEF BrflowUpdate
<1>2. CASE ~(u.state = "absent" \/ counter = Unheard)
  <2>1. f \in User /\ FlowSums(f.flow) /\ f.state = u.state /\ f.ip = u.ip
    BY <1>2, BrflowKeeps DEF GoodUser
  <2>2. BrflowUpdate(u, counter) = UpdateAging(f)
    BY <1>2 DEF BrflowUpdate
  <2> HIDE DEF f
  <2>3. Unaged(f)
    BY <2>1 DEF Unaged, GoodUser, IpWhileBound, IsBound
  <2> QED
    BY <2>2, <2>3, UpdateAgingGood
<1> QED
  BY <1>1, <1>2

\* A timer run leaves a good user.
LEMMA TimerGood ==
  ASSUME now \in Nat, NEW u, GoodUser(u), NEW counter \in Counters \cup {Unheard}
  PROVE  GoodUser(umduser_timer_handle(u, counter))
<1> DEFINE a == FakeTimeout(u)
           b == OnlineReauth(a)
           c == OnlineTimeout(b)
           d == Age(c, "wan")
           e == OnlineAging(c)
           f == BrflowUpdate(e, counter)
<1>0. "onlinetime" \in Reason /\ "wan" \in Type /\ "lan" \in Type
  BY DEF Reason, Type
<1>1. GoodUser(a)
  BY <1>0, UnfakeGood, GoodIsUnaged DEF FakeTimeout
<1> HIDE DEF a
<1>2. GoodUser(b)
  BY <1>1, ReauthGood DEF OnlineReauth
<1> HIDE DEF b
<1>3. GoodUser(c)
  BY <1>0, <1>2, DeauthGood, GoodIsUnaged DEF OnlineTimeout
<1> HIDE DEF c
<1>4. GoodUser(d)
  BY <1>0, <1>3, AgeGood
<1>5. GoodUser(Age(d, "lan"))
  <2> HIDE DEF d
  <2> QED BY <1>0, <1>4, AgeGood
<1>6. GoodUser(e)
  BY <1>3, <1>5 DEF OnlineAging
<1> HIDE DEF e
<1>7. GoodUser(f)
  BY <1>6, BrflowGood
<1> HIDE DEF f
<1>8. GoodUser(GcAuto(f))
  BY <1>7, GcGood DEF GcAuto
<1> QED
  BY <1>8 DEF umduser_timer_handle, a, b, c, e, f

(***************************************************************************)
(* Every handler keeps every user good.                                    *)
(***************************************************************************)

IInv ==
  /\ now \in Nat /\ due \in BOOLEAN
  /\ lastBound \in [Obj -> Nat]
  /\ user \in [Obj -> User]
  /\ \A o \in Obj : GoodUser(user[o])

\* Forgetting the events of the last step changes no user.
LEMMA FreshGood == ASSUME NEW u, GoodUser(u) PROVE GoodUser(Fresh(u))
<1>0. <<>> \in Seq(Event)
  OBVIOUS
<1>1. /\ Fresh(u) \in User /\ Fresh(u).state = u.state /\ Fresh(u).ip = u.ip
      /\ Fresh(u).flow = u.flow /\ Fresh(u).limit = u.limit /\ Fresh(u).aging = u.aging
  BY <1>0 DEF GoodUser, User, Fresh
<1> QED
  BY <1>1 DEF GoodUser, IpWhileBound, IsBound, AgingRuns

\* The empty table is good.
LEMMA InitInv == Init => IInv
<1> SUFFICES ASSUME Init PROVE IInv
  OBVIOUS
<1>1. Absent \in User
  BY AbsentGood DEF GoodUser
<1>2. \A o \in Obj : user[o] = Absent
  BY DEF Init
<1>3. user \in [Obj -> User]
  BY <1>1 DEF Init
<1> QED
  BY <1>2, <1>3, AbsentGood DEF Init, IInv

\* A handler that leaves one station's user good.
LEMMA ServeInv ==
  ASSUME IInv, NEW o \in Obj, NEW u, GoodUser(u), Serve(o, u)
  PROVE  IInv'
<1> DEFINE next == [x \in Obj |-> IF x = o THEN u ELSE Fresh(user[x])]
<1>1. \A x \in Obj : GoodUser(next[x])
  BY FreshGood DEF IInv
<1>2. next \in [Obj -> User]
  <2>1. \A x \in Obj : next[x] \in User
    BY <1>1 DEF GoodUser
  <2>2. \A x \in Obj : (IF x = o THEN u ELSE Fresh(user[x])) \in User
    BY <2>1
  <2> QED
    BY <2>2
<1> HIDE DEF next
<1>3. /\ user' = next /\ now' = now /\ due' = due
      /\ lastBound' = [x \in Obj |->
           IF IsBound(user[x]) \/ IsBound(next[x]) THEN now ELSE lastBound[x]]
  BY DEF Serve, Handle, Become, next
<1>4. lastBound' \in [Obj -> Nat]
  BY <1>3 DEF IInv
<1> QED
  BY <1>1, <1>2, <1>3, <1>4 DEF IInv

\* A handler that walks the table and leaves every user good.
LEMMA WalkInv ==
  ASSUME IInv, NEW next \in [Obj -> User], \A o \in Obj : GoodUser(next[o]), Become(next),
         now' \in Nat, due' \in BOOLEAN
  PROVE  IInv'
<1>1. user' = next /\ lastBound' = [x \in Obj |->
           IF IsBound(user[x]) \/ IsBound(next[x]) THEN now ELSE lastBound[x]]
  BY DEF Become
<1>2. lastBound' \in [Obj -> Nat]
  BY <1>1 DEF IInv
<1> QED
  BY <1>1, <1>2 DEF IInv

\* Every command keeps every user good.
LEMMA CommandInv ==
  ASSUME GoodDumps, IInv, NEW o \in Obj, Command(o)
  PROVE  IInv'
<1> DEFINE u == It(o)
           c == Create(u)
<1>0. now \in Nat
  BY DEF IInv
<1>1. GoodUser(u)
  BY FreshGood DEF IInv, It
<1>2. GoodUser(c)
  BY <1>0, <1>1, CreateGood
<1>3. "initiative" \in Reason /\ "admin" \in Reason
  BY DEF Reason
<1> HIDE DEF u, c
<1>16. CASE umd_user_associate(o)
  BY <1>2, <1>16, ServeInv DEF umd_user_associate, c, u
<1>4. CASE umd_user_create(o)
  BY <1>2, <1>4, ServeInv DEF umd_user_create, c, u
<1>5. CASE umd_user_delete(o)
  <2>1. GoodUser(Delete(u))
    BY <1>1, DeleteGood
  <2> QED
    BY <1>5, <2>1, ServeInv DEF umd_user_delete, u
<1>6. CASE umd_user_block(o)
  <2>1. GoodUser(Block(c))
    BY <1>0, <1>2, BlockGood
  <2> QED
    BY <1>6, <2>1, ServeInv DEF umd_user_block, c, u
<1>7. CASE umd_user_unblock(o)
  <2>1. GoodUser(Unblock(u))
    BY <1>1, UnblockGood
  <2> QED
    BY <1>7, <2>1, ServeInv DEF umd_user_unblock, u
<1>8. ASSUME NEW ip \in Address, umd_user_bind(o, ip) PROVE IInv'
  <2>1. GoodUser(Bind(c, ip))
    BY <1>0, <1>2, BindGood
  <2> QED
    BY <1>8, <2>1, ServeInv DEF umd_user_bind, c, u
<1>9. CASE umd_user_unbind(o)
  <2>1. GoodUser(Unbind(u, "initiative"))
    BY <1>0, <1>1, <1>3, UnbindGood, GoodIsUnaged
  <2> QED
    BY <1>9, <2>1, ServeInv DEF umd_user_unbind, u
<1>10. ASSUME NEW ip \in Address, umd_user_fake(o, ip) PROVE IInv'
  <2>1. GoodUser(Fake(c, ip))
    BY <1>0, <1>2, FakeGood
  <2> QED
    BY <1>10, <2>1, ServeInv DEF umd_user_fake, c, u
<1>11. CASE umd_user_unfake(o)
  <2>1. GoodUser(Unfake(u, "initiative"))
    BY <1>1, <1>3, UnfakeGood, GoodIsUnaged
  <2> QED
    BY <1>11, <2>1, ServeInv DEF umd_user_unfake, u
<1>12. ASSUME NEW limit \in Limits, NEW ip \in Address \cup {Nothing}, umd_user_auth(o, limit, ip)
       PROVE  IInv'
  <2>1. GoodUser(Auth(c, limit, ip))
    BY <1>0, <1>2, AuthGood
  <2> QED
    BY <1>12, <2>1, ServeInv DEF umd_user_auth, c, u
<1>13. CASE umd_user_deauth(o)
  <2>1. GoodUser(Deauth(u, "admin"))
    BY <1>1, <1>3, DeauthGood, GoodIsUnaged
  <2> QED
    BY <1>13, <2>1, ServeInv DEF umd_user_deauth, u
<1>14. CASE umd_user_reauth(o)
  <2>1. GoodUser(Reauth(u))
    BY <1>1, ReauthGood
  <2> QED
    BY <1>14, <2>1, ServeInv DEF umd_user_reauth, u
<1>15. ASSUME NEW dump \in Dumps, umd_user_sync(o, dump) PROVE IInv'
  <2>1. GoodUser(Sync(c, dump))
    BY <1>2, SyncGood
  <2> QED
    BY <1>15, <2>1, ServeInv DEF umd_user_sync, c, u
<1> QED
  BY <1>4, <1>5, <1>6, <1>7, <1>8, <1>9, <1>10, <1>11, <1>12, <1>13, <1>14, <1>15, <1>16
     DEF Command

\* Every handler and every tick keeps every user good.
LEMMA NextInv ==
  ASSUME GoodDumps
  PROVE  IInv /\ [Next]_vars => IInv'
<1> SUFFICES ASSUME IInv, [Next]_vars PROVE IInv'
  OBVIOUS
<1>0. now \in Nat /\ \A o \in Obj : GoodUser(Fresh(user[o]))
  BY FreshGood DEF IInv
<1>1. CASE UNCHANGED vars
  BY <1>1 DEF vars, IInv, GoodUser, IpWhileBound, IsBound, AgingRuns
<1>2. CASE Tick
  <2>1. now' \in Nat /\ due' \in BOOLEAN /\ lastBound' = lastBound
        /\ user' = [o \in Obj |-> Fresh(user[o])]
    BY <1>0, <1>2 DEF Tick
  <2>2. \A o \in Obj : Fresh(user[o]) \in User
    BY <1>0 DEF GoodUser
  <2> QED
    BY <1>0, <2>1, <2>2 DEF IInv
<1>3. CASE umd_user_timer
  <2>0. PICK counter \in [Obj -> Heard] :
          Become([o \in Obj |-> umduser_timer_handle(Fresh(user[o]), counter[o])])
    BY <1>3 DEF umd_user_timer
  <2> DEFINE next == [o \in Obj |-> umduser_timer_handle(Fresh(user[o]), counter[o])]
  <2>1. \A o \in Obj : GoodUser(umduser_timer_handle(Fresh(user[o]), counter[o]))
    <3>1. \A o \in Obj : counter[o] \in Counters \cup {Unheard}
      BY DEF Heard
    <3> QED
      BY <1>0, <3>1, TimerGood
  <2>2. \A o \in Obj : umduser_timer_handle(Fresh(user[o]), counter[o]) \in User
    BY <2>1 DEF GoodUser
  <2>3. next \in [Obj -> User] /\ \A o \in Obj : GoodUser(next[o])
    BY <2>1, <2>2
  <2>4. Become(next) /\ now' = now /\ due' = FALSE
    BY <1>3, <2>0 DEF umd_user_timer
  <2> HIDE DEF next
  <2> QED
    BY <1>0, <2>3, <2>4, WalkInv
<1>4. CASE umd_handle_gc
  <2> DEFINE next == [o \in Obj |-> umd_user_gc(Fresh(user[o]))]
  <2>1. \A o \in Obj : GoodUser(umd_user_gc(Fresh(user[o])))
    BY <1>0, GcGood
  <2>2. \A o \in Obj : umd_user_gc(Fresh(user[o])) \in User
    BY <2>1 DEF GoodUser
  <2>3. next \in [Obj -> User] /\ \A o \in Obj : GoodUser(next[o])
    BY <2>1, <2>2
  <2>4. Become(next) /\ now' = now /\ due' = due
    BY <1>4 DEF umd_handle_gc
  <2> HIDE DEF next
  <2> QED
    BY <1>0, <2>3, <2>4, WalkInv DEF IInv
<1>5. ASSUME NEW o \in Obj, Command(o) PROVE IInv'
  BY <1>5, CommandInv
<1>6. ASSUME NEW o \in Obj, NEW ip \in Ip, NEW type \in Type, NEW dir \in {"up", "down"},
             NEW len \in PktLen, Packet(o, ip, type, dir, len)
      PROVE  IInv'
  <2>1. GoodUser(umd_conn_handle(It(o), ip, type, dir, len))
    BY <1>0, PacketGood DEF It
  <2> QED
    BY <1>6, <2>1, ServeInv DEF Packet
<1>7. CASE Elsewhere
  <2> DEFINE next == [o \in Obj |-> Fresh(user[o])]
  <2>1. \A o \in Obj : Fresh(user[o]) \in User
    BY <1>0 DEF GoodUser
  <2>2. next \in [Obj -> User] /\ \A o \in Obj : GoodUser(next[o])
    BY <1>0, <2>1
  <2>3. Become(next) /\ now' = now /\ due' = due
    BY <1>7 DEF Elsewhere
  <2> HIDE DEF next
  <2> QED
    BY <1>0, <2>2, <2>3, WalkInv DEF IInv
<1> QED
  BY <1>1, <1>2, <1>3, <1>4, <1>5, <1>6, <1>7 DEF Next

\* Every user is good in every reachable state.
LEMMA Invariance == ASSUME GoodDumps PROVE Spec => []IInv
BY InitInv, NextInv, PTL DEF Spec

\* Users, their limits and their events stay well formed.
THEOREM TypeCorrect ==
  ASSUME GoodDumps
  PROVE  Spec => []TypeOK
<1>1. IInv => TypeOK
  BY DEF IInv, TypeOK
<1> QED
  BY <1>1, Invariance, PTL

\* Through every command, packet and timeout, a user that is not bound has no
\* address, whatever addresses it was bound to, 0.0.0.0 among them.
THEOREM NoAddressUnbound ==
  ASSUME GoodDumps
  PROVE  Spec => []UnboundHasNoIp
<1>1. IInv => UnboundHasNoIp
  BY DEF IInv, GoodUser, IpWhileBound, UnboundHasNoIp
<1> QED
  BY <1>1, Invariance, PTL

\* Whatever sessions are opened and closed, the lan has counted at least what
\* the wan has, and totals are the sums of their directions.
THEOREM LanAlwaysIncludesWan ==
  ASSUME GoodDumps
  PROVE  Spec => []LanIncludesWan
<1>1. IInv => LanIncludesWan
  BY DEF IInv, GoodUser, FlowSums, LanIncludesWan
<1> QED
  BY <1>1, Invariance, PTL

\* No bound user runs on an aging counter of an earlier state or limit.
THEOREM AgingStaysInRange ==
  ASSUME GoodDumps
  PROVE  Spec => []AgingInRange
<1>1. IInv => AgingInRange
  BY DEF IInv, GoodUser, AgingRuns, AgingInRange
<1> QED
  BY <1>1, Invariance, PTL
(***************************************************************************)
(* What a step makes of one station.  The rest of the properties are of    *)
(* one user and one step, so it is enough to look at these.                *)
(***************************************************************************)

\* A user without events becomes v by a handler that treats it.
Outcome(u, v) ==
  \/ v \in {u, Create(u), Delete(u), Block(Create(u)), Unblock(u), Reauth(u),
            Unbind(u, "initiative"), Unfake(u, "initiative"), Deauth(u, "admin"),
            umd_user_gc(u)}
  \/ \E counter \in Counters \cup {Unheard} : v = umduser_timer_handle(u, counter)
  \/ \E ip \in Address : v = Bind(Create(u), ip) \/ v = Fake(Create(u), ip)
  \/ \E limit \in Limits, ip \in Address \cup {Nothing} : v = Auth(Create(u), limit, ip)
  \/ \E dump \in Dumps : v = Sync(Create(u), dump)
  \/ \E ip \in Ip, type \in Type, dir \in {"up", "down"}, len \in PktLen :
       v = umd_conn_handle(u, ip, type, dir, len)

\* A handler of one station forgets the events of the others.
LEMMA ServeOutcome ==
  ASSUME NEW o \in Obj, NEW u, Serve(o, u), Outcome(Fresh(user[o]), u), NEW x \in Obj
  PROVE  Outcome(Fresh(user[x]), user'[x])
<1>1. user'[x] = IF x = o THEN u ELSE Fresh(user[x])
  BY DEF Serve, Handle, Become
<1> QED
  BY <1>1 DEF Outcome

\* Every command is an outcome.
LEMMA CommandOutcome ==
  ASSUME NEW o \in Obj, Command(o), NEW x \in Obj
  PROVE  Outcome(Fresh(user[x]), user'[x])
<1>1. ASSUME NEW u, Serve(o, u), Outcome(It(o), u)
      PROVE  Outcome(Fresh(user[x]), user'[x])
  BY <1>1, ServeOutcome DEF It
<1>2. PICK u : Serve(o, u) /\ Outcome(It(o), u)
  BY DEF Command, Outcome, umd_user_create, umd_user_associate, umd_user_delete, umd_user_block,
     umd_user_unblock, umd_user_bind, umd_user_unbind, umd_user_fake,
     umd_user_unfake, umd_user_auth, umd_user_deauth, umd_user_reauth,
     umd_user_sync
<1> QED
  BY <1>1, <1>2

\* Every step leaves each station as it was, or is an outcome.
LEMMA NextOutcome ==
  ASSUME Next, NEW x \in Obj
  PROVE  Outcome(Fresh(user[x]), user'[x])
<1>1. CASE Tick
  BY <1>1 DEF Tick, Outcome
<1>2. CASE umd_user_timer
  <2>1. PICK counter \in [Obj -> Heard] :
          Become([o \in Obj |-> umduser_timer_handle(Fresh(user[o]), counter[o])])
    BY <1>2 DEF umd_user_timer
  <2>2. user'[x] = umduser_timer_handle(Fresh(user[x]), counter[x])
    BY <2>1 DEF Become
  <2>3. counter[x] \in Counters \cup {Unheard}
    BY DEF Heard
  <2> QED
    BY <2>2, <2>3 DEF Outcome
<1>3. CASE umd_handle_gc
  BY <1>3 DEF umd_handle_gc, Become, Outcome
<1>4. ASSUME NEW o \in Obj, Command(o) PROVE Outcome(Fresh(user[x]), user'[x])
  BY <1>4, CommandOutcome
<1>5. ASSUME NEW o \in Obj, NEW ip \in Ip, NEW type \in Type, NEW dir \in {"up", "down"},
             NEW len \in PktLen, Packet(o, ip, type, dir, len)
      PROVE  Outcome(Fresh(user[x]), user'[x])
  <2> DEFINE v == umd_conn_handle(It(o), ip, type, dir, len)
  <2>1. Outcome(Fresh(user[o]), v)
    BY DEF Outcome, It
  <2> HIDE DEF v
  <2>2. Serve(o, v)
    BY <1>5 DEF Packet, v
  <2> QED
    BY <2>1, <2>2, ServeOutcome
<1>6. CASE Elsewhere
  BY <1>6 DEF Elsewhere, Become, Outcome
<1> QED
  BY <1>1, <1>2, <1>3, <1>4, <1>5, <1>6 DEF Next

(***************************************************************************)
(* A blocked station.                                                      *)
(***************************************************************************)

\* Every operator but three leaves a blocked user as it is.
LEMMA BlockedKeeps ==
  ASSUME NEW u, u.state = "block"
  PROVE  /\ Create(u) = u /\ Reauth(u) = u /\ Block(u) = u /\ umd_user_gc(u) = u
         /\ \A reason : /\ Deauth(u, reason) = u /\ Unfake(u, reason) = u
                        /\ Unbind(u, reason) = u
         /\ \A ip : Release(u, ip) = u /\ Bind(u, ip) = u /\ Fake(u, ip) = u
         /\ \A limit, ip : Auth(u, limit, ip) = u
<1>1. ~IsBound(u)
  BY DEF IsBound, Bound
<1>2. Create(u) = u /\ Reauth(u) = u /\ umd_user_gc(u) = u
  BY DEF Create, Reauth, umd_user_gc
<1>3. \A reason : Deauth(u, reason) = u /\ Unfake(u, reason) = u
  BY DEF Deauth, Unfake
<1>4. \A reason : Unbind(u, reason) = u
  BY <1>3 DEF Unbind
<1>5. Block(u) = u
  BY <1>4 DEF Block
<1>6. \A ip : Release(u, ip) = u
  BY <1>1 DEF Release
<1>7. \A ip : Bind(u, ip) = u /\ Fake(u, ip) = u
  BY <1>6 DEF Bind, Fake
<1>8. \A limit, ip : Auth(u, limit, ip) = u
  BY <1>1 DEF Auth
<1> QED
  BY <1>2, <1>3, <1>4, <1>5, <1>6, <1>7, <1>8

\* So does a packet; the timer leaves it blocked and tells nothing of it.
LEMMA BlockedServed ==
  ASSUME NEW u \in User, u.state = "block"
  PROVE  /\ \A counter : umduser_timer_handle(u, counter).state = "block"
         /\ \A ip, type, dir, len : umd_conn_handle(u, ip, type, dir, len) = u
<1>1. ~IsBound(u)
  BY DEF IsBound, Bound
<1>2. FakeTimeout(u) = u /\ OnlineReauth(u) = u /\ OnlineTimeout(u) = u
  BY BlockedKeeps DEF FakeTimeout, OnlineReauth, OnlineTimeout
<1>3. OnlineAging(u) = u
  BY <1>1 DEF OnlineAging
<1>4. \A ip : AutoUser(u, ip) = u
  BY DEF AutoUser
<1>5. ASSUME NEW counter PROVE umduser_timer_handle(u, counter).state = "block"
  <2>1. BrflowUpdate(u, counter).state = "block"
    BY DEF BrflowUpdate, UpdateAging, User
  <2>2. umduser_timer_handle(u, counter) = GcAuto(BrflowUpdate(u, counter))
    BY <1>2, <1>3 DEF umduser_timer_handle
  <2> QED
    BY <2>1, <2>2 DEF GcAuto, umd_user_gc
<1> QED
  BY <1>1, <1>4, <1>5 DEF umd_conn_handle

\* A user is not there, and the timer does not make it.
LEMMA AbsentServed ==
  ASSUME NEW u, u.state = "absent", NEW counter
  PROVE  umduser_timer_handle(u, counter) = u
<1>1. ~IsBound(u)
  BY DEF IsBound, Bound
<1>2. /\ FakeTimeout(u) = u /\ OnlineReauth(u) = u /\ OnlineTimeout(u) = u
      /\ BrflowUpdate(u, counter) = u /\ GcAuto(u) = u
  BY DEF FakeTimeout, OnlineReauth, Reauth, OnlineTimeout, Deauth, BrflowUpdate,
         GcAuto, umd_user_gc
<1>3. OnlineAging(u) = u
  BY <1>1 DEF OnlineAging
<1> QED
  BY <1>2, <1>3 DEF umduser_timer_handle

\* The events of u tell of one of the actions.
Says(u, actions) == \E i \in 1 .. Len(u.log) : u.log[i].action \in actions

\* What is reported is told.
LEMMA ReportSays ==
  ASSUME NEW u \in User, NEW action \in Action
  PROVE  Says(Report(u, action), {action})
<1> DEFINE e == [action |-> action, state |-> u.state, ip |-> u.ip]
           v == Report(u, action)
<1>1. e \in Event /\ e.action = action /\ u.log \in Seq(Event)
  BY DEF Event, User
<1>2. v.log = Append(u.log, e)
  BY DEF Report, User
<1> HIDE DEF e, v
<1>3. /\ Len(v.log) = Len(u.log) + 1 /\ v.log[Len(u.log) + 1] = e
      /\ Len(u.log) + 1 \in 1 .. Len(v.log)
  BY <1>1, <1>2
<1>4. Says(v, {action})
  BY <1>1, <1>3 DEF Says
<1> QED
  BY <1>4 DEF v

\* A blocked user is let out by nothing that is not told.
LEMMA OutcomeKeptOut ==
  ASSUME NEW u, GoodUser(u), u.state = "block", NEW v, Outcome(u, v)
  PROVE  \/ v.state = "block"
         \/ v.state \in {"none", "absent"} /\ Says(v, {"unblock", "delete"})
         \/ Says(v, {"sync"})
<1>0. u \in User
  BY DEF GoodUser
<1>1. CASE v = Delete(u)
  <2>1. Says(Report(u, "delete"), {"delete"})
    BY <1>0, ReportSays DEF Action
  <2>2. v.log = Report(u, "delete").log /\ v.state = "absent"
    BY <1>1 DEF Delete, Absent
  <2> QED
    BY <2>1, <2>2 DEF Says
<1>2. CASE v = Unblock(u)
  <2> DEFINE a == [u EXCEPT !.state = "none"]
  <2>1. a \in User /\ a.state = "none"
    BY <1>0 DEF User, State
  <2>2. v = Report(a, "unblock")
    BY <1>2 DEF Unblock
  <2> HIDE DEF a
  <2>3. Says(v, {"unblock"}) /\ v.state = "none"
    BY <2>1, <2>2, ReportSays, ReportKeeps DEF Action
  <2> QED
    BY <2>3 DEF Says
<1>3. ASSUME NEW dump \in Dumps, v = Sync(Create(u), dump) PROVE Says(v, {"sync"})
  <2> DEFINE a == [dump EXCEPT !.faketime = u.faketime, !.log = u.log]
  <2>1. a \in User
    BY <1>0, UmdAssumption DEF User
  <2>2. v = Report(a, "sync")
    BY <1>3, BlockedKeeps DEF Sync
  <2> HIDE DEF a
  <2> QED
    BY <2>1, <2>2, ReportSays DEF Action
<1>4. CASE v = u
  BY <1>4
<1>5. ASSUME NEW counter, v = umduser_timer_handle(u, counter) PROVE v.state = "block"
  BY <1>0, <1>5, BlockedServed
<1>6. \/ v \in {u, Delete(u), Unblock(u)}
      \/ \E dump \in Dumps : v = Sync(Create(u), dump)
      \/ \E counter : v = umduser_timer_handle(u, counter)
  BY <1>0, BlockedKeeps, BlockedServed DEF Outcome
<1> QED
  BY <1>1, <1>2, <1>3, <1>4, <1>5, <1>6

\* While a station has a user, another of its users is made by associate only,
\* and that is told.
LEMMA SecondUser ==
  ASSUME IInv, Next, NEW o \in Obj, ~Present(o), Users(Station[o]) # {}
  PROVE  \/ user'[o].state = "absent"
         \/ user'[o].state = "none" /\ Says(user'[o], {"create"})
<1> DEFINE f == Fresh(user[o])
<1>1. now \in Nat /\ GoodUser(f) /\ f.state = "absent" /\ ~Got(o)
  BY FreshGood DEF IInv, Fresh, User, Present, Got
<1>2. ASSUME NEW x \in Obj, x # o, NEW u, Serve(x, u) PROVE user'[o] = f
  BY <1>2 DEF Serve, Handle, Become
<1>3. CASE Tick
  BY <1>1, <1>3 DEF Tick
<1>4. CASE umd_user_timer
  <2>1. PICK counter \in [Obj -> Heard] :
          Become([x \in Obj |-> umduser_timer_handle(Fresh(user[x]), counter[x])])
    BY <1>4 DEF umd_user_timer
  <2>2. user'[o] = umduser_timer_handle(f, counter[o])
    BY <2>1 DEF Become
  <2> HIDE DEF f
  <2> QED
    BY <1>1, <2>2, AbsentServed
<1>5. CASE umd_handle_gc
  BY <1>1, <1>5 DEF umd_handle_gc, Become, umd_user_gc
<1>6. CASE Elsewhere
  BY <1>1, <1>6 DEF Elsewhere, Become
<1>7. ASSUME NEW x \in Obj, Command(x)
      PROVE  \/ user'[o].state = "absent"
             \/ user'[o].state = "none" /\ Says(user'[o], {"create"})
  <2>1. CASE x # o
    <3>1. PICK u : Serve(x, u)
      BY <1>7 DEF Command, umd_user_create, umd_user_associate, umd_user_delete,
         umd_user_block, umd_user_unblock, umd_user_bind, umd_user_unbind, umd_user_fake,
         umd_user_unfake, umd_user_auth, umd_user_deauth, umd_user_reauth,
         umd_user_sync
    <3> QED
      BY <1>1, <1>2, <2>1, <3>1
  <2>2. CASE x = o
    <3>1. umd_user_associate(o)
      BY <1>1, <1>7, <2>2 DEF Command, umd_user_create, umd_user_delete,
         umd_user_block, umd_user_unblock, umd_user_bind, umd_user_unbind, umd_user_fake,
         umd_user_unfake, umd_user_auth, umd_user_deauth, umd_user_reauth,
         umd_user_sync
    <3> DEFINE a == [Absent EXCEPT !.state = "none", !.log = f.log]
               b == [LanOnline(a) EXCEPT !.noused = now]
    <3>2. user'[o] = Create(f)
      BY <3>1 DEF umd_user_associate, Serve, Handle, Become, It
    <3>3. Create(f) = Report(b, "create")
      BY <1>1 DEF Create
    <3>4. Absent \in User /\ f.log \in Seq(Event)
      BY <1>1, AbsentGood DEF GoodUser, User
    <3> HIDE DEF f
    <3>5. a \in User /\ a.state = "none"
      BY <3>4 DEF User, State, Absent
    <3> HIDE DEF a
    <3>6. b \in User /\ b.state = "none"
      <4>1. LanOnline(a) \in User /\ LanOnline(a).state = "none"
        BY <1>1, <3>5, LanOnlineKeeps
      <4> QED
        BY <1>1, <4>1 DEF User
    <3> HIDE DEF b
    <3>7. Says(Report(b, "create"), {"create"}) /\ Report(b, "create").state = "none"
      BY <3>6, ReportSays, ReportKeeps DEF Action
    <3> QED
      BY <3>2, <3>3, <3>7
  <2> QED
    BY <2>1, <2>2
<1>8. ASSUME NEW x \in Obj, NEW ip \in Ip, NEW type \in Type, NEW dir \in {"up", "down"},
             NEW len \in PktLen, Packet(x, ip, type, dir, len)
      PROVE  user'[o].state = "absent"
  <2>1. x # o
    BY <1>1, <1>8 DEF Packet
  <2>2. PICK u : Serve(x, u)
    BY <1>8 DEF Packet
  <2> QED
    BY <1>1, <1>2, <2>1, <2>2
<1> QED
  BY <1>3, <1>4, <1>5, <1>6, <1>7, <1>8 DEF Next

\* A blocked station cannot get in by any command, packet or timeout of its own
\* (user.c:802): only a document of a peer binds one of its users in that step,
\* and it stays blocked until unblock, delete or such a document, or until
\* associate makes it a second user, which is told as a create.
THEOREM BlockedIsOut ==
  ASSUME GoodDumps
  PROVE  Spec => BlockedStaysOut
<1> DEFINE Out(station) ==
      Blocked(station) =>
        /\ \/ \A o \in Users(station)' : ~IsBound(user'[o])
           \/ Reported(station, {"sync"})
        /\ \/ Blocked(station)'
           \/ Reported(station, {"unblock", "delete", "sync", "create"})
<1>1. ASSUME IInv, Next, NEW station \in {Station[o] : o \in Obj}, Blocked(station)
      PROVE  Out(station)
  <2>1. Users(station) # {} /\ \A o \in Users(station) : user[o].state = "block"
    BY <1>1 DEF Blocked
  <2>2. ASSUME NEW o \in Obj, Station[o] = station, Present(o)
        PROVE  \/ user'[o].state = "block"
               \/ user'[o].state \in {"none", "absent"} /\ Says(user'[o], {"unblock", "delete"})
               \/ Says(user'[o], {"sync"})
    <3>1. user[o].state = "block"
      BY <2>1, <2>2 DEF Users
    <3>2. GoodUser(Fresh(user[o])) /\ Fresh(user[o]).state = "block"
      BY <1>1, <3>1, FreshGood DEF IInv, Fresh, User
    <3> QED
      BY <1>1, <3>2, NextOutcome, OutcomeKeptOut
  <2>3. ASSUME NEW o \in Obj, Station[o] = station, ~Present(o)
        PROVE  \/ user'[o].state = "absent"
               \/ user'[o].state = "none" /\ Says(user'[o], {"create"})
    BY <1>1, <2>1, <2>3, SecondUser
  <2>4. \A actions : \A o \in Obj :
          Station[o] = station /\ Says(user'[o], actions) => Reported(station, actions)
    BY DEF Reported, Says
  <2>5. \/ \A o \in Users(station)' : ~IsBound(user'[o])
        \/ Reported(station, {"sync"})
    <3> SUFFICES ASSUME NEW o \in Obj, Station[o] = station, ~Reported(station, {"sync"})
                 PROVE  user'[o].state \notin Bound
      BY DEF Users, IsBound
    <3>1. ~Says(user'[o], {"sync"})
      BY <2>4
    <3> QED
      BY <2>2, <2>3, <3>1 DEF Bound
  <2>6. \/ Blocked(station)'
        \/ Reported(station, {"unblock", "delete", "sync", "create"})
    <3> SUFFICES ASSUME ~Reported(station, {"unblock", "delete", "sync", "create"})
                 PROVE  Blocked(station)'
      OBVIOUS
    <3>1. ASSUME NEW o \in Obj, Station[o] = station
          PROVE  /\ Present(o) => user'[o].state = "block"
                 /\ ~Present(o) => user'[o].state = "absent"
      <4>1. /\ ~Says(user'[o], {"unblock", "delete"}) /\ ~Says(user'[o], {"sync"})
            /\ ~Says(user'[o], {"create"})
        <5>1. ~Says(user'[o], {"unblock", "delete", "sync", "create"})
          BY <2>4, <3>1
        <5> QED
          BY <5>1 DEF Says
      <4> QED
        BY <2>2, <2>3, <3>1, <4>1
    <3>2. Users(station)' = Users(station)
      BY <3>1 DEF Users, Present
    <3>3. \A o \in Users(station) : user'[o].state = "block"
      BY <3>1 DEF Users
    <3> QED
      BY <2>1, <3>2, <3>3 DEF Blocked
  <2> QED
    BY <2>5, <2>6
<1>2. ASSUME IInv, [Next]_vars
      PROVE  [\A station \in {Station[o] : o \in Obj} : Out(station)]_vars
  BY <1>1, <1>2
<1>3. Spec => [][\A station \in {Station[o] : o \in Obj} : Out(station)]_vars
  <2> HIDE DEF Out
  <2>1. Spec => [][Next]_vars
    BY DEF Spec
  <2> QED
    BY <1>2, <2>1, Invariance, PTL
<1> QED
  BY <1>3, PTL DEF BlockedStaysOut

(***************************************************************************)
(* What handlers keep true of the times and the volume of one user.  b is  *)
(* the last run of the timer, or earlier; t a time the user was seen       *)
(* bound.                                                                  *)
(***************************************************************************)

\* At b the user had not outrun its time.
InTime(u, b) ==
  /\ u.state = "auth" /\ u.limit.max["wan"] # 0 => b <= u.uptime["wan"] + u.limit.max["wan"]
  /\ u.state = "fake" /\ FAKE # 0 => b <= u.faketime + FAKE

\* Unused since t or later.
Rested(u, t) == u.state \in {"none", "block"} => t <= u.noused

\* The session has not outrun its volume.
Thrifty(u) ==
  u.state = "auth" =>
    \A d \in Dir :
      LET max == u.limit.flowmax["wan"][d]
      IN  max = 0 \/ u.flow["wan"][d] <= max

Keeps(u, v) ==
  /\ \A b \in Int : b <= now /\ InTime(u, b) => InTime(v, b)
  /\ \A t \in Int : t <= now /\ Rested(u, t) => Rested(v, t)

\* One operator after the other.
LEMMA KeepsTrans == \A u, v, w : Keeps(u, v) /\ Keeps(v, w) => Keeps(u, w)
BY DEF Keeps

\* Nothing that matters changes.
LEMMA KeepsSame ==
  ASSUME NEW u, NEW v, v.state = u.state, v.noused = u.noused,
         v.faketime = u.faketime, v.uptime = u.uptime, v.limit = u.limit
  PROVE  Keeps(u, v) /\ (v.flow = u.flow /\ Thrifty(u) => Thrifty(v))
BY DEF Keeps, InTime, Rested, Thrifty

\* A state that ends or starts no time.
LEMMA KeepsQuiet ==
  ASSUME NEW u, NEW v, v.state \notin {"auth", "fake", "none", "block"}
  PROVE  Keeps(u, v) /\ Thrifty(v)
BY DEF Keeps, InTime, Rested, Thrifty

\* An event.
LEMMA KeepsReport ==
  ASSUME NEW u \in User, NEW action \in Action
  PROVE  /\ Keeps(u, Report(u, action))
         /\ Report(u, action).noused = u.noused
         /\ Thrifty(u) => Thrifty(Report(u, action))
<1> DEFINE v == Report(u, action)
<1>1. /\ v.state = u.state /\ v.noused = u.noused /\ v.faketime = u.faketime
      /\ v.uptime = u.uptime /\ v.limit = u.limit /\ v.flow = u.flow
  BY DEF Report, User
<1> HIDE DEF v
<1>2. Keeps(u, v) /\ (Thrifty(u) => Thrifty(v))
  BY <1>1, KeepsSame
<1> QED
  BY <1>1, <1>2 DEF v

\* From one bound state to bind.
LEMMA KeepsDemote ==
  ASSUME NEW u, Unaged(u), IsBound(u), NEW reason \in Reason, NEW action \in Action
  PROVE  LET v == [Report([u EXCEPT !.reason = reason], action) EXCEPT !.state = "bind"]
         IN  Keeps(u, v) /\ Thrifty(v)
<1> DEFINE a == [u EXCEPT !.reason = reason]
           b == Report(a, action)
           v == [b EXCEPT !.state = "bind"]
<1>1. /\ a \in User /\ a.state = u.state /\ a.noused = u.noused
      /\ a.faketime = u.faketime /\ a.uptime = u.uptime /\ a.limit = u.limit
  BY DEF Unaged, User
<1>2. Keeps(u, a)
  BY <1>1, KeepsSame
<1> HIDE DEF a
<1>3. Keeps(a, b) /\ b \in User
  BY <1>1, KeepsReport, ReportKeeps
<1> HIDE DEF b
<1>4. v.state = "bind"
  BY <1>3 DEF User
<1>5. Keeps(b, v) /\ Thrifty(v)
  <2> HIDE DEF v
  <2> QED BY <1>4, KeepsQuiet
<1> QED
  BY <1>2, <1>3, <1>5, KeepsTrans DEF a, b

\* No operator at all.
LEMMA KeepsRefl == \A u : Keeps(u, u)
BY DEF Keeps

\* user_deauth
LEMMA KeepsDeauth ==
  ASSUME NEW u, Unaged(u), NEW reason \in Reason
  PROVE  Keeps(u, Deauth(u, reason)) /\ (Thrifty(u) => Thrifty(Deauth(u, reason)))
<1>1. CASE u.state # "auth"
  BY <1>1, KeepsRefl DEF Deauth
<1>2. CASE u.state = "auth"
  <2>1. IsBound(u) /\ "deauth" \in Action
    BY <1>2 DEF IsBound, Bound, Action
  <2> QED
    BY <1>2, <2>1, KeepsDemote DEF Deauth
<1> QED
  BY <1>1, <1>2

\* user_unfake
LEMMA KeepsUnfake ==
  ASSUME NEW u, Unaged(u), NEW reason \in Reason
  PROVE  Keeps(u, Unfake(u, reason)) /\ (Thrifty(u) => Thrifty(Unfake(u, reason)))
<1>1. CASE u.state # "fake"
  BY <1>1, KeepsRefl DEF Unfake
<1>2. CASE u.state = "fake"
  <2>1. IsBound(u) /\ "unfake" \in Action
    BY <1>2 DEF IsBound, Bound, Action
  <2> QED
    BY <1>2, <2>1, KeepsDemote DEF Unfake
<1> QED
  BY <1>1, <1>2

\* user_unbind
LEMMA KeepsUnbind ==
  ASSUME now \in Nat, NEW u, Unaged(u), NEW reason \in Reason
  PROVE  Keeps(u, Unbind(u, reason)) /\ Thrifty(Unbind(u, reason))
<1> DEFINE d == Deauth(u, reason)
           v == Unfake(d, reason)
           a == [v EXCEPT !.reason = reason]
           b == Report(a, "unbind")
           c == [b EXCEPT !.ip = NoIp, !.state = "none"]
           e == LanOffline(c)
<1>1. Unaged(d) /\ Keeps(u, d)
  BY DeauthGood, KeepsDeauth
<1>2. Unaged(v) /\ v.state # "auth" /\ Keeps(d, v)
  BY <1>1, DeauthGood, UnfakeGood, KeepsUnfake
<1>3. Keeps(u, v) /\ v \in User
  BY <1>1, <1>2, KeepsTrans DEF Unaged
<1> HIDE DEF d, v
<1>4. CASE v.state # "bind"
  <2>1. Thrifty(v)
    BY <1>2 DEF Thrifty
  <2> QED
    BY <1>3, <1>4, <2>1 DEF Unbind, d, v
<1>5. CASE v.state = "bind"
  <2>2. /\ a \in User /\ a.state = v.state /\ a.noused = v.noused
        /\ a.faketime = v.faketime /\ a.uptime = v.uptime /\ a.limit = v.limit
    BY <1>3 DEF User
  <2> HIDE DEF a
  <2>3. Keeps(v, a) /\ "unbind" \in Action
    BY <2>2, KeepsSame DEF Action
  <2>4. Keeps(a, b) /\ b \in User
    BY <2>2, <2>3, KeepsReport, ReportKeeps
  <2> HIDE DEF b
  <2>5. c \in User /\ c.state = "none"
    BY <2>4 DEF User, State, Address
  <2> HIDE DEF c
  <2>6. e.state = "none" /\ e.noused = now
    BY <2>5 DEF LanOffline, User
  <2> HIDE DEF e
  <2>7. Keeps(b, e) /\ Thrifty(e)
    BY <2>6 DEF Keeps, InTime, Rested, Thrifty
  <2>8. Unbind(u, reason) = e
    BY <1>5 DEF Unbind, d, v, a, b, c, e
  <2> QED
    BY <1>3, <2>3, <2>4, <2>7, <2>8, KeepsTrans
<1> QED
  BY <1>4, <1>5

\* user_create: a new user is unused from now on.
LEMMA KeepsCreate ==
  ASSUME now \in Nat, NEW u, GoodUser(u)
  PROVE  Keeps(u, Create(u)) /\ (Thrifty(u) => Thrifty(Create(u)))
<1> DEFINE a == [Absent EXCEPT !.state = "none", !.log = u.log]
           b == [LanOnline(a) EXCEPT !.noused = now]
<1>1. CASE u.state # "absent"
  BY <1>1, KeepsRefl DEF Create
<1>2. CASE u.state = "absent"
  <2>1. Absent \in User /\ u.log \in Seq(Event)
    BY AbsentGood DEF GoodUser, User
  <2>2. a \in User /\ a.state = "none"
    BY <2>1 DEF User, State, Absent
  <2> HIDE DEF a
  <2>3. LanOnline(a) \in User /\ LanOnline(a).state = "none"
    BY <2>2, LanOnlineKeeps
  <2>4. b \in User /\ b.state = "none" /\ b.noused = now
    BY <2>3 DEF User
  <2> HIDE DEF b
  <2>5. Keeps(u, b) /\ Thrifty(b)
    BY <2>4 DEF Keeps, InTime, Rested, Thrifty
  <2>6. Create(u) = Report(b, "create")
    BY <1>2 DEF Create, a, b
  <2>7. "create" \in Action
    BY DEF Action
  <2>8. Keeps(b, Create(u)) /\ (Thrifty(b) => Thrifty(Create(u)))
    BY <2>4, <2>6, <2>7, KeepsReport
  <2> QED
    BY <2>5, <2>8, KeepsTrans
<1> QED
  BY <1>1, <1>2

\* user_delete
LEMMA KeepsDelete ==
  ASSUME NEW u, GoodUser(u)
  PROVE  Keeps(u, Delete(u)) /\ Thrifty(Delete(u))
<1> DEFINE v == Report(u, "delete")
<1>1. u \in User /\ "delete" \in Action
  BY DEF GoodUser, Action
<1>2. Keeps(u, v)
  BY <1>1, KeepsReport
<1> HIDE DEF v
<1>3. Delete(u).state = "absent"
  BY DEF Delete, Absent
<1>4. Keeps(v, Delete(u)) /\ Thrifty(Delete(u))
  BY <1>3, KeepsQuiet
<1> QED
  BY <1>2, <1>4, KeepsTrans

\* user_block
LEMMA KeepsBlock ==
  ASSUME now \in Nat, NEW u, GoodUser(u)
  PROVE  Keeps(u, Block(u)) /\ Thrifty(Block(u))
<1> DEFINE v == Unbind(u, "block")
           a == [v EXCEPT !.reason = "block"]
           b == Report(a, "block")
           c == [b EXCEPT !.state = "block"]
<1>0. "block" \in Reason /\ "block" \in Action
  BY DEF Reason, Action
<1>1. Keeps(u, v) /\ Thrifty(v) /\ GoodUser(v)
  BY <1>0, KeepsUnbind, UnbindGood, GoodIsUnaged
<1> HIDE DEF v
<1>2. CASE v.state # "none"
  BY <1>1, <1>2 DEF Block, v
<1>3. CASE v.state = "none"
  <2>1. /\ a \in User /\ a.state = v.state /\ a.noused = v.noused
        /\ a.faketime = v.faketime /\ a.uptime = v.uptime /\ a.limit = v.limit
    BY <1>0, <1>1 DEF GoodUser, User
  <2>2. Keeps(v, a)
    BY <2>1, KeepsSame
  <2> HIDE DEF a
  <2>3. Keeps(a, b) /\ b \in User /\ b.noused = a.noused /\ b.state = "none"
    BY <1>0, <1>3, <2>1, KeepsReport, ReportKeeps
  <2> HIDE DEF b
  <2>4. c.state = "block" /\ c.noused = b.noused
    BY <2>3 DEF User
  <2> HIDE DEF c
  <2>5. Keeps(b, c) /\ Thrifty(c)
    BY <2>3, <2>4 DEF Keeps, InTime, Rested, Thrifty
  <2>6. Block(u) = c
    BY <1>3 DEF Block, v, a, b, c
  <2> QED
    BY <1>1, <2>2, <2>3, <2>5, <2>6, KeepsTrans
<1> QED
  BY <1>2, <1>3

\* user_unblock
LEMMA KeepsUnblock ==
  ASSUME NEW u, GoodUser(u)
  PROVE  Keeps(u, Unblock(u)) /\ (Thrifty(u) => Thrifty(Unblock(u)))
<1> DEFINE a == [u EXCEPT !.state = "none"]
<1>1. CASE u.state # "block"
  BY <1>1, KeepsRefl DEF Unblock
<1>2. CASE u.state = "block"
  <2>1. a \in User /\ a.state = "none" /\ a.noused = u.noused
    BY DEF GoodUser, User, State
  <2> HIDE DEF a
  <2>2. Keeps(u, a) /\ Thrifty(a)
    BY <1>2, <2>1 DEF Keeps, InTime, Rested, Thrifty
  <2>3. Unblock(u) = Report(a, "unblock") /\ "unblock" \in Action
    BY <1>2 DEF Unblock, a, Action
  <2> QED
    BY <2>1, <2>2, <2>3, KeepsReport, KeepsTrans
<1> QED
  BY <1>1, <1>2

\* The release of a user who comes with another address.
LEMMA KeepsRelease ==
  ASSUME now \in Nat, NEW u, GoodUser(u), NEW ip
  PROVE  Keeps(u, Release(u, ip)) /\ (Thrifty(u) => Thrifty(Release(u, ip)))
<1>1. "auto" \in Reason
  BY DEF Reason
<1>2. Keeps(u, Unbind(u, "auto")) /\ Thrifty(Unbind(u, "auto"))
  BY <1>1, KeepsUnbind, GoodIsUnaged
<1> QED
  BY <1>2, KeepsRefl DEF Release

\* user_bind
LEMMA KeepsBind ==
  ASSUME now \in Nat, NEW u, GoodUser(u), NEW ip \in Address
  PROVE  Keeps(u, Bind(u, ip)) /\ (Thrifty(u) => Thrifty(Bind(u, ip)))
<1> DEFINE v == Release(u, ip)
           w == UpdateAging(LanOnline([v EXCEPT !.ip = ip, !.state = "bind"]))
<1>1. v \in User /\ Keeps(u, v) /\ (Thrifty(u) => Thrifty(v))
  BY ReleaseGood, KeepsRelease DEF GoodUser
<1> HIDE DEF v
<1>2. GoodUser(w) /\ w.state = "bind"
  BY <1>1, EnterGood DEF Bound
<1> HIDE DEF w
<1>3. Keeps(v, w) /\ Thrifty(w)
  BY <1>2, KeepsQuiet
<1>4. w \in User /\ "bind" \in Action
  BY <1>2 DEF GoodUser, Action
<1>5. Keeps(w, Report(w, "bind")) /\ Thrifty(Report(w, "bind"))
  BY <1>3, <1>4, KeepsReport
<1>6. Bind(u, ip) = IF v.state # "none" THEN v ELSE Report(w, "bind")
  BY DEF Bind, v, w
<1>7. Keeps(u, Report(w, "bind"))
  BY <1>1, <1>3, <1>5, KeepsTrans
<1> QED
  BY <1>1, <1>5, <1>6, <1>7

\* user_fake: the trial starts now.
LEMMA KeepsFake ==
  ASSUME now \in Nat, NEW u, GoodUser(u), NEW ip \in Address
  PROVE  Keeps(u, Fake(u, ip)) /\ (Thrifty(u) => Thrifty(Fake(u, ip)))
<1> DEFINE v == Release(u, ip)
           w == UpdateAging(LanOnline([v EXCEPT !.ip = ip, !.state = "fake"]))
           x == [w EXCEPT !.faketime = now]
<1>1. v \in User /\ Keeps(u, v) /\ (Thrifty(u) => Thrifty(v))
  BY ReleaseGood, KeepsRelease DEF GoodUser
<1> HIDE DEF v
<1>2. GoodUser(w) /\ w.state = "fake"
  BY <1>1, EnterGood DEF Bound
<1> HIDE DEF w
<1>3. x \in User /\ x.state = "fake" /\ x.faketime = now
  BY <1>2 DEF GoodUser, User
<1>4. "fake" \in Action
  BY DEF Action
<1> HIDE DEF x
<1>5. Keeps(v, x) /\ Thrifty(x)
  BY <1>3, UmdAssumption DEF Keeps, InTime, Rested, Thrifty
<1>6. Keeps(x, Report(x, "fake")) /\ Thrifty(Report(x, "fake"))
  BY <1>3, <1>4, <1>5, KeepsReport
<1>7. Fake(u, ip) = IF u.state = "block" \/ IsBound(v) THEN v ELSE Report(x, "fake")
  BY DEF Fake, v, w, x
<1> QED
  BY <1>1, <1>5, <1>6, <1>7, KeepsTrans

\* user_reauth
LEMMA KeepsReauth ==
  ASSUME NEW u, GoodUser(u)
  PROVE  Keeps(u, Reauth(u)) /\ (Thrifty(u) => Thrifty(Reauth(u)))
<1>1. u \in User /\ "reauth" \in Action
  BY DEF GoodUser, Action
<1> QED
  BY <1>1, KeepsReport, KeepsRefl DEF Reauth

\* user_auth: the session starts now, with no volume used.
LEMMA KeepsAuth ==
  ASSUME now \in Nat, NEW u, GoodUser(u), NEW limit \in Limits, NEW ip \in Address \cup {Nothing}
  PROVE  Keeps(u, Auth(u, limit, ip)) /\ (Thrifty(u) => Thrifty(Auth(u, limit, ip)))
<1> DEFINE v == IF u.state = "none" /\ ip # Nothing THEN Bind(u, ip) ELSE u
           a == [v EXCEPT !.state = "auth", !.reason = "none", !.limit = limit]
           b == WanOnline(a)
           w == UpdateAging(b)
<1>1. GoodUser(v) /\ Keeps(u, v) /\ (Thrifty(u) => Thrifty(v))
  <2>1. CASE ip \in Address
    BY <2>1, BindGood, KeepsBind, KeepsRefl
  <2>2. CASE ip = Nothing
    BY <2>2, KeepsRefl
  <2> QED
    BY <2>1, <2>2
<1> HIDE DEF v
<1>2. CASE ~IsBound(v)
  BY <1>1, <1>2 DEF Auth, v
<1>3. CASE IsBound(v)
  <2>1. /\ a \in User /\ a.state = "auth" /\ a.ip = v.ip /\ a.flow = v.flow
        /\ a.limit = limit
    BY <1>1, UmdAssumption DEF GoodUser, User, State, Bound, Reason
  <2>2. Unaged(a)
    BY <1>1, <1>3, <2>1 DEF GoodUser, Unaged, IpWhileBound, IsBound, Bound
  <2> HIDE DEF a
  <2>3. Unaged(b)
    BY <2>2, WanOnlineKeeps
  <2>4. /\ b.state = "auth" /\ b.limit = limit
        /\ b.uptime["wan"] = now /\ b.flow["wan"] = [d \in Dir |-> 0]
    BY <2>1 DEF WanOnline, User, Type
  <2> HIDE DEF b
  <2>5. GoodUser(w) /\ w.state = "auth"
    BY <2>3, <2>4, UpdateAgingGood
  <2>6. /\ w.limit = limit /\ w.uptime["wan"] = now
        /\ w.flow["wan"] = [d \in Dir |-> 0]
    BY <2>3, <2>4 DEF UpdateAging, Unaged, User
  <2> HIDE DEF w
  <2>7. limit.max["wan"] \in Nat /\ limit.flowmax["wan"] \in [Dir -> Nat]
    BY UmdAssumption DEF Limit, Type
  <2>8. Thrifty(w)
    BY <2>6, <2>7 DEF Thrifty
  <2>9. Keeps(v, w)
    BY <2>5, <2>6, <2>7 DEF Keeps, InTime, Rested
  <2>10. w \in User /\ "auth" \in Action
    BY <2>5 DEF GoodUser, Action
  <2>11. Keeps(w, Report(w, "auth")) /\ Thrifty(Report(w, "auth"))
    BY <2>8, <2>10, KeepsReport
  <2>12. Auth(u, limit, ip) = Report(w, "auth")
    BY <1>3 DEF Auth, v, a, b, w
  <2> QED
    BY <1>1, <2>9, <2>11, <2>12, KeepsTrans
<1> QED
  BY <1>2, <1>3

\* A document of a peer replaces the user, its times and its volume.
LEMMA KeepsSync ==
  ASSUME NEW u, GoodUser(u), NEW dump \in Dumps
  PROVE  LET v == Sync(u, dump)
         IN  /\ Thrifty(dump) => Thrifty(v)
             /\ dump.state \notin {"auth", "fake"} => \A b : InTime(v, b)
             /\ dump.state \notin {"none", "block"} => \A t : Rested(v, t)
<1> DEFINE a == [dump EXCEPT !.faketime = u.faketime, !.log = u.log]
           v == Report(a, "sync")
<1>1. dump \in User /\ u.log \in Seq(Event) /\ u.faketime \in Nat
  BY UmdAssumption DEF GoodUser, User
<1>2. /\ a \in User /\ a.state = dump.state
      /\ a.limit = dump.limit /\ a.flow = dump.flow
  BY <1>1 DEF User
<1> HIDE DEF a
<1>3. "sync" \in Action
  BY DEF Action
<1>4. Keeps(a, v) /\ (Thrifty(a) => Thrifty(v)) /\ v.state = dump.state
  BY <1>2, <1>3, KeepsReport, ReportKeeps
<1> HIDE DEF v
<1>6. Thrifty(dump) => Thrifty(v)
  BY <1>2, <1>4 DEF Thrifty
<1>7. /\ dump.state \notin {"auth", "fake"} => \A b : InTime(v, b)
      /\ dump.state \notin {"none", "block"} => \A t : Rested(v, t)
  BY <1>4 DEF InTime, Rested
<1> QED
  BY <1>6, <1>7 DEF Sync, a, v

(***************************************************************************)
(* A packet.                                                               *)
(***************************************************************************)

\* The session has outrun its volume, if at all, where the packet counts.
ThriftyBut(u, type, dir) ==
  u.state = "auth" =>
    \A d \in Dir : type # "wan" \/ d \notin {dir, "all"} =>
      LET max == u.limit.flowmax["wan"][d]
      IN  max = 0 \/ u.flow["wan"][d] <= max

\* Charging changes only what the packet counts for.
LEMMA KeepsCharge ==
  ASSUME NEW u, GoodUser(u), NEW type \in Type, NEW dir \in {"up", "down"}, NEW len \in PktLen
  PROVE  LET f == FlowUpdate(u, type, dir, len)
         IN  Keeps(u, f) /\ (Thrifty(u) => ThriftyBut(f, type, dir))
<1> DEFINE charged == IF type = "wan" THEN {"wan", "lan"} ELSE {type}
           more(t, d) == IF t \in charged /\ d \in {dir, "all"} THEN len ELSE 0
           flow == [t \in Type |-> [d \in Dir |-> u.flow[t][d] + more(t, d)]]
           f == FlowUpdate(u, type, dir, len)
<1>1. f = [u EXCEPT !.flow = flow]
  BY DEF FlowUpdate
<1>2. u.flow \in [Type -> [Dir -> Nat]]
  BY DEF GoodUser, User
<1>3. ASSUME NEW d \in Dir, type # "wan" \/ d \notin {dir, "all"}
      PROVE  flow["wan"][d] = u.flow["wan"][d]
  <2>1. u.flow["wan"][d] \in Nat /\ "wan" \in Type
    BY <1>2 DEF Type
  <2>2. more("wan", d) = 0
    BY <1>3 DEF Type
  <2>3. flow["wan"][d] = u.flow["wan"][d] + more("wan", d)
    BY <2>1
  <2> HIDE DEF flow, more
  <2> QED
    BY <2>1, <2>2, <2>3
<1> HIDE DEF flow
<1>4. /\ f.state = u.state /\ f.noused = u.noused
      /\ f.faketime = u.faketime /\ f.uptime = u.uptime /\ f.limit = u.limit
      /\ f.flow = flow
  BY <1>1 DEF GoodUser, User
<1> HIDE DEF f
<1>5. Keeps(u, f)
  BY <1>4, KeepsSame
<1>6. Thrifty(u) => ThriftyBut(f, type, dir)
  BY <1>3, <1>4 DEF Thrifty, ThriftyBut
<1> QED
  BY <1>5, <1>6 DEF f

\* A report changes neither state nor volume.
LEMMA KeepsFlowReauth ==
  ASSUME NEW u, GoodUser(u), NEW type, NEW dir
  PROVE  LET g == FlowReauth(u, type, dir)
         IN  /\ Keeps(u, g)
             /\ ThriftyBut(u, type, dir) => ThriftyBut(g, type, dir)
<1>1. Keeps(u, Reauth(u))
  BY KeepsReauth
<1>2. /\ Reauth(u).state = u.state /\ Reauth(u).limit = u.limit
      /\ Reauth(u).flow = u.flow
  BY DEF Reauth, Report, GoodUser, User
<1>3. ThriftyBut(u, type, dir) => ThriftyBut(Reauth(u), type, dir)
  BY <1>2 DEF ThriftyBut
<1> QED
  BY <1>1, <1>3, KeepsRefl DEF FlowReauth

\* A session that has outrun its volume ends.
LEMMA KeepsOverflow ==
  ASSUME now \in Nat, NEW u, GoodUser(u), NEW type \in Type, NEW dir \in {"up", "down"},
         ThriftyBut(u, type, dir)
  PROVE  Thrifty(Overflow(u, type, dir))
<1> DEFINE v == IF type = "wan" /\ Exceeds(u, u.limit.flowmax, type, dir)
                THEN Deauth(u, "flowlimit") ELSE u
<1>0. "flowlimit" \in Reason
  BY DEF Reason
<1>1. GoodUser(v)
  BY <1>0, DeauthGood, GoodIsUnaged
<1>2. Thrifty(v)
  <2>1. CASE type = "wan" /\ Exceeds(u, u.limit.flowmax, type, dir)
    BY <1>0, <2>1, DeauthGood, GoodIsUnaged DEF Thrifty
  <2>2. CASE type # "wan"
    BY <2>2 DEF Thrifty, ThriftyBut
  <2>3. CASE type = "wan" /\ ~Exceeds(u, u.limit.flowmax, type, dir)
    <3>1. /\ u.flow["wan"] \in [Dir -> Nat] /\ u.limit.flowmax["wan"] \in [Dir -> Nat]
      BY DEF GoodUser, User, Limit, Type
    <3>2. ASSUME NEW d \in {dir, "all"}
          PROVE  u.limit.flowmax["wan"][d] = 0 \/ u.flow["wan"][d] <= u.limit.flowmax["wan"][d]
      <4>1. d \in Dir
        BY DEF Dir
      <4>2. u.limit.flowmax["wan"][d] = 0 \/ ~(u.limit.flowmax["wan"][d] < u.flow["wan"][d])
        BY <2>3 DEF Exceeds
      <4> QED
        BY <3>1, <4>1, <4>2
    <3> QED
      BY <2>3, <3>2 DEF Thrifty, ThriftyBut
  <2> QED
    BY <2>1, <2>2, <2>3
<1> HIDE DEF v
<1>3. Thrifty(Unbind(v, "flowlimit"))
  BY <1>0, <1>1, KeepsUnbind, GoodIsUnaged
<1> QED
  BY <1>2, <1>3 DEF Overflow, v

\* However it is led out, its times are kept.
LEMMA KeepsLeadOut ==
  ASSUME now \in Nat, NEW u, GoodUser(u), NEW type, NEW dir
  PROVE  Keeps(u, Overflow(u, type, dir))
<1> DEFINE v == IF type = "wan" /\ Exceeds(u, u.limit.flowmax, type, dir)
                THEN Deauth(u, "flowlimit") ELSE u
<1>0. "flowlimit" \in Reason
  BY DEF Reason
<1>1. GoodUser(v) /\ Keeps(u, v)
  BY <1>0, DeauthGood, GoodIsUnaged, KeepsDeauth, KeepsRefl
<1> HIDE DEF v
<1>2. Keeps(v, Unbind(v, "flowlimit"))
  BY <1>0, <1>1, KeepsUnbind, GoodIsUnaged
<1>3. Keeps(u, Unbind(v, "flowlimit"))
  BY <1>1, <1>2, KeepsTrans
<1> QED
  BY <1>1, <1>3 DEF Overflow, v

\* Aging starts over.
LEMMA KeepsAging ==
  ASSUME NEW u, u \in User
  PROVE  Keeps(u, UpdateAging(u)) /\ (Thrifty(u) => Thrifty(UpdateAging(u)))
<1> DEFINE v == UpdateAging(u)
<1>1. /\ v.state = u.state /\ v.noused = u.noused /\ v.faketime = u.faketime
      /\ v.uptime = u.uptime /\ v.limit = u.limit /\ v.flow = u.flow
  BY DEF UpdateAging, User
<1> HIDE DEF v
<1>2. Keeps(u, v) /\ (Thrifty(u) => Thrifty(v))
  BY <1>1, KeepsSame
<1> QED
  BY <1>2 DEF v

\* A packet of a station that is not known yet.
LEMMA KeepsAutoUser ==
  ASSUME now \in Nat, NEW u, GoodUser(u), NEW ip \in Ip
  PROVE  Keeps(u, AutoUser(u, ip)) /\ (Thrifty(u) => Thrifty(AutoUser(u, ip)))
<1> DEFINE c == Create(u)
<1>0. ip \in Address
  BY DEF Address
<1>1. GoodUser(c) /\ Keeps(u, c) /\ (Thrifty(u) => Thrifty(c))
  BY CreateGood, KeepsCreate
<1> HIDE DEF c
<1>2. /\ Keeps(c, Fake(c, ip)) /\ (Thrifty(c) => Thrifty(Fake(c, ip)))
      /\ Keeps(c, Bind(c, ip)) /\ (Thrifty(c) => Thrifty(Bind(c, ip)))
  BY <1>0, <1>1, KeepsFake, KeepsBind
<1>3. Keeps(u, Fake(c, ip)) /\ Keeps(u, Bind(c, ip))
  BY <1>1, <1>2, KeepsTrans
<1> QED
  BY <1>1, <1>2, <1>3, KeepsRefl DEF AutoUser, c

\* umd_conn_handle
LEMMA KeepsPacket ==
  ASSUME now \in Nat, NEW u, GoodUser(u), NEW ip \in Ip, NEW type \in Type,
         NEW dir \in {"up", "down"}, NEW len \in PktLen
  PROVE  LET w == umd_conn_handle(u, ip, type, dir, len)
         IN  Keeps(u, w) /\ (Thrifty(u) => Thrifty(w))
<1> DEFINE v == AutoUser(u, ip)
           f == FlowUpdate(v, type, dir, len)
           g == FlowReauth(f, type, dir)
           h == Overflow(g, type, dir)
           w == UpdateAging(h)
<1>0. ip \in Address
  BY DEF Address
<1>1. GoodUser(v) /\ Keeps(u, v) /\ (Thrifty(u) => Thrifty(v))
  BY <1>0, CreateGood, FakeGood, BindGood, KeepsAutoUser DEF AutoUser
<1> HIDE DEF v
<1>2. GoodUser(f) /\ Keeps(v, f) /\ (Thrifty(v) => ThriftyBut(f, type, dir))
  BY <1>1, FlowUpdateGood, KeepsCharge
<1> HIDE DEF f
<1>3. /\ GoodUser(g) /\ Keeps(f, g)
      /\ ThriftyBut(f, type, dir) => ThriftyBut(g, type, dir)
  BY <1>2, ReauthGood, KeepsFlowReauth DEF FlowReauth
<1> HIDE DEF g
<1>4. /\ h \in User /\ Keeps(g, h)
      /\ ThriftyBut(g, type, dir) => Thrifty(h)
  BY <1>3, OverflowGood, KeepsLeadOut, KeepsOverflow DEF GoodUser
<1> HIDE DEF h
<1>5. Keeps(h, w) /\ (Thrifty(h) => Thrifty(w))
  BY <1>4, KeepsAging
<1> HIDE DEF w
<1>6. Keeps(u, g)
  BY <1>1, <1>2, <1>3, KeepsTrans
<1>7. Keeps(u, w)
  BY <1>4, <1>5, <1>6, KeepsTrans
<1>8. umd_conn_handle(u, ip, type, dir, len) = IF ~IsBound(v) THEN v ELSE w
  BY DEF umd_conn_handle, v, f, g, h, w
<1> QED
  BY <1>1, <1>2, <1>3, <1>4, <1>5, <1>7, <1>8

(***************************************************************************)
(* The timer.                                                              *)
(***************************************************************************)

\* FakeTimeout, OnlineReauth and OnlineTimeout, of a bound user or none.
LEMMA KeepsTimeouts ==
  ASSUME now \in Nat, NEW u, GoodUser(u)
  PROVE  LET w == OnlineTimeout(OnlineReauth(FakeTimeout(u)))
         IN  /\ GoodUser(w) /\ Keeps(u, w) /\ (Thrifty(u) => Thrifty(w))
             /\ InTime(w, now)
             /\ IF IsBound(u) THEN IsBound(w) ELSE w = u
<1> DEFINE a == FakeTimeout(u)
           b == OnlineReauth(a)
           w == OnlineTimeout(b)
<1>0. "onlinetime" \in Reason
  BY DEF Reason
<1>1. GoodUser(a) /\ Keeps(u, a) /\ (Thrifty(u) => Thrifty(a))
  BY <1>0, UnfakeGood, GoodIsUnaged, KeepsUnfake, KeepsRefl DEF FakeTimeout
<1>2. a.state = "fake" /\ FAKE # 0 => now <= a.faketime + FAKE
  <2>1. FAKE \in Nat /\ u.faketime \in Nat
    BY UmdAssumption DEF GoodUser, User
  <2>2. Unfake(u, "onlinetime").state # "fake"
    BY <1>0, UnfakeGood, GoodIsUnaged
  <2> QED
    BY <2>1, <2>2 DEF FakeTimeout, Older
<1>3. IF IsBound(u) THEN IsBound(a) ELSE a = u
  <2>1. ASSUME u.state = "fake" PROVE IsBound(Unfake(u, "onlinetime"))
    BY <2>1 DEF Unfake, Report, IsBound, Bound, GoodUser, User
  <2> QED
    BY <2>1 DEF FakeTimeout, IsBound, Bound
<1> HIDE DEF a
<1>4. GoodUser(b) /\ Keeps(a, b) /\ (Thrifty(a) => Thrifty(b))
  BY <1>1, ReauthGood, KeepsReauth, KeepsRefl DEF OnlineReauth
<1>5. /\ b.state = a.state /\ b.faketime = a.faketime
      /\ a.state # "auth" => b = a
  BY <1>1 DEF OnlineReauth, Reauth, Report, GoodUser, User
<1> HIDE DEF b
<1>6. GoodUser(w) /\ Keeps(b, w) /\ (Thrifty(b) => Thrifty(w))
  BY <1>0, <1>4, DeauthGood, GoodIsUnaged, KeepsDeauth, KeepsRefl DEF OnlineTimeout
<1>7. InTime(w, now)
  <2>1. CASE b.state # "auth"
    <3>1. w = b
      BY <2>1 DEF OnlineTimeout, Deauth
    <3> QED
      BY <1>2, <1>5, <2>1, <3>1 DEF InTime
  <2>2. CASE b.state = "auth" /\ \E t \in Type : b.limit.max[t] # 0 /\ Older(b.uptime[t], b.limit.max[t])
    <3>1. w.state = "bind"
      BY <1>4, <2>2 DEF OnlineTimeout, Deauth, Report, GoodUser, User
    <3> QED
      BY <3>1 DEF InTime
  <2>3. CASE b.state = "auth" /\ ~\E t \in Type : b.limit.max[t] # 0 /\ Older(b.uptime[t], b.limit.max[t])
    <3>1. w = b /\ "wan" \in Type
      BY <2>3 DEF OnlineTimeout, Type
    <3>2. b.limit.max["wan"] \in Nat /\ b.uptime["wan"] \in Nat
      BY <1>4, <3>1 DEF GoodUser, User, Limit
    <3> QED
      BY <2>3, <3>1, <3>2 DEF InTime, Older
  <2> QED
    BY <2>1, <2>2, <2>3
<1>8. IF IsBound(b) THEN IsBound(w) ELSE w = b
  <2>1. ASSUME b.state = "auth" PROVE IsBound(Deauth(b, "onlinetime"))
    BY <1>4, <2>1 DEF Deauth, Report, IsBound, Bound, GoodUser, User
  <2>2. b.state # "auth" => w = b
    BY DEF OnlineTimeout, Deauth
  <2> QED
    BY <2>1, <2>2 DEF OnlineTimeout, IsBound, Bound
<1> HIDE DEF w
<1>9. Keeps(u, w)
  BY <1>1, <1>4, <1>6, KeepsTrans
<1>10. IF IsBound(u) THEN IsBound(w) ELSE w = u
  BY <1>3, <1>5, <1>8 DEF IsBound, Bound
<1> QED
  BY <1>1, <1>4, <1>6, <1>7, <1>9, <1>10 DEF a, b, w

\* A user that is led out is still there.
LEMMA UnbindStays ==
  ASSUME now \in Nat, NEW u, Unaged(u), u.state # "absent", NEW reason \in Reason
  PROVE  Unbind(u, reason).state # "absent"
<1> DEFINE d == Deauth(u, reason)
           v == Unfake(d, reason)
           c == [Report([v EXCEPT !.reason = reason], "unbind")
                   EXCEPT !.ip = NoIp, !.state = "none"]
<1>1. Unaged(d) /\ d.state # "absent"
  <2>1. Unaged(d)
    BY DeauthGood
  <2>2. d.state # "absent"
    BY DEF Deauth, Report, Unaged, User
  <2> QED
    BY <2>1, <2>2
<1> HIDE DEF d
<1>2. Unaged(v) /\ v.state # "absent"
  <2>1. Unaged(v)
    BY <1>1, UnfakeGood
  <2>2. v.state # "absent"
    BY <1>1 DEF Unfake, Report, Unaged, User
  <2> QED
    BY <2>1, <2>2
<1> HIDE DEF v
<1>3. CASE v.state # "bind"
  BY <1>2, <1>3 DEF Unbind, d, v
<1>4. CASE v.state = "bind"
  <2>1. c.state = "none"
    BY <1>2 DEF Unaged, User, Report
  <2>2. Unbind(u, reason) = LanOffline(c)
    BY <1>4 DEF Unbind, d, v
  <2> HIDE DEF c
  <2>3. c.state = "none" => LanOffline(c).state \in {"none", c.state}
    BY <2>1 DEF LanOffline
  <2> QED
    BY <2>1, <2>2, <2>3
<1> QED
  BY <1>3, <1>4

\* A user ages, or leaves: it does not vanish.
LEMMA KeepsAge ==
  ASSUME now \in Nat, NEW u, GoodUser(u), u.state # "absent", NEW type \in Type
  PROVE  /\ Keeps(u, Age(u, type)) /\ (Thrifty(u) => Thrifty(Age(u, type)))
         /\ Age(u, type).state # "absent"
<1> DEFINE v == [u EXCEPT !.aging[type] = @ - TICKS]
<1>1. CASE u.limit.idle[type] = 0
  BY <1>1, KeepsRefl DEF Age
<1>2. CASE u.limit.idle[type] # 0
  <2>1. u.aging \in [Type -> Int] /\ TICKS \in Int
    BY UmdAssumption DEF GoodUser, User
  <2>2. [u.aging EXCEPT ![type] = u.aging[type] - TICKS] \in [Type -> Int]
    BY <2>1
  <2>3. v = [u EXCEPT !.aging = [u.aging EXCEPT ![type] = u.aging[type] - TICKS]]
    OBVIOUS
  <2>4. /\ v \in User /\ v.state = u.state /\ v.noused = u.noused
        /\ v.faketime = u.faketime /\ v.uptime = u.uptime /\ v.limit = u.limit
        /\ v.flow = u.flow /\ v.ip = u.ip
    BY <2>2, <2>3 DEF GoodUser, User
  <2>5. Age(u, type) = IF v.aging[type] <= 0 THEN Unbind(v, "aging") ELSE v
    BY <1>2 DEF Age
  <2> HIDE DEF v
  <2>6. Unaged(v) /\ "aging" \in Reason
    BY <2>4 DEF GoodUser, Unaged, IpWhileBound, IsBound, Reason
  <2>7. Keeps(u, v) /\ (Thrifty(u) => Thrifty(v))
    BY <2>4, KeepsSame
  <2>8. Keeps(v, Unbind(v, "aging")) /\ Thrifty(Unbind(v, "aging"))
    BY <2>6, KeepsUnbind
  <2>9. Unbind(v, "aging").state # "absent"
    <3>1. v.state # "absent"
      BY <2>4
    <3> QED
      BY <2>6, <3>1, UnbindStays
  <2>10. Keeps(u, Unbind(v, "aging"))
    BY <2>7, <2>8, KeepsTrans
  <2> QED
    BY <2>4, <2>5, <2>7, <2>8, <2>9, <2>10
<1> QED
  BY <1>1, <1>2

\* OnlineAging of one user.
LEMMA KeepsOnlineAging ==
  ASSUME now \in Nat, NEW u, GoodUser(u)
  PROVE  LET e == OnlineAging(u)
         IN  /\ GoodUser(e) /\ Keeps(u, e) /\ (Thrifty(u) => Thrifty(e))
             /\ IF IsBound(u) THEN e.state # "absent" ELSE e = u
<1> DEFINE d == Age(u, "wan")
           e == Age(d, "lan")
<1>0. "wan" \in Type /\ "lan" \in Type
  BY DEF Type
<1>1. CASE ~IsBound(u)
  BY <1>1, KeepsRefl DEF OnlineAging
<1>2. CASE IsBound(u)
  <2>1. u.state # "absent"
    BY <1>2 DEF IsBound, Bound
  <2>2. /\ GoodUser(d) /\ d.state # "absent" /\ Keeps(u, d)
        /\ Thrifty(u) => Thrifty(d)
    BY <1>0, <2>1, AgeGood, KeepsAge
  <2> HIDE DEF d
  <2>3. /\ GoodUser(e) /\ e.state # "absent" /\ Keeps(d, e)
        /\ Thrifty(d) => Thrifty(e)
    BY <1>0, <2>2, AgeGood, KeepsAge
  <2> HIDE DEF e
  <2>4. Keeps(u, e)
    BY <2>2, <2>3, KeepsTrans
  <2>5. OnlineAging(u) = e
    BY <1>2 DEF OnlineAging, d, e
  <2> QED
    BY <1>2, <2>2, <2>3, <2>4, <2>5
<1> QED
  BY <1>1, <1>2

\* umd_user_gc
LEMMA KeepsGc ==
  ASSUME NEW u, GoodUser(u)
  PROVE  /\ Keeps(u, umd_user_gc(u)) /\ (Thrifty(u) => Thrifty(umd_user_gc(u)))
         /\ Keeps(u, GcAuto(u)) /\ (Thrifty(u) => Thrifty(GcAuto(u)))
BY KeepsDelete, KeepsRefl DEF umd_user_gc, GcAuto

\* The driver's counters change no time; an unheard station keeps its volume.
LEMMA KeepsBrflow ==
  ASSUME NEW u, GoodUser(u), NEW counter \in Counters \cup {Unheard}
  PROVE  LET e == BrflowUpdate(u, counter)
         IN  /\ GoodUser(e) /\ Keeps(u, e)
             /\ Thrifty(u) /\ counter = Unheard => Thrifty(e)
             /\ e.state = u.state
<1> DEFINE a == [u EXCEPT !.flow = [t \in Type |-> counter]]
           e == BrflowUpdate(u, counter)
<1>1. CASE u.state = "absent" \/ counter = Unheard
  BY <1>1, KeepsRefl DEF BrflowUpdate
<1>2. CASE ~(u.state = "absent" \/ counter = Unheard)
  <2>1. GoodUser(e)
    BY BrflowGood
  <2>2. e = UpdateAging(a)
    BY <1>2 DEF BrflowUpdate
  <2>3. /\ e.state = u.state /\ e.noused = u.noused /\ e.faketime = u.faketime
        /\ e.uptime = u.uptime /\ e.limit = u.limit
    BY <2>2 DEF UpdateAging, GoodUser, User
  <2> HIDE DEF e
  <2> QED
    BY <1>2, <2>1, <2>3, KeepsSame DEF e
<1> QED
  BY <1>1, <1>2

\* What the timer collects was left unused, by whatever the same run did.
Collected(u, v) ==
  u.state # "absent" /\ v.state = "absent" =>
    /\ u.state # "block"
    /\ \A t \in Int : t <= now /\ Rested(u, t) => now - t > GCUSER

\* umduser_timer_handle
LEMMA KeepsTimer ==
  ASSUME now \in Nat, NEW u, GoodUser(u), NEW counter \in Counters \cup {Unheard}
  PROVE  LET v == umduser_timer_handle(u, counter)
         IN  /\ Keeps(u, v)
             /\ Thrifty(u) /\ counter = Unheard => Thrifty(v)
             /\ InTime(v, now) /\ Collected(u, v)
<1> DEFINE w == OnlineTimeout(OnlineReauth(FakeTimeout(u)))
           d == OnlineAging(w)
           e == BrflowUpdate(d, counter)
           v == GcAuto(e)
<1>1. /\ GoodUser(w) /\ Keeps(u, w) /\ (Thrifty(u) => Thrifty(w))
      /\ InTime(w, now)
      /\ IF IsBound(u) THEN IsBound(w) ELSE w = u
  BY KeepsTimeouts
<1> HIDE DEF w
<1>2. /\ GoodUser(d) /\ Keeps(w, d) /\ (Thrifty(w) => Thrifty(d))
      /\ IF IsBound(w) THEN d.state # "absent" ELSE d = w
  BY <1>1, KeepsOnlineAging
<1> HIDE DEF d
<1>3. /\ GoodUser(e) /\ Keeps(d, e) /\ e.state = d.state
      /\ Thrifty(d) /\ counter = Unheard => Thrifty(e)
  BY <1>2, KeepsBrflow
<1> HIDE DEF e
<1>4. Keeps(e, v) /\ (Thrifty(e) => Thrifty(v))
  BY <1>3, KeepsGc
<1>5. Keeps(u, d)
  BY <1>1, <1>2, KeepsTrans
<1>6. Keeps(u, e)
  BY <1>3, <1>5, KeepsTrans
<1>7. Collected(u, v)
  <2> SUFFICES ASSUME u.state # "absent", v.state = "absent"
               PROVE  /\ u.state # "block"
                      /\ \A t \in Int : t <= now /\ Rested(u, t) => now - t > GCUSER
    BY DEF Collected
  <2>1. e.state # "absent"
    BY <1>1, <1>2, <1>3 DEF IsBound, Bound
  <2>2. Older(e.noused, GCUSER) /\ e.state = "none"
    BY <2>1 DEF GcAuto, umd_user_gc
  <2>3. u.state # "block"
    <3>1. u.state = "block" => e.state = u.state
      BY <1>1, <1>2, <1>3 DEF IsBound, Bound
    <3> QED
      BY <2>2, <3>1
  <2>4. ASSUME NEW t \in Int, t <= now, Rested(u, t) PROVE now - t > GCUSER
    <3>1. Rested(e, t)
      BY <1>6, <2>4 DEF Keeps
    <3>2. t <= e.noused
      BY <2>2, <3>1 DEF Rested
    <3>3. e.noused \in Nat /\ GCUSER \in Nat
      BY <1>3, UmdAssumption DEF GoodUser, User
    <3> QED
      BY <2>2, <3>2, <3>3 DEF Older
  <2> QED
    BY <2>3, <2>4
<1> HIDE DEF v
<1>8. Keeps(u, v)
  BY <1>4, <1>6, KeepsTrans
<1>9. Keeps(w, e)
  BY <1>2, <1>3, KeepsTrans
<1>10. Keeps(w, v)
  BY <1>4, <1>9, KeepsTrans
<1>11. InTime(v, now)
  BY <1>1, <1>10 DEF Keeps
<1> QED
  BY <1>1, <1>2, <1>3, <1>4, <1>7, <1>8, <1>11 DEF umduser_timer_handle, v, e, d, w

(***************************************************************************)
(* Every handler, and the loop.                                            *)
(***************************************************************************)

\* A user made by a command is created first, if need be.
LEMMA KeepsOnCreate ==
  ASSUME now \in Nat, NEW u, GoodUser(u), NEW v, Keeps(Create(u), v),
         Thrifty(Create(u)) => Thrifty(v)
  PROVE  Keeps(u, v) /\ (Thrifty(u) => Thrifty(v))
<1>1. Keeps(u, Create(u)) /\ (Thrifty(u) => Thrifty(Create(u)))
  BY KeepsCreate
<1>2. Keeps(u, v)
  BY <1>1, KeepsTrans
<1> QED
  BY <1>1, <1>2

\* Only a document of a peer may break what handlers keep, or, of the volume,
\* the driver's counters.
LEMMA OutcomeKeeps ==
  ASSUME now \in Nat, NEW u, GoodUser(u), NEW v, Outcome(u, v)
  PROVE  \/ Keeps(u, v) /\ (Thrifty(u) /\ Counters = {} => Thrifty(v))
         \/ \E dump \in Dumps : v = Sync(Create(u), dump)
<1> DEFINE Kept == Keeps(u, v) /\ (Thrifty(u) /\ Counters = {} => Thrifty(v))
           c == Create(u)
<1>0. Unaged(u) /\ "initiative" \in Reason /\ "admin" \in Reason
  BY GoodIsUnaged DEF Reason
<1>1. GoodUser(c)
  BY CreateGood
<1>2. CASE v \in {u, c, Delete(u), Unblock(u), Reauth(u), umd_user_gc(u)}
  BY <1>2, KeepsRefl, KeepsCreate, KeepsDelete, KeepsUnblock, KeepsReauth, KeepsGc
<1>3. CASE v \in {Unbind(u, "initiative"), Unfake(u, "initiative"), Deauth(u, "admin")}
  BY <1>0, <1>3, KeepsUnbind, KeepsUnfake, KeepsDeauth
<1>4. ASSUME NEW counter \in Counters \cup {Unheard}, v = umduser_timer_handle(u, counter)
      PROVE  Kept
  BY <1>4, KeepsTimer
<1>5. CASE v = Block(c)
  BY <1>1, <1>5, KeepsBlock, KeepsOnCreate
<1>6. ASSUME NEW ip \in Address, v = Bind(c, ip) \/ v = Fake(c, ip) PROVE Kept
  <2>1. /\ Keeps(c, Bind(c, ip)) /\ (Thrifty(c) => Thrifty(Bind(c, ip)))
        /\ Keeps(c, Fake(c, ip)) /\ (Thrifty(c) => Thrifty(Fake(c, ip)))
    BY <1>1, KeepsBind, KeepsFake
  <2> QED
    BY <1>6, <2>1, KeepsOnCreate
<1>7. ASSUME NEW limit \in Limits, NEW ip \in Address \cup {Nothing}, v = Auth(c, limit, ip)
      PROVE  Kept
  <2>1. Keeps(c, v) /\ (Thrifty(c) => Thrifty(v))
    BY <1>1, <1>7, KeepsAuth
  <2> QED
    BY <2>1, KeepsOnCreate
<1>8. ASSUME NEW ip \in Ip, NEW type \in Type, NEW dir \in {"up", "down"}, NEW len \in PktLen,
             v = umd_conn_handle(u, ip, type, dir, len)
      PROVE  Kept
  BY <1>8, KeepsPacket
<1> QED
  BY <1>2, <1>3, <1>4, <1>5, <1>6, <1>7, <1>8 DEF Outcome

\* Forgetting the events of a step.
LEMMA KeepsFresh ==
  ASSUME NEW u \in User
  PROVE  LET f == Fresh(u)
         IN  /\ Keeps(u, f) /\ (Thrifty(u) => Thrifty(f))
             /\ f.state = u.state /\ (\A t : Rested(u, t) <=> Rested(f, t))
<1> DEFINE f == Fresh(u)
<1>1. /\ f.state = u.state /\ f.noused = u.noused
      /\ f.faketime = u.faketime /\ f.uptime = u.uptime /\ f.limit = u.limit
      /\ f.flow = u.flow
  BY DEF Fresh, User
<1> HIDE DEF f
<1>2. Keeps(u, f) /\ (Thrifty(u) => Thrifty(f)) /\ (\A t : Rested(u, t) <=> Rested(f, t))
  BY <1>1 DEF Keeps, InTime, Rested, Thrifty
<1> QED
  BY <1>1, <1>2 DEF f

\* A step, of one user.
LEMMA NextKeeps ==
  ASSUME IInv, Next, NEW o \in Obj
  PROVE  \/ /\ Keeps(user[o], user'[o])
            /\ Thrifty(user[o]) /\ Counters = {} => Thrifty(user'[o])
         \/ \E dump \in Dumps : \E u : GoodUser(u) /\ user'[o] = Sync(u, dump)
<1> DEFINE u == user[o]
           f == Fresh(u)
           v == user'[o]
<1>0. now \in Nat /\ u \in User /\ GoodUser(f)
  BY FreshGood DEF IInv
<1>1. Keeps(u, f) /\ (Thrifty(u) => Thrifty(f))
  BY <1>0, KeepsFresh
<1>2. Outcome(f, v)
  BY NextOutcome
<1> HIDE DEF u, f, v
<1>3. CASE Keeps(f, v) /\ (Thrifty(f) /\ Counters = {} => Thrifty(v))
  <2>1. Keeps(u, v)
    BY <1>1, <1>3, KeepsTrans
  <2> QED
    BY <1>1, <1>3, <2>1 DEF u, v
<1>4. ASSUME NEW dump \in Dumps, v = Sync(Create(f), dump)
      PROVE  \E x : GoodUser(x) /\ v = Sync(x, dump)
  BY <1>0, <1>4, CreateGood
<1> QED
  BY <1>0, <1>2, <1>3, <1>4, OutcomeKeeps DEF v

\* Where the driver is not asked, no authenticated user has used more wan volume
\* than its limits allow, if the documents of peers tell of none that has.
THEOREM QuotaOfFlow ==
  ASSUME GoodDumps, Counters = {}, \A dump \in Dumps : Thrifty(dump)
  PROVE  Spec => []FlowQuota
<1> DEFINE Inv == \A o \in Obj : Thrifty(user[o])
<1>1. Init => Inv
  BY DEF Init, Absent, Thrifty
<1>2. IInv /\ Inv /\ [Next]_vars => Inv'
  <2>1. ASSUME IInv, Inv, Next, NEW o \in Obj PROVE Thrifty(user'[o])
    <3>1. ASSUME NEW dump \in Dumps, NEW u, GoodUser(u), user'[o] = Sync(u, dump)
          PROVE  Thrifty(user'[o])
      BY <3>1, KeepsSync
    <3> QED
      BY <2>1, <3>1, NextKeeps
  <2> QED
    BY <2>1 DEF vars
<1>3. Inv => FlowQuota
  BY DEF FlowQuota, Thrifty
<1> HIDE DEF Inv
<1> QED
  BY <1>1, <1>2, <1>3, Invariance, PTL DEF Spec

\* Division with remainder.
LEMMA DivMod == \A n \in Int, t \in Int : t > 0 => n = t * (n \div t) + (n % t)
BY SMT

\* The remainder is the only one.
LEMMA ModIs ==
  ASSUME NEW n \in Nat, NEW t \in Nat \ {0}, NEW q \in Int, NEW r \in 0 .. t - 1,
         n = t * q + r
  PROVE  n % t = r
OBVIOUS

\* Seconds count up to a run of the timer, and from 0 again.
LEMMA ModNext ==
  ASSUME NEW n \in Nat, NEW t \in Nat \ {0}
  PROVE  (n + 1) % t = IF (n % t) + 1 = t THEN 0 ELSE (n % t) + 1
<1> DEFINE q == n \div t
           r == n % t
           k == n + 1
<1>1. q \in Int /\ r \in 0 .. t - 1 /\ k \in Nat
  OBVIOUS
<1>2. n = t * q + r
  BY DivMod
<1>3. k = n + 1
  OBVIOUS
<1> HIDE DEF q, r, k
<1>4. CASE r + 1 = t
  <2>1. t * (q + 1) = t * q + t
    BY <1>1
  <2>2. k = t * (q + 1) + 0 /\ q + 1 \in Int /\ 0 \in 0 .. t - 1
    BY <1>1, <1>2, <1>3, <1>4, <2>1
  <2>3. k % t = 0
    BY <1>1, <2>2, ModIs
  <2> QED
    BY <1>4, <2>3 DEF r, k
<1>5. CASE r + 1 # t
  <2>1. k = t * q + (r + 1) /\ r + 1 \in 0 .. t - 1
    BY <1>1, <1>2, <1>3, <1>5
  <2>2. k % t = r + 1
    BY <1>1, <2>1, ModIs
  <2> QED
    BY <1>5, <2>2 DEF r, k
<1> QED
  BY <1>4, <1>5

\* What moves the clock, what takes an expiry, and what does neither.
LEMMA NextKinds ==
  ASSUME Next
  PROVE  \/ Tick
         \/ umd_user_timer
         \/ /\ UNCHANGED <<now, due>>
            /\ \A x \in Obj : lastBound'[x] =
                 IF IsBound(user[x]) \/ IsBound(user'[x]) THEN now ELSE lastBound[x]
<1> DEFINE Quiet ==
      /\ UNCHANGED <<now, due>>
      /\ \A x \in Obj : lastBound'[x] =
           IF IsBound(user[x]) \/ IsBound(user'[x]) THEN now ELSE lastBound[x]
<1>1. ASSUME NEW o \in Obj, NEW u, Serve(o, u) PROVE Quiet
  BY <1>1 DEF Serve, Handle, Become
<1>2. CASE umd_handle_gc
  BY <1>2 DEF umd_handle_gc, Become
<1>3. ASSUME NEW o \in Obj, Command(o) PROVE Quiet
  <2>1. PICK u : Serve(o, u)
    BY <1>3 DEF Command, umd_user_create, umd_user_associate, umd_user_delete,
       umd_user_block, umd_user_unblock, umd_user_bind, umd_user_unbind, umd_user_fake,
       umd_user_unfake, umd_user_auth, umd_user_deauth, umd_user_reauth,
       umd_user_sync
  <2> QED
    BY <1>1, <2>1
<1>4. ASSUME NEW o \in Obj, NEW ip \in Ip, NEW type \in Type, NEW dir \in {"up", "down"},
             NEW len \in PktLen, Packet(o, ip, type, dir, len)
      PROVE  Quiet
  <2>1. Serve(o, umd_conn_handle(It(o), ip, type, dir, len))
    BY <1>4 DEF Packet
  <2> QED
    BY <1>1, <2>1
<1>5. CASE Elsewhere
  BY <1>5 DEF Elsewhere, Become
<1> QED
  BY <1>2, <1>3, <1>4, <1>5 DEF Next

\* The last run of the timer.
LastRun == IF due THEN now - TICKS ELSE now - (now % TICKS)

TimeInv ==
  /\ due => now % TICKS = 0
  /\ \A o \in Obj : InTime(user[o], LastRun)

\* The clock leaves the last run where it was.
LEMMA TickLastRun ==
  ASSUME IInv, Tick
  PROVE  LastRun' = LastRun /\ (due' => now' % TICKS = 0)
<1>1. now \in Nat /\ TICKS \in Nat \ {0}
  BY UmdAssumption DEF IInv
<1>2. /\ ~due /\ now' = now + 1 /\ due' = ((now + 1) % TICKS = 0)
  BY DEF Tick
<1>3. (now + 1) % TICKS = IF (now % TICKS) + 1 = TICKS THEN 0 ELSE (now % TICKS) + 1
  BY <1>1, ModNext
<1>4. now % TICKS \in 0 .. TICKS - 1
  BY <1>1
<1> DEFINE r == now % TICKS
           s == now' % TICKS
<1>5. LastRun = now - r /\ s = (IF r + 1 = TICKS THEN 0 ELSE r + 1) /\ (due' <=> s = 0)
  BY <1>2, <1>3 DEF LastRun
<1>6. LastRun' = IF due' THEN now' - TICKS ELSE now' - s
  BY <1>2 DEF LastRun
<1>7. r \in 0 .. TICKS - 1
  BY <1>4
<1>8. due' => now' % TICKS = 0
  BY <1>5
<1> HIDE DEF r, s
<1>9. LastRun' = LastRun
  <2>1. CASE r + 1 = TICKS
    BY <1>1, <1>2, <1>5, <1>6, <1>7, <2>1
  <2>2. CASE r + 1 # TICKS
    BY <1>1, <1>2, <1>5, <1>6, <1>7, <2>2
  <2> QED
    BY <2>1, <2>2
<1> QED
  BY <1>8, <1>9

\* Within one run of the timer, no authenticated user outruns its time online
\* and no user on trial its trial, if the documents of peers tell of neither.
THEOREM QuotaOfTime ==
  ASSUME GoodDumps, \A dump \in Dumps : dump.state \notin {"auth", "fake"}
  PROVE  Spec => []TimeQuota
<1>1. Init => TimeInv
  BY DEF Init, Absent, TimeInv, InTime
<1>2. IInv /\ TimeInv /\ [Next]_vars => TimeInv'
  <2>0. ASSUME IInv PROVE now \in Nat /\ TICKS \in Nat \ {0} /\ LastRun \in Int /\ LastRun <= now
    <3>1. now \in Nat /\ TICKS \in Nat \ {0}
      BY <2>0, UmdAssumption DEF IInv
    <3>2. now % TICKS \in 0 .. TICKS - 1
      BY <3>1
    <3> QED
      BY <3>1, <3>2 DEF LastRun
  <2>1. ASSUME IInv, TimeInv, Next, NEW o \in Obj PROVE InTime(user'[o], LastRun)
    <3>1. ASSUME NEW dump \in Dumps, NEW u, GoodUser(u), user'[o] = Sync(u, dump)
          PROVE  InTime(user'[o], LastRun)
      BY <3>1, KeepsSync
    <3>2. ASSUME Keeps(user[o], user'[o]) PROVE InTime(user'[o], LastRun)
      BY <2>0, <2>1, <3>2 DEF Keeps, TimeInv
    <3> QED
      BY <2>1, <3>1, <3>2, NextKeeps
  <2>2. ASSUME IInv, TimeInv, Tick PROVE TimeInv'
    <3>1. LastRun' = LastRun /\ (due' => now' % TICKS = 0)
      BY <2>2, TickLastRun
    <3>2. \A o \in Obj : InTime(user'[o], LastRun)
      BY <2>1, <2>2 DEF Next
    <3> QED
      BY <3>1, <3>2 DEF TimeInv
  <2>3. ASSUME IInv, TimeInv, umd_user_timer PROVE TimeInv'
    <3>1. now' = now /\ due' = FALSE /\ now % TICKS = 0 /\ now \in Nat
      BY <2>3 DEF umd_user_timer, TimeInv, IInv
    <3>2. LastRun' = now
      BY <3>1 DEF LastRun
    <3>3. ASSUME NEW o \in Obj PROVE InTime(user'[o], now)
      <4>1. PICK counter \in [Obj -> Heard] :
              user'[o] = umduser_timer_handle(Fresh(user[o]), counter[o])
        BY <2>3 DEF umd_user_timer, Become
      <4>3. counter[o] \in Counters \cup {Unheard}
        BY DEF Heard
      <4>2. GoodUser(Fresh(user[o]))
        BY <2>3, FreshGood DEF IInv
      <4> QED
        BY <3>1, <4>1, <4>2, <4>3, KeepsTimer
    <3> QED
      BY <3>1, <3>2, <3>3 DEF TimeInv
  <2>4. ASSUME IInv, TimeInv, Next, UNCHANGED <<now, due>> PROVE TimeInv'
    <3>1. LastRun' = LastRun
      BY <2>4 DEF LastRun
    <3> QED
      BY <2>1, <2>4, <3>1 DEF TimeInv
  <2>5. ASSUME TimeInv, UNCHANGED vars PROVE TimeInv'
    BY <2>5 DEF vars, TimeInv, LastRun
  <2> QED
    BY <2>2, <2>3, <2>4, <2>5, NextKinds
<1>3. IInv /\ TimeInv => TimeQuota
  <2> SUFFICES ASSUME IInv, TimeInv, ~due, NEW o \in Obj
               PROVE  LET u == user[o]
                      IN  /\ u.state = "auth" /\ u.limit.max["wan"] # 0
                               => now - u.uptime["wan"] < u.limit.max["wan"] + TICKS
                          /\ u.state = "fake" /\ FAKE # 0 => now - u.faketime < FAKE + TICKS
    BY DEF TimeQuota
  <2> DEFINE u == user[o]
             r == now % TICKS
  <2>1. now \in Nat /\ TICKS \in Nat \ {0} /\ FAKE \in Nat
    BY UmdAssumption DEF IInv
  <2>2. r \in 0 .. TICKS - 1 /\ InTime(u, now - r)
    BY <2>1 DEF TimeInv, LastRun
  <2>3. u.limit.max["wan"] \in Nat /\ u.uptime["wan"] \in Nat /\ u.faketime \in Nat
    BY DEF IInv, User, Limit, Type
  <2> HIDE DEF r, u
  <2>4. /\ u.state = "auth" /\ u.limit.max["wan"] # 0
             => now - u.uptime["wan"] < u.limit.max["wan"] + TICKS
        /\ u.state = "fake" /\ FAKE # 0 => now - u.faketime < FAKE + TICKS
    BY <2>1, <2>2, <2>3 DEF InTime
  <2> QED
    BY <2>4 DEF u
<1> QED
  BY <1>1, <1>2, <1>3, Invariance, PTL DEF Spec

\* A user that is not bound is unused since it was.
RestInv == \A o \in Obj : lastBound[o] <= now /\ Rested(user[o], lastBound[o])

\* What the timer may make of a station that was bound at t.
NotEarly(u, v, t) ==
  u.state # "absent" /\ v.state = "absent" => now - t > GCUSER /\ u.state # "block"

\* The timer never collects a user that was bound in the last GCUSER seconds,
\* nor one that is bound or blocked, if peers tell of none that is unused.
THEOREM CollectsInTime ==
  ASSUME GoodDumps, \A dump \in Dumps : dump.state \notin {"none", "block"}
  PROVE  Spec => NotCollectedEarly
<1> DEFINE Late == due /\ ~due' => \A o \in Obj : NotEarly(user[o], user'[o], lastBound[o])
<1>1. Init => RestInv
  <2>1. Absent.state = "absent"
    BY DEF Absent
  <2> SUFFICES ASSUME Init, NEW o \in Obj
               PROVE  lastBound[o] <= now /\ Rested(user[o], lastBound[o])
    BY DEF RestInv
  <2>2. lastBound[o] = 0 /\ now = 0 /\ user[o] = Absent
    BY DEF Init
  <2> QED
    BY <2>1, <2>2 DEF Rested
<1>2. IInv /\ RestInv /\ [Next]_vars => RestInv'
  <2>1. ASSUME IInv, Next, NEW o \in Obj, NEW t \in Int, t <= now, Rested(user[o], t)
        PROVE  Rested(user'[o], t)
    <3>1. ASSUME NEW dump \in Dumps, NEW u, GoodUser(u), user'[o] = Sync(u, dump)
          PROVE  Rested(user'[o], t)
      BY <3>1, KeepsSync
    <3>2. ASSUME Keeps(user[o], user'[o]) PROVE Rested(user'[o], t)
      BY <2>1, <3>2 DEF Keeps
    <3> QED
      BY <2>1, <3>1, <3>2, NextKeeps
  <2>2. ASSUME IInv, RestInv, Tick PROVE RestInv'
    <3>1. now \in Nat /\ now' = now + 1 /\ lastBound' = lastBound /\ lastBound \in [Obj -> Nat]
      BY <2>2 DEF Tick, IInv
    <3>2. \A o \in Obj : Rested(user'[o], lastBound[o])
      BY <2>1, <2>2, <3>1 DEF RestInv, Next
    <3> QED
      BY <2>2, <3>1, <3>2 DEF RestInv
  <2>3. ASSUME IInv, RestInv, Next, now' = now, NEW o \in Obj,
               lastBound'[o] = IF IsBound(user[o]) \/ IsBound(user'[o]) THEN now ELSE lastBound[o]
        PROVE  lastBound'[o] <= now' /\ Rested(user'[o], lastBound'[o])
    <3>1. now \in Nat /\ lastBound[o] \in Nat /\ lastBound[o] <= now
      BY <2>3 DEF IInv, RestInv
    <3>2. CASE IsBound(user'[o])
      BY <2>3, <3>1, <3>2 DEF Rested, IsBound, Bound
    <3>3. CASE IsBound(user[o]) /\ ~IsBound(user'[o])
      <4>1. Rested(user[o], now)
        BY <3>3 DEF Rested, IsBound, Bound
      <4>2. Rested(user'[o], now)
        BY <2>1, <2>3, <3>1, <4>1
      <4> QED
        BY <2>3, <3>1, <3>3, <4>2
    <3>4. CASE ~IsBound(user[o]) /\ ~IsBound(user'[o])
      <4>1. Rested(user'[o], lastBound[o])
        BY <2>1, <2>3, <3>1 DEF RestInv
      <4> QED
        BY <2>3, <3>1, <3>4, <4>1
    <3> QED
      BY <3>2, <3>3, <3>4
  <2>4. ASSUME IInv, RestInv, umd_user_timer PROVE RestInv'
    <3>1. /\ Next /\ now' = now
          /\ \A o \in Obj : lastBound'[o] =
               IF IsBound(user[o]) \/ IsBound(user'[o]) THEN now ELSE lastBound[o]
      BY <2>4 DEF umd_user_timer, Become, Next
    <3> QED
      BY <2>3, <2>4, <3>1 DEF RestInv
  <2>5. ASSUME RestInv, UNCHANGED vars PROVE RestInv'
    BY <2>5 DEF vars, RestInv
  <2>6. ASSUME IInv, RestInv, Next, UNCHANGED <<now, due>>,
               \A o \in Obj : lastBound'[o] =
                 IF IsBound(user[o]) \/ IsBound(user'[o]) THEN now ELSE lastBound[o]
        PROVE  RestInv'
    BY <2>3, <2>6 DEF RestInv
  <2> QED
    BY <2>2, <2>4, <2>5, <2>6, NextKinds
<1>3. IInv /\ RestInv /\ [Next]_vars => [Late]_vars
  <2> SUFFICES ASSUME IInv, RestInv, Next, due, ~due', NEW o \in Obj
               PROVE  NotEarly(user[o], user'[o], lastBound[o])
    OBVIOUS
  <2>1. umd_user_timer
    BY NextKinds DEF Tick
  <2> DEFINE f == Fresh(user[o])
  <2>5. PICK counter \in [Obj -> Heard] : user'[o] = umduser_timer_handle(f, counter[o])
    BY <2>1 DEF umd_user_timer, Become
  <2>2. /\ counter[o] \in Counters \cup {Unheard}
        /\ now \in Nat /\ user[o] \in User /\ GoodUser(f)
    BY <2>1, FreshGood DEF Heard, IInv
  <2>3. Collected(f, user'[o])
    BY <2>2, <2>5, KeepsTimer
  <2>4. f.state = user[o].state /\ Rested(f, lastBound[o]) /\ lastBound[o] \in Int
        /\ lastBound[o] <= now
    BY <2>2, KeepsFresh DEF RestInv, IInv
  <2> HIDE DEF f
  <2> QED
    BY <2>3, <2>4 DEF Collected, NotEarly
<1>4. Spec => [][Late]_vars
  BY <1>1, <1>2, <1>3, Invariance, PTL DEF Spec
<1> QED
  BY <1>4 DEF NotCollectedEarly, NotEarly, Present

(***************************************************************************)
(* What scripts are told: each operator that reports leads the user where  *)
(* its events say, in its state and in its address.  b is the user before  *)
(* the step.                                                               *)
(***************************************************************************)

Followed(b, u) ==
  /\ u.log \in Seq(Event)
  /\ Told(b.state, u.log, u.state)
  /\ Addressed(b.ip, u.log, u.ip)

Tells(u, v) == \A b : Followed(b, u) => Followed(b, v)

\* One operator after the other, or none.
LEMMA TellsTrans == \A u, v, w : Tells(u, v) /\ Tells(v, w) => Tells(u, w)
BY DEF Tells

\* No operator at all.
LEMMA TellsRefl == \A u : Tells(u, u)
BY DEF Tells

\* Neither an event nor another state or address.
LEMMA TellsQuiet ==
  \A u, v : v.log = u.log /\ v.state = u.state /\ v.ip = u.ip => Tells(u, v)
BY DEF Tells, Followed

\* One more event, in a state it can come in, that leads to the next state.
LEMMA ToldMore ==
  ASSUME NEW s, NEW l \in Seq(Event), NEW state, Told(s, l, state),
         NEW e \in Event, state \in From(e.action),
         e.state = IF e.action \in Early THEN state ELSE To(e)
  PROVE  Told(s, Append(l, e), To(e))
<1> DEFINE k == Append(l, e)
           atu(i) == IF i = 0 THEN s ELSE To(l[i])
           atv(i) == IF i = 0 THEN s ELSE To(k[i])
           n == Len(l)
<1>1. /\ n \in Nat
      /\ state = atu(n)
      /\ \A i \in 1 .. n :
           /\ atu(i - 1) \in From(l[i].action)
           /\ l[i].state = IF l[i].action \in Early THEN atu(i - 1) ELSE atu(i)
  BY DEF Told
<1>2. /\ Len(k) = n + 1 /\ k[n + 1] = e
      /\ \A i \in 1 .. n : k[i] = l[i]
  OBVIOUS
<1> HIDE DEF k, n
<1>3. \A i \in 0 .. n : atv(i) = atu(i)
  BY <1>1, <1>2
<1>4. atv(n) = state /\ atv(n + 1) = To(e) /\ n + 1 # 0
  BY <1>1, <1>2, <1>3
<1> HIDE DEF atu, atv
<1>5. ASSUME NEW i \in 1 .. (n + 1)
      PROVE  /\ atv(i - 1) \in From(k[i].action)
             /\ k[i].state = IF k[i].action \in Early THEN atv(i - 1) ELSE atv(i)
  <2>1. CASE i = n + 1
    <3>1. i - 1 = n
      BY <1>1, <2>1
    <3> QED
      BY <1>2, <1>4, <2>1, <3>1
  <2>2. CASE i # n + 1
    <3>1. i \in 1 .. n /\ i \in 0 .. n /\ i - 1 \in 0 .. n
      BY <1>1, <2>2
    <3>2. atv(i) = atu(i) /\ atv(i - 1) = atu(i - 1) /\ k[i] = l[i]
      BY <1>2, <1>3, <3>1
    <3> QED
      BY <1>1, <3>1, <3>2
  <2> QED
    BY <2>1, <2>2
<1>6. To(e) = atv(Len(k))
  BY <1>2, <1>4
<1> QED
  BY <1>2, <1>5, <1>6 DEF Told, atv, k

\* One more event, that carries the address or gives one.
LEMMA AddressedMore ==
  ASSUME NEW s, NEW l \in Seq(Event), NEW ip, Addressed(s, l, ip),
         NEW e \in Event, e.action \notin Gives => e.ip = ip
  PROVE  Addressed(s, Append(l, e), IF e.action \in Takes THEN NoIp ELSE e.ip)
<1> DEFINE k == Append(l, e)
           atu(i) == IF i = 0 THEN s
                     ELSE IF l[i].action \in Takes THEN NoIp ELSE l[i].ip
           atv(i) == IF i = 0 THEN s
                     ELSE IF k[i].action \in Takes THEN NoIp ELSE k[i].ip
           n == Len(l)
           next == IF e.action \in Takes THEN NoIp ELSE e.ip
<1>1. /\ n \in Nat
      /\ ip = atu(n)
      /\ \A i \in 1 .. n : l[i].action \notin Gives => l[i].ip = atu(i - 1)
  BY DEF Addressed
<1>2. /\ Len(k) = n + 1 /\ k[n + 1] = e
      /\ \A i \in 1 .. n : k[i] = l[i]
  OBVIOUS
<1> HIDE DEF k, n
<1>3. \A i \in 0 .. n : atv(i) = atu(i)
  BY <1>1, <1>2
<1>4. atv(n) = ip /\ atv(n + 1) = next /\ n + 1 # 0
  BY <1>1, <1>2, <1>3
<1> HIDE DEF atu, atv, next
<1>5. ASSUME NEW i \in 1 .. (n + 1), k[i].action \notin Gives
      PROVE  k[i].ip = atv(i - 1)
  <2>1. CASE i = n + 1
    <3>1. i - 1 = n
      BY <1>1, <2>1
    <3> QED
      BY <1>2, <1>4, <1>5, <2>1, <3>1
  <2>2. CASE i # n + 1
    <3>1. i \in 1 .. n /\ i - 1 \in 0 .. n
      BY <1>1, <2>2
    <3>2. atv(i - 1) = atu(i - 1) /\ k[i] = l[i]
      BY <1>2, <1>3, <3>1
    <3> QED
      BY <1>1, <1>5, <3>1, <3>2
  <2> QED
    BY <2>1, <2>2
<1>6. next = atv(Len(k))
  BY <1>2, <1>4
<1> QED
  BY <1>2, <1>5, <1>6 DEF Addressed, atv, k, next

\* Both.
LEMMA TellsEvent ==
  ASSUME NEW u, NEW v, NEW e \in Event, v.log = Append(u.log, e),
         u.state \in From(e.action), v.state = To(e),
         e.state = IF e.action \in Early THEN u.state ELSE v.state,
         e.action \notin Gives => e.ip = u.ip,
         v.ip = IF e.action \in Takes THEN NoIp ELSE e.ip
  PROVE  Tells(u, v)
<1> SUFFICES ASSUME NEW b, Followed(b, u) PROVE Followed(b, v)
  BY DEF Tells
<1>1. u.log \in Seq(Event) /\ Told(b.state, u.log, u.state) /\ Addressed(b.ip, u.log, u.ip)
  BY DEF Followed
<1>2. Append(u.log, e) \in Seq(Event)
  BY <1>1
<1>3. Told(b.state, Append(u.log, e), To(e))
  BY <1>1, ToldMore
<1>4. Addressed(b.ip, Append(u.log, e), IF e.action \in Takes THEN NoIp ELSE e.ip)
  BY <1>1, AddressedMore
<1> QED
  BY <1>2, <1>3, <1>4 DEF Followed

\* The event Report appends.
LEMMA ReportEvent ==
  ASSUME NEW u \in User, NEW action \in Action
  PROVE  LET e == [action |-> action, state |-> u.state, ip |-> u.ip]
         IN  e \in Event /\ Report(u, action).log = Append(u.log, e)
BY DEF Report, Event, User

\* An event reported once the user has its new state.
LEMMA TellsLate ==
  ASSUME NEW u, NEW w \in User, w.log = u.log, NEW action \in Action,
         action \notin Early, u.state \in From(action),
         action \in {"create", "unblock"} => w.state = "none",
         action = "bind" => w.state = "bind",
         action \in {"fake", "auth"} => w.state = action,
         action \notin Gives => w.ip = u.ip
  PROVE  Tells(u, Report(w, action))
<1> DEFINE e == [action |-> action, state |-> w.state, ip |-> w.ip]
           v == Report(w, action)
<1>1. e \in Event /\ v.log = Append(u.log, e) /\ v.state = w.state
  BY ReportEvent, ReportKeeps
<1>4. v.ip = w.ip /\ action \notin Takes
  BY DEF Report, User, Early, Takes
<1>2. To(e) = w.state
  BY DEF To, Action, Early
<1>3. e.action = action /\ e.state = w.state /\ e.ip = w.ip
  OBVIOUS
<1> HIDE DEF e, v
<1>5. Tells(u, v)
  BY <1>1, <1>2, <1>3, <1>4, TellsEvent
<1> QED
  BY <1>5 DEF v

\* An event reported before the user gets its new state.
LEMMA TellsEarly ==
  ASSUME NEW u, NEW w \in User, w.log = u.log, w.state = u.state, w.ip = u.ip,
         NEW action \in Early, u.state \in From(action),
         NEW v, v.log = Report(w, action).log,
         action = "unbind" => v.state = "none",
         action \in {"deauth", "unfake"} => v.state = "bind",
         action = "block" => v.state = "block",
         action = "delete" => v.state = "absent",
         v.ip = IF action \in Takes THEN NoIp ELSE u.ip
  PROVE  Tells(u, v)
<1> DEFINE e == [action |-> action, state |-> w.state, ip |-> w.ip]
<1>0. action \in Action
  BY DEF Early, Action
<1>1. e \in Event /\ v.log = Append(u.log, e)
  BY <1>0, ReportEvent
<1>2. To(e) = v.state
  BY DEF To, Early
<1>3. e.action = action /\ e.state = u.state /\ e.ip = u.ip
  OBVIOUS
<1> HIDE DEF e
<1> QED
  BY <1>1, <1>2, <1>3, TellsEvent

\* lan online is not an event.
LEMMA LanOnlineLog == ASSUME NEW u \in User PROVE LanOnline(u).log = u.log
BY DEF LanOnline, User

\* user_create
LEMMA TellsCreate ==
  ASSUME now \in Nat, NEW u, GoodUser(u)
  PROVE  Tells(u, Create(u)) /\ Create(u).state # "absent"
<1> DEFINE a == [Absent EXCEPT !.state = "none", !.log = u.log]
           b == [LanOnline(a) EXCEPT !.noused = now]
<1>1. CASE u.state # "absent"
  BY <1>1, TellsRefl DEF Create
<1>2. CASE u.state = "absent"
  <2>1. Absent \in User /\ u.log \in Seq(Event) /\ u.ip = NoIp
    BY <1>2, AbsentGood DEF GoodUser, User, IpWhileBound, IsBound, Bound
  <2>2. a \in User /\ a.state = "none" /\ a.log = u.log /\ a.ip = NoIp
    BY <2>1 DEF User, State, Absent
  <2> HIDE DEF a
  <2>3. /\ LanOnline(a) \in User /\ LanOnline(a).state = "none"
        /\ LanOnline(a).log = u.log /\ LanOnline(a).ip = NoIp
    BY <2>2, LanOnlineKeeps, LanOnlineLog
  <2>4. b \in User /\ b.state = "none" /\ b.log = u.log /\ b.ip = u.ip
    BY <2>1, <2>3 DEF User
  <2> HIDE DEF b
  <2>5. Create(u) = Report(b, "create")
    BY <1>2 DEF Create, a, b
  <2>6. "create" \in Action /\ "create" \notin Early /\ u.state \in From("create")
    BY <1>2 DEF Action, Early, From
  <2>7. Tells(u, Report(b, "create"))
    BY <2>4, <2>6, TellsLate
  <2> QED
    BY <2>4, <2>5, <2>6, <2>7, ReportKeeps
<1> QED
  BY <1>1, <1>2

\* user_delete
LEMMA TellsDelete ==
  ASSUME NEW u, GoodUser(u)
  PROVE  Tells(u, Delete(u))
<1>1. u \in User /\ "delete" \in Early /\ u.state \in From("delete")
  BY DEF GoodUser, User, Early, From
<1>2. /\ Delete(u).log = Report(u, "delete").log /\ Delete(u).state = "absent"
      /\ Delete(u).ip = NoIp /\ "delete" \in Takes
  BY DEF Delete, Absent, Takes
<1> QED
  BY <1>1, <1>2, TellsEarly

\* From one bound state to bind.
LEMMA TellsDemote ==
  ASSUME NEW u \in User, NEW reason \in Reason, NEW action \in {"deauth", "unfake"},
         u.state \in From(action)
  PROVE  Tells(u, [Report([u EXCEPT !.reason = reason], action) EXCEPT !.state = "bind"])
<1> DEFINE a == [u EXCEPT !.reason = reason]
           b == Report(a, action)
           v == [b EXCEPT !.state = "bind"]
<1>1. /\ a \in User /\ a.log = u.log /\ a.state = u.state /\ a.ip = u.ip
      /\ action \in Early /\ action \in Action /\ action \notin Takes
  BY DEF User, Early, Action, Takes
<1> HIDE DEF a
<1>2. b \in User /\ b.ip = u.ip
  BY <1>1, ReportKeeps DEF Report, User
<1> HIDE DEF b
<1>3. v.log = b.log /\ v.state = "bind" /\ v.ip = u.ip
  BY <1>2 DEF User
<1> HIDE DEF v
<1>4. Tells(u, v)
  BY <1>1, <1>3, TellsEarly DEF b
<1> QED
  BY <1>4 DEF v, b, a

\* user_deauth
LEMMA TellsDeauth ==
  ASSUME NEW u \in User, NEW reason \in Reason
  PROVE  Tells(u, Deauth(u, reason))
<1>1. u.state = "auth" => u.state \in From("deauth")
  BY DEF From
<1> QED
  BY <1>1, TellsDemote, TellsRefl DEF Deauth

\* user_unfake
LEMMA TellsUnfake ==
  ASSUME NEW u \in User, NEW reason \in Reason
  PROVE  Tells(u, Unfake(u, reason))
<1>1. u.state = "fake" => u.state \in From("unfake")
  BY DEF From
<1> QED
  BY <1>1, TellsDemote, TellsRefl DEF Unfake

\* user_unbind
LEMMA TellsUnbind ==
  ASSUME now \in Nat, NEW u, Unaged(u), NEW reason \in Reason
  PROVE  /\ Tells(u, Unbind(u, reason))
         /\ IsBound(u) => Unbind(u, reason).state = "none"
<1> DEFINE d == Deauth(u, reason)
           v == Unfake(d, reason)
           a == [v EXCEPT !.reason = reason]
           b == Report(a, "unbind")
           c == [b EXCEPT !.ip = NoIp, !.state = "none"]
           e == LanOffline(c)
<1>1. d \in User /\ Unaged(d) /\ Tells(u, d) /\ u \in User
  BY DeauthGood, TellsDeauth DEF Unaged
<1>2. IsBound(u) => d.state \in {"bind", "fake"}
  <2>1. u.state = "auth" => d.state = "bind"
    BY <1>1 DEF Deauth, Report, User
  <2>2. u.state # "auth" => d = u
    BY DEF Deauth
  <2> QED
    BY <2>1, <2>2 DEF IsBound, Bound
<1> HIDE DEF d
<1>3. v \in User /\ Tells(d, v)
  BY <1>1, UnfakeGood, TellsUnfake DEF Unaged
<1>4. IsBound(u) => v.state = "bind"
  <2>1. d.state = "fake" => v.state = "bind"
    BY <1>1 DEF Unfake, Report, User
  <2>2. d.state # "fake" => v = d
    BY DEF Unfake
  <2> QED
    BY <1>2, <2>1, <2>2
<1> HIDE DEF v
<1>5. Tells(u, v)
  BY <1>1, <1>3, TellsTrans
<1>6. CASE v.state # "bind"
  BY <1>4, <1>5, <1>6 DEF Unbind, d, v
<1>7. CASE v.state = "bind"
  <2>1. /\ a \in User /\ a.log = v.log /\ a.state = v.state /\ a.ip = v.ip
        /\ "unbind" \in Early /\ "unbind" \in Action /\ v.state \in From("unbind")
        /\ "unbind" \in Takes
    BY <1>3, <1>7 DEF User, Early, Action, From, Takes
  <2> HIDE DEF a
  <2>2. b \in User
    BY <2>1, ReportKeeps
  <2> HIDE DEF b
  <2>3. c \in User /\ c.log = b.log /\ c.state = "none" /\ c.ip = NoIp
    BY <2>2 DEF User, State, Address
  <2> HIDE DEF c
  <2>4. e.log = b.log /\ e.state = "none" /\ e.ip = NoIp
    BY <2>3 DEF LanOffline, User
  <2> HIDE DEF e
  <2>5. Tells(v, e)
    BY <2>1, <2>4, TellsEarly DEF b
  <2>6. Unbind(u, reason) = e
    BY <1>7 DEF Unbind, d, v, a, b, c, e
  <2> QED
    BY <1>5, <2>4, <2>5, <2>6, TellsTrans
<1> QED
  BY <1>6, <1>7

\* user_block
LEMMA TellsBlock ==
  ASSUME now \in Nat, NEW u, GoodUser(u)
  PROVE  Tells(u, Block(u))
<1> DEFINE v == Unbind(u, "block")
           a == [v EXCEPT !.reason = "block"]
           b == Report(a, "block")
           c == [b EXCEPT !.state = "block"]
<1>0. /\ "block" \in Reason /\ "block" \in Action /\ "block" \in Early
      /\ "block" \notin Takes
  BY DEF Reason, Action, Early, Takes
<1>1. Tells(u, v) /\ v \in User
  BY <1>0, TellsUnbind, UnbindGood, GoodIsUnaged DEF GoodUser
<1> HIDE DEF v
<1>2. CASE v.state # "none"
  BY <1>1, <1>2 DEF Block, v
<1>3. CASE v.state = "none"
  <2>1. /\ a \in User /\ a.log = v.log /\ a.state = v.state /\ a.ip = v.ip
        /\ v.state \in From("block")
    BY <1>0, <1>1, <1>3 DEF User, From
  <2> HIDE DEF a
  <2>2. b \in User /\ b.ip = v.ip
    BY <1>0, <2>1, ReportKeeps DEF Report, User
  <2> HIDE DEF b
  <2>3. c.log = b.log /\ c.state = "block" /\ c.ip = v.ip
    BY <2>2 DEF User
  <2> HIDE DEF c
  <2>4. Tells(v, c)
    BY <1>0, <2>1, <2>3, TellsEarly DEF b
  <2>5. Block(u) = c
    BY <1>3 DEF Block, v, a, b, c
  <2> QED
    BY <1>1, <2>4, <2>5, TellsTrans
<1> QED
  BY <1>2, <1>3

\* user_unblock
LEMMA TellsUnblock ==
  ASSUME NEW u, GoodUser(u)
  PROVE  Tells(u, Unblock(u))
<1> DEFINE a == [u EXCEPT !.state = "none"]
<1>1. CASE u.state # "block"
  BY <1>1, TellsRefl DEF Unblock
<1>2. CASE u.state = "block"
  <2>1. a \in User /\ a.state = "none" /\ a.log = u.log /\ a.ip = u.ip
    BY DEF GoodUser, User, State
  <2>2. /\ "unblock" \in Action /\ "unblock" \notin Early /\ u.state \in From("unblock")
    BY <1>2 DEF Action, Early, From
  <2> HIDE DEF a
  <2>3. Tells(u, Report(a, "unblock"))
    BY <2>1, <2>2, TellsLate
  <2> QED
    BY <1>2, <2>3 DEF Unblock, a
<1> QED
  BY <1>1, <1>2

\* The release of a user who comes with another address.
LEMMA TellsRelease ==
  ASSUME now \in Nat, NEW u, GoodUser(u), NEW ip
  PROVE  /\ Tells(u, Release(u, ip))
         /\ IsBound(Release(u, ip)) \/ Release(u, ip).state \in {u.state, "none"}
<1>1. "auto" \in Reason
  BY DEF Reason
<1>2. Tells(u, Unbind(u, "auto")) /\ (IsBound(u) => Unbind(u, "auto").state = "none")
  BY <1>1, TellsUnbind, GoodIsUnaged
<1> QED
  BY <1>2, TellsRefl DEF Release

\* What EnterGood says, of events and the address.
LEMMA EnterQuiet ==
  ASSUME now \in Nat, NEW u \in User, NEW ip \in Address, NEW state \in Bound
  PROVE  LET v == UpdateAging(LanOnline([u EXCEPT !.ip = ip, !.state = state]))
         IN  v.log = u.log /\ v.ip = ip
<1> DEFINE a == [u EXCEPT !.ip = ip, !.state = state]
           b == LanOnline(a)
<1>1. a \in User /\ a.log = u.log /\ a.ip = ip
  BY DEF User, State, Bound
<1> HIDE DEF a
<1>2. b \in User /\ b.log = a.log /\ b.ip = ip
  BY <1>1, LanOnlineLog, LanOnlineKeeps
<1> HIDE DEF b
<1>3. UpdateAging(b).log = b.log /\ UpdateAging(b).ip = b.ip
  BY <1>2 DEF UpdateAging, User
<1> QED
  BY <1>1, <1>2, <1>3 DEF a, b

\* user_bind
LEMMA TellsBind ==
  ASSUME now \in Nat, NEW u, GoodUser(u), NEW ip \in Address
  PROVE  Tells(u, Bind(u, ip))
<1> DEFINE v == Release(u, ip)
           w == UpdateAging(LanOnline([v EXCEPT !.ip = ip, !.state = "bind"]))
<1>1. v \in User /\ Tells(u, v)
  BY ReleaseGood, TellsRelease DEF GoodUser
<1> HIDE DEF v
<1>2. w \in User /\ w.state = "bind" /\ w.log = v.log
  BY <1>1, EnterGood, EnterQuiet DEF Bound, GoodUser
<1> HIDE DEF w
<1>3. /\ "bind" \in Action /\ "bind" \notin Early /\ "bind" \in Gives
      /\ v.state = "none" => v.state \in From("bind")
  BY DEF Action, Early, From, Gives
<1>4. v.state = "none" => Tells(v, Report(w, "bind"))
  BY <1>2, <1>3, TellsLate
<1>5. Bind(u, ip) = IF v.state # "none" THEN v ELSE Report(w, "bind")
  BY DEF Bind, v, w
<1> QED
  BY <1>1, <1>4, <1>5, TellsTrans

\* user_fake, of a user that has been created
LEMMA TellsFake ==
  ASSUME now \in Nat, NEW u, GoodUser(u), u.state # "absent", NEW ip \in Address
  PROVE  Tells(u, Fake(u, ip))
<1> DEFINE v == Release(u, ip)
           w == UpdateAging(LanOnline([v EXCEPT !.ip = ip, !.state = "fake"]))
           x == [w EXCEPT !.faketime = now]
           out == u.state # "block" /\ ~IsBound(v)
<1>1. v \in User /\ Tells(u, v) /\ u.state \in State
  BY ReleaseGood, TellsRelease DEF GoodUser, User
<1>2. out => v.state = "none"
  BY <1>1, TellsRelease DEF State, IsBound
<1> HIDE DEF v
<1>3. w \in User /\ w.state = "fake" /\ w.log = v.log
  BY <1>1, EnterGood, EnterQuiet DEF Bound, GoodUser
<1> HIDE DEF w
<1>4. x \in User /\ x.state = "fake" /\ x.log = v.log
  BY <1>3 DEF User
<1> HIDE DEF x
<1>5. /\ "fake" \in Action /\ "fake" \notin Early /\ "fake" \in Gives
      /\ v.state = "none" => v.state \in From("fake")
  BY DEF Action, Early, From, Gives
<1>6. v.state = "none" => Tells(v, Report(x, "fake"))
  BY <1>4, <1>5, TellsLate
<1>7. Fake(u, ip) = IF ~out THEN v ELSE Report(x, "fake")
  BY DEF Fake, v, w, x
<1> QED
  BY <1>1, <1>2, <1>6, <1>7, TellsTrans

\* user_reauth
LEMMA TellsReauth ==
  ASSUME NEW u, GoodUser(u)
  PROVE  Tells(u, Reauth(u))
<1>1. /\ u \in User /\ "reauth" \in Action /\ "reauth" \notin Early
      /\ u.state = "auth" => u.state \in From("reauth")
  BY DEF GoodUser, Action, Early, From
<1>2. u.state = "auth" => Tells(u, Report(u, "reauth"))
  BY <1>1, TellsLate
<1> QED
  BY <1>2, TellsRefl DEF Reauth

\* user_auth
LEMMA TellsAuth ==
  ASSUME now \in Nat, NEW u, GoodUser(u), NEW limit \in Limits, NEW ip \in Address \cup {Nothing}
  PROVE  Tells(u, Auth(u, limit, ip))
<1> DEFINE v == IF u.state = "none" /\ ip # Nothing THEN Bind(u, ip) ELSE u
           a == [v EXCEPT !.state = "auth", !.reason = "none", !.limit = limit]
           b == WanOnline(a)
           w == UpdateAging(b)
<1>1. GoodUser(v) /\ Tells(u, v)
  <2>1. CASE ip \in Address
    BY <2>1, BindGood, TellsBind, TellsRefl
  <2>2. CASE ip = Nothing
    BY <2>2, TellsRefl
  <2> QED
    BY <2>1, <2>2
<1> HIDE DEF v
<1>2. CASE ~IsBound(v)
  BY <1>1, <1>2 DEF Auth, v
<1>3. CASE IsBound(v)
  <2>1. /\ a \in User /\ a.state = "auth" /\ a.ip = v.ip /\ a.flow = v.flow
        /\ a.log = v.log
    BY <1>1, UmdAssumption DEF GoodUser, User, State, Bound, Reason
  <2>2. Unaged(a)
    BY <1>1, <1>3, <2>1 DEF GoodUser, Unaged, IpWhileBound, IsBound, Bound
  <2> HIDE DEF a
  <2>3. Unaged(b)
    BY <2>2, WanOnlineKeeps
  <2>4. b.state = "auth" /\ b.log = v.log /\ b.ip = v.ip
    BY <2>1 DEF WanOnline, User
  <2> HIDE DEF b
  <2>5. w \in User /\ w.state = "auth"
    BY <2>3, <2>4, UpdateAgingGood DEF GoodUser
  <2>6. w.log = v.log /\ w.ip = v.ip
    BY <2>3, <2>4 DEF UpdateAging, Unaged, User
  <2> HIDE DEF w
  <2>7. "auth" \in Action /\ "auth" \notin Early /\ v.state \in From("auth")
    BY <1>3 DEF Action, Early, From, IsBound
  <2>8. Tells(v, Report(w, "auth"))
    BY <2>5, <2>6, <2>7, TellsLate
  <2>9. Auth(u, limit, ip) = Report(w, "auth")
    BY <1>3 DEF Auth, v, a, b, w
  <2> QED
    BY <1>1, <2>8, <2>9, TellsTrans
<1> QED
  BY <1>2, <1>3

\* A document of a peer: the event carries the state it brings.
LEMMA TellsSync ==
  ASSUME NEW u, GoodUser(u), NEW dump \in Dumps
  PROVE  Tells(u, Sync(u, dump))
<1> DEFINE a == [dump EXCEPT !.faketime = u.faketime, !.log = u.log]
<1>1. dump \in User /\ u.log \in Seq(Event) /\ u.faketime \in Nat /\ u.state \in State
  BY UmdAssumption DEF GoodUser, User
<1>2. a \in User /\ a.log = u.log
  BY <1>1 DEF User
<1> HIDE DEF a
<1>3. /\ "sync" \in Action /\ "sync" \notin Early /\ u.state \in From("sync")
      /\ "sync" \in Gives
  BY <1>1 DEF Action, Early, From, Gives
<1>4. Tells(u, Report(a, "sync"))
  BY <1>2, <1>3, TellsLate
<1> QED
  BY <1>4 DEF Sync, a

\* However a user is led out by its volume, scripts are told.
LEMMA TellsOverflow ==
  ASSUME now \in Nat, NEW u, GoodUser(u), NEW type, NEW dir
  PROVE  Tells(u, Overflow(u, type, dir))
<1> DEFINE v == IF type = "wan" /\ Exceeds(u, u.limit.flowmax, type, dir)
                THEN Deauth(u, "flowlimit") ELSE u
<1>0. "flowlimit" \in Reason /\ u \in User
  BY DEF Reason, GoodUser
<1>1. GoodUser(v) /\ Tells(u, v)
  BY <1>0, DeauthGood, GoodIsUnaged, TellsDeauth, TellsRefl
<1> HIDE DEF v
<1>2. Tells(v, Unbind(v, "flowlimit"))
  BY <1>0, <1>1, TellsUnbind, GoodIsUnaged
<1>3. Tells(u, Unbind(v, "flowlimit"))
  BY <1>1, <1>2, TellsTrans
<1> QED
  BY <1>1, <1>3 DEF Overflow, v

\* umd_conn_handle
LEMMA TellsPacket ==
  ASSUME now \in Nat, NEW u, GoodUser(u), NEW ip \in Ip, NEW type \in Type,
         NEW dir \in {"up", "down"}, NEW len \in PktLen
  PROVE  Tells(u, umd_conn_handle(u, ip, type, dir, len))
<1> DEFINE c == Create(u)
           v == AutoUser(u, ip)
           f == FlowUpdate(v, type, dir, len)
           g == FlowReauth(f, type, dir)
           h == Overflow(g, type, dir)
           w == UpdateAging(h)
<1>0. ip \in Address
  BY DEF Address
<1>1. GoodUser(c) /\ Tells(u, c) /\ c.state # "absent"
  BY CreateGood, TellsCreate
<1>2. GoodUser(v) /\ Tells(u, v)
  <2> HIDE DEF c
  <2>1. /\ GoodUser(Fake(c, ip)) /\ Tells(c, Fake(c, ip))
        /\ GoodUser(Bind(c, ip)) /\ Tells(c, Bind(c, ip))
    BY <1>0, <1>1, FakeGood, BindGood, TellsFake, TellsBind
  <2>2. Tells(u, Fake(c, ip)) /\ Tells(u, Bind(c, ip))
    BY <1>1, <2>1, TellsTrans
  <2> QED
    BY <2>1, <2>2, TellsRefl DEF AutoUser, c
<1> HIDE DEF c, v
<1>3. GoodUser(f) /\ f.log = v.log /\ f.state = v.state /\ f.ip = v.ip
  <2>1. GoodUser(f)
    BY <1>2, FlowUpdateGood
  <2>2. \E flow : f = [v EXCEPT !.flow = flow]
    BY DEF FlowUpdate
  <2>3. f.log = v.log /\ f.state = v.state /\ f.ip = v.ip
    <3> HIDE DEF f
    <3> QED
      BY <1>2, <2>2 DEF GoodUser, User
  <2> QED
    BY <2>1, <2>3
<1> HIDE DEF f
<1>4. GoodUser(g) /\ Tells(f, g)
  BY <1>3, ReauthGood, TellsReauth, TellsRefl DEF FlowReauth
<1> HIDE DEF g
<1>5. h \in User /\ Tells(g, h)
  BY <1>4, OverflowGood, TellsOverflow DEF GoodUser
<1> HIDE DEF h
<1>6. w.log = h.log /\ w.state = h.state /\ w.ip = h.ip
  BY <1>5 DEF UpdateAging, User
<1> HIDE DEF w
<1>7. Tells(v, f) /\ Tells(h, w)
  BY <1>3, <1>6, TellsQuiet
<1>8. Tells(u, g)
  BY <1>2, <1>4, <1>7, TellsTrans
<1>9. Tells(u, w)
  BY <1>5, <1>7, <1>8, TellsTrans
<1>10. umd_conn_handle(u, ip, type, dir, len) = IF ~IsBound(v) THEN v ELSE w
  BY DEF umd_conn_handle, v, f, g, h, w
<1> QED
  BY <1>2, <1>9, <1>10

\* A user ages, or is led out.
LEMMA TellsAge ==
  ASSUME now \in Nat, NEW u, GoodUser(u), NEW type \in Type
  PROVE  Tells(u, Age(u, type))
<1> DEFINE v == [u EXCEPT !.aging[type] = @ - TICKS]
<1>1. CASE u.limit.idle[type] = 0
  BY <1>1, TellsRefl DEF Age
<1>2. CASE u.limit.idle[type] # 0
  <2>1. u.aging \in [Type -> Int] /\ TICKS \in Int
    BY UmdAssumption DEF GoodUser, User
  <2>2. [u.aging EXCEPT ![type] = u.aging[type] - TICKS] \in [Type -> Int]
    BY <2>1
  <2>3. v = [u EXCEPT !.aging = [u.aging EXCEPT ![type] = u.aging[type] - TICKS]]
    OBVIOUS
  <2>4. /\ v \in User /\ v.log = u.log /\ v.state = u.state
        /\ v.flow = u.flow /\ v.ip = u.ip
    BY <2>2, <2>3 DEF GoodUser, User
  <2>5. Age(u, type) = IF v.aging[type] <= 0 THEN Unbind(v, "aging") ELSE v
    BY <1>2 DEF Age
  <2> HIDE DEF v
  <2>6. Unaged(v) /\ "aging" \in Reason
    BY <2>4 DEF GoodUser, Unaged, IpWhileBound, IsBound, Reason
  <2>7. Tells(u, v)
    BY <2>4, TellsQuiet
  <2>8. Tells(v, Unbind(v, "aging"))
    BY <2>6, TellsUnbind
  <2>9. Tells(u, Unbind(v, "aging"))
    BY <2>7, <2>8, TellsTrans
  <2> QED
    BY <2>5, <2>7, <2>9
<1> QED
  BY <1>1, <1>2

\* The driver's counters are not told.
LEMMA TellsBrflow ==
  ASSUME NEW u, GoodUser(u), NEW counter
  PROVE  Tells(u, BrflowUpdate(u, counter))
<1> DEFINE v == UpdateAging([u EXCEPT !.flow = [t \in Type |-> counter]])
<1>1. v.log = u.log /\ v.state = u.state /\ v.ip = u.ip
  BY DEF UpdateAging, GoodUser, User
<1> HIDE DEF v
<1>2. Tells(u, v)
  BY <1>1, TellsQuiet
<1> QED
  BY <1>2, TellsRefl DEF BrflowUpdate, v

\* umduser_timer_handle
LEMMA TellsTimer ==
  ASSUME now \in Nat, NEW u, GoodUser(u), NEW counter \in Counters \cup {Unheard}
  PROVE  Tells(u, umduser_timer_handle(u, counter))
<1> DEFINE a == FakeTimeout(u)
           b == OnlineReauth(a)
           w == OnlineTimeout(b)
           d == Age(w, "wan")
           e == OnlineAging(w)
           x == BrflowUpdate(e, counter)
           v == GcAuto(x)
<1>0. "onlinetime" \in Reason /\ "wan" \in Type /\ "lan" \in Type /\ u \in User
  BY DEF Reason, Type, GoodUser
<1>1. GoodUser(a) /\ Tells(u, a)
  BY <1>0, UnfakeGood, GoodIsUnaged, TellsUnfake, TellsRefl DEF FakeTimeout
<1> HIDE DEF a
<1>2. GoodUser(b) /\ Tells(a, b) /\ b \in User
  <2>1. GoodUser(b) /\ Tells(a, b)
    BY <1>1, ReauthGood, TellsReauth, TellsRefl DEF OnlineReauth
  <2> QED
    BY <2>1 DEF GoodUser
<1> HIDE DEF b
<1>3. GoodUser(w) /\ Tells(b, w)
  BY <1>0, <1>2, DeauthGood, GoodIsUnaged, TellsDeauth, TellsRefl DEF OnlineTimeout
<1> HIDE DEF w
<1>4. GoodUser(d) /\ Tells(w, d)
  BY <1>0, <1>3, AgeGood, TellsAge
<1>5. GoodUser(e) /\ Tells(w, e)
  <2> HIDE DEF d
  <2>1. GoodUser(Age(d, "lan")) /\ Tells(d, Age(d, "lan"))
    BY <1>0, <1>4, AgeGood, TellsAge
  <2>2. Tells(w, Age(d, "lan"))
    BY <1>4, <2>1, TellsTrans
  <2> QED
    BY <1>3, <2>1, <2>2, TellsRefl DEF OnlineAging, d
<1> HIDE DEF e
<1>9. GoodUser(x) /\ Tells(e, x)
  BY <1>5, BrflowGood, TellsBrflow
<1> HIDE DEF x
<1>6. Tells(x, v)
  BY <1>9, TellsDelete, TellsRefl DEF GcAuto, umd_user_gc
<1> HIDE DEF v
<1>7. Tells(u, w)
  BY <1>1, <1>2, <1>3, TellsTrans
<1>8. Tells(u, v)
  BY <1>5, <1>6, <1>7, <1>9, TellsTrans
<1> QED
  BY <1>8 DEF umduser_timer_handle, v, x, e, w, b, a

\* Every outcome of a step.
LEMMA OutcomeTells ==
  ASSUME now \in Nat, NEW u, GoodUser(u), NEW v, Outcome(u, v)
  PROVE  Tells(u, v)
<1> DEFINE c == Create(u)
<1>0. u \in User /\ Unaged(u) /\ "initiative" \in Reason /\ "admin" \in Reason
  BY GoodIsUnaged DEF Reason, GoodUser
<1>1. GoodUser(c) /\ Tells(u, c) /\ c.state # "absent"
  BY CreateGood, TellsCreate
<1> HIDE DEF c
<1>2. CASE v \in {u, c, Delete(u), Unblock(u), Reauth(u), umd_user_gc(u)}
  BY <1>1, <1>2, TellsRefl, TellsDelete, TellsUnblock, TellsReauth DEF umd_user_gc
<1>3. CASE v \in {Unbind(u, "initiative"), Unfake(u, "initiative"), Deauth(u, "admin")}
  BY <1>0, <1>3, TellsUnbind, TellsUnfake, TellsDeauth
<1>4. ASSUME NEW counter \in Counters \cup {Unheard}, v = umduser_timer_handle(u, counter)
      PROVE  Tells(u, v)
  BY <1>4, TellsTimer
<1>5. ASSUME Tells(c, v) PROVE Tells(u, v)
  BY <1>1, <1>5, TellsTrans
<1>6. CASE v = Block(c)
  BY <1>1, <1>5, <1>6, TellsBlock
<1>7. ASSUME NEW ip \in Address, v = Bind(c, ip) \/ v = Fake(c, ip) PROVE Tells(u, v)
  BY <1>1, <1>5, <1>7, TellsBind, TellsFake
<1>8. ASSUME NEW limit \in Limits, NEW ip \in Address \cup {Nothing}, v = Auth(c, limit, ip)
      PROVE  Tells(u, v)
  BY <1>1, <1>5, <1>8, TellsAuth
<1>9. ASSUME NEW dump \in Dumps, v = Sync(c, dump) PROVE Tells(u, v)
  BY <1>1, <1>5, <1>9, TellsSync
<1>10. ASSUME NEW ip \in Ip, NEW type \in Type, NEW dir \in {"up", "down"},
              NEW len \in PktLen, v = umd_conn_handle(u, ip, type, dir, len)
       PROVE  Tells(u, v)
  BY <1>10, TellsPacket
<1> QED
  BY <1>2, <1>3, <1>4, <1>6, <1>7, <1>8, <1>9, <1>10 DEF Outcome, c

\* What a step tells of a user.
LEMMA NextTells ==
  ASSUME IInv, Next, NEW o \in Obj
  PROVE  /\ Told(user[o].state, user'[o].log, user'[o].state)
         /\ Addressed(user[o].ip, user'[o].log, user'[o].ip)
<1> DEFINE f == Fresh(user[o])
           v == user'[o]
<1>1. /\ GoodUser(f) /\ f.state = user[o].state /\ f.ip = user[o].ip
      /\ f.log = <<>> /\ now \in Nat
  BY FreshGood DEF IInv, Fresh, User
<1>2. Outcome(f, v)
  BY NextOutcome
<1> HIDE DEF f, v
<1>3. Followed(user[o], f)
  BY <1>1 DEF Followed, Told, Addressed
<1>4. Tells(f, v)
  BY <1>1, <1>2, OutcomeTells
<1> QED
  BY <1>3, <1>4 DEF Tells, Followed, v

\* Scripts can follow every user, a second one of a station too: the events of
\* a step lead from its state before the step to its state after it, each in a
\* state it can come in.
THEOREM EventsAreTrue ==
  ASSUME GoodDumps
  PROVE  Spec => EventsTell
<1> DEFINE Right == \A o \in Obj : Told(user[o].state, user'[o].log, user'[o].state)
<1>1. IInv /\ [Next]_vars => [Right]_vars
  BY NextTells
<1>2. Spec => [][Next]_vars
  BY DEF Spec
<1>3. Spec => [][Right]_vars
  BY <1>1, <1>2, Invariance, PTL
<1> QED
  BY <1>3 DEF EventsTell

\* Scripts are told the address: bind, fake and sync carry the one a user gets,
\* every other event the one it has had since, whatever the address is.
THEOREM EventsCarryIp ==
  ASSUME GoodDumps
  PROVE  Spec => EventsNameIp
<1> DEFINE Right == \A o \in Obj : Addressed(user[o].ip, user'[o].log, user'[o].ip)
<1>1. IInv /\ [Next]_vars => [Right]_vars
  BY NextTells
<1>2. Spec => [][Next]_vars
  BY DEF Spec
<1>3. Spec => [][Right]_vars
  BY <1>1, <1>2, Invariance, PTL
<1> QED
  BY <1>3 DEF EventsNameIp

(***************************************************************************)
(* Users do not meet: what umd does to one user of many, of its station or *)
(* of others, is what it does when that user is the only one.              *)
(***************************************************************************)

\* umd as the one user o sees it.
One(o) == INSTANCE Umd
  WITH Obj <- {o}, Station <- [x \in {o} |-> Station[x]],
       user <- [x \in {o} |-> user[x]],
       lastBound <- [x \in {o} |-> lastBound[x]]

\* What is done to a user does not depend on the table it is in.
LEMMA OneBase ==
  ASSUME NEW o
  PROVE  /\ One(o)!Absent = Absent
         /\ \A u : /\ One(o)!Fresh(u) = Fresh(u) /\ One(o)!IsBound(u) = IsBound(u)
                   /\ One(o)!Create(u) = Create(u) /\ One(o)!Delete(u) = Delete(u)
                   /\ One(o)!UpdateAging(u) = UpdateAging(u)
                   /\ One(o)!LanOnline(u) = LanOnline(u)
                   /\ One(o)!LanOffline(u) = LanOffline(u)
                   /\ One(o)!WanOnline(u) = WanOnline(u)
         /\ \A u, action : One(o)!Report(u, action) = Report(u, action)
<1> USE DEF One!NoIp, NoIp, One!Type, Type, One!Dir, Dir
<1>1. One(o)!Absent = Absent
  BY DEF One!Absent, Absent, One!NoLimit, NoLimit
<1>2. \A u, action : One(o)!Report(u, action) = Report(u, action)
  BY DEF One!Report, Report
<1>3. \A u : One(o)!Fresh(u) = Fresh(u) /\ One(o)!IsBound(u) = IsBound(u)
  BY DEF One!Fresh, Fresh, One!IsBound, IsBound, One!Bound, Bound
<1>4. \A u : One(o)!UpdateAging(u) = UpdateAging(u)
  BY DEF One!UpdateAging, UpdateAging
<1>5. \A u : One(o)!LanOnline(u) = LanOnline(u)
  BY DEF One!LanOnline, LanOnline
<1>6. \A u : One(o)!LanOffline(u) = LanOffline(u)
  BY DEF One!LanOffline, LanOffline
<1>7. \A u : One(o)!WanOnline(u) = WanOnline(u)
  BY DEF One!WanOnline, WanOnline
<1>8. \A u : One(o)!Create(u) = Create(u)
  BY <1>1, <1>2, <1>5 DEF One!Create, Create
<1>9. \A u : One(o)!Delete(u) = Delete(u)
  BY <1>1, <1>2 DEF One!Delete, Delete
<1> QED
  BY <1>1, <1>2, <1>3, <1>4, <1>5, <1>6, <1>7, <1>8, <1>9

LEMMA OneDown ==
  ASSUME NEW o
  PROVE  /\ \A u, reason : /\ One(o)!Deauth(u, reason) = Deauth(u, reason)
                           /\ One(o)!Unfake(u, reason) = Unfake(u, reason)
                           /\ One(o)!Unbind(u, reason) = Unbind(u, reason)
         /\ \A u : One(o)!Block(u) = Block(u) /\ One(o)!Unblock(u) = Unblock(u)
         /\ \A u, ip : One(o)!Release(u, ip) = Release(u, ip)
<1>1. \A u, reason : One(o)!Deauth(u, reason) = Deauth(u, reason)
  BY OneBase DEF One!Deauth, Deauth
<1>2. \A u, reason : One(o)!Unfake(u, reason) = Unfake(u, reason)
  BY OneBase DEF One!Unfake, Unfake
<1>3. ASSUME NEW u, NEW reason PROVE One(o)!Unbind(u, reason) = Unbind(u, reason)
  <2> DEFINE v == Unfake(Deauth(u, reason), reason)
             w == Report([v EXCEPT !.reason = reason], "unbind")
             x == [w EXCEPT !.ip = NoIp, !.state = "none"]
  <2>1. Unbind(u, reason) = IF v.state # "bind" THEN v ELSE LanOffline(x)
    BY DEF Unbind
  <2>2. One(o)!Unfake(One(o)!Deauth(u, reason), reason) = v
    BY <1>1, <1>2
  <2>3. One(o)!Report([v EXCEPT !.reason = reason], "unbind") = w
    BY OneBase
  <2>4. One(o)!LanOffline(x) = LanOffline(x)
    BY OneBase
  <2> HIDE DEF v, w
  <2>5. One(o)!Unbind(u, reason) = IF v.state # "bind" THEN v ELSE LanOffline(x)
    BY <2>2, <2>3, <2>4 DEF One!Unbind, One!NoIp, NoIp
  <2> QED
    BY <2>1, <2>5
<1>4. \A u : One(o)!Block(u) = Block(u) /\ One(o)!Unblock(u) = Unblock(u)
  BY OneBase, <1>3 DEF One!Block, Block, One!Unblock, Unblock
<1>5. \A u, ip : One(o)!Release(u, ip) = Release(u, ip)
  BY OneBase, <1>3 DEF One!Release, Release
<1> QED
  BY <1>1, <1>2, <1>3, <1>4, <1>5

LEMMA OneUp ==
  ASSUME NEW o
  PROVE  /\ \A u, ip : /\ One(o)!Bind(u, ip) = Bind(u, ip)
                       /\ One(o)!Fake(u, ip) = Fake(u, ip)
         /\ \A u : One(o)!Reauth(u) = Reauth(u)
         /\ \A u, limit, ip : One(o)!Auth(u, limit, ip) = Auth(u, limit, ip)
         /\ \A u, dump : One(o)!Sync(u, dump) = Sync(u, dump)
<1>0. \A u, state, ip :
        One(o)!UpdateAging(One(o)!LanOnline([u EXCEPT !.ip = ip, !.state = state]))
          = UpdateAging(LanOnline([u EXCEPT !.ip = ip, !.state = state]))
  BY OneBase
<1>1. ASSUME NEW u, NEW ip PROVE One(o)!Bind(u, ip) = Bind(u, ip)
  <2> DEFINE v == Release(u, ip)
             w == UpdateAging(LanOnline([v EXCEPT !.ip = ip, !.state = "bind"]))
  <2>1. One(o)!Release(u, ip) = v /\ One(o)!Report(w, "bind") = Report(w, "bind")
    BY OneBase, OneDown
  <2>2. One(o)!UpdateAging(One(o)!LanOnline([v EXCEPT !.ip = ip, !.state = "bind"])) = w
    BY <1>0
  <2>3. Bind(u, ip) = IF v.state # "none" THEN v ELSE Report(w, "bind")
    BY DEF Bind
  <2> HIDE DEF v, w
  <2> QED
    BY <2>1, <2>2, <2>3 DEF One!Bind
<1>2. ASSUME NEW u, NEW ip PROVE One(o)!Fake(u, ip) = Fake(u, ip)
  <2> DEFINE v == Release(u, ip)
             w == UpdateAging(LanOnline([v EXCEPT !.ip = ip, !.state = "fake"]))
             x == [w EXCEPT !.faketime = now]
  <2>1. /\ One(o)!Release(u, ip) = v /\ One(o)!Report(x, "fake") = Report(x, "fake")
        /\ (One(o)!IsBound(v) <=> IsBound(v))
    BY OneBase, OneDown
  <2>2. One(o)!UpdateAging(One(o)!LanOnline([v EXCEPT !.ip = ip, !.state = "fake"])) = w
    BY <1>0
  <2>3. Fake(u, ip) = IF u.state = "block" \/ IsBound(v) THEN v ELSE Report(x, "fake")
    BY DEF Fake
  <2> HIDE DEF v, w
  <2> QED
    BY <2>1, <2>2, <2>3 DEF One!Fake
<1>3. \A u : One(o)!Reauth(u) = Reauth(u)
  BY OneBase DEF One!Reauth, Reauth
<1>4. ASSUME NEW u, NEW limit, NEW ip
      PROVE  One(o)!Auth(u, limit, ip) = Auth(u, limit, ip)
  <2> DEFINE v == IF u.state = "none" /\ ip # Nothing THEN Bind(u, ip) ELSE u
             w == [v EXCEPT !.state = "auth", !.reason = "none", !.limit = limit]
             x == UpdateAging(WanOnline(w))
  <2>1. v = IF u.state = "none" /\ ip # One(o)!Nothing THEN One(o)!Bind(u, ip) ELSE u
    BY <1>1 DEF One!Nothing, Nothing
  <2>2. One(o)!IsBound(v) <=> IsBound(v)
    BY OneBase
  <2>3. One(o)!UpdateAging(One(o)!WanOnline(w)) = x
    BY OneBase
  <2>4. One(o)!Report(x, "auth") = Report(x, "auth")
    BY OneBase
  <2>5. Auth(u, limit, ip) = IF ~IsBound(v) THEN v ELSE Report(x, "auth")
    BY DEF Auth
  <2> HIDE DEF v, x
  <2>6. One(o)!Auth(u, limit, ip) = IF ~IsBound(v) THEN v ELSE Report(x, "auth")
    BY <2>1, <2>2, <2>3, <2>4 DEF One!Auth
  <2> QED
    BY <2>5, <2>6
<1>5. \A u, dump : One(o)!Sync(u, dump) = Sync(u, dump)
  BY OneBase DEF One!Sync, Sync
<1> QED
  BY <1>1, <1>2, <1>3, <1>4, <1>5

LEMMA OnePacket ==
  ASSUME NEW o
  PROVE  \A u, ip, type, dir, len :
           One(o)!umd_conn_handle(u, ip, type, dir, len) = umd_conn_handle(u, ip, type, dir, len)
<1>1. \A u, type, dir, len : One(o)!FlowUpdate(u, type, dir, len) = FlowUpdate(u, type, dir, len)
  BY DEF One!FlowUpdate, FlowUpdate, One!Type, Type, One!Dir, Dir
<1>2. \A u, bound, type, dir : One(o)!Exceeds(u, bound, type, dir) <=> Exceeds(u, bound, type, dir)
  BY DEF One!Exceeds, Exceeds
<1>3. \A u, type, dir : One(o)!FlowReauth(u, type, dir) = FlowReauth(u, type, dir)
  BY <1>2, OneUp DEF One!FlowReauth, FlowReauth
<1>4. \A u, type, dir : One(o)!Overflow(u, type, dir) = Overflow(u, type, dir)
  BY <1>2, OneDown DEF One!Overflow, Overflow
<1>5. \A u, ip : One(o)!AutoUser(u, ip) = AutoUser(u, ip)
  BY OneBase, OneUp DEF One!AutoUser, AutoUser
<1> QED
  BY OneBase, <1>1, <1>3, <1>4, <1>5 DEF One!umd_conn_handle, umd_conn_handle

LEMMA OneTimer ==
  ASSUME NEW o
  PROVE  /\ \A u : One(o)!umd_user_gc(u) = umd_user_gc(u)
         /\ \A u, counter : One(o)!umduser_timer_handle(u, counter)
                              = umduser_timer_handle(u, counter)
<1>1. \A time, age : One(o)!Older(time, age) <=> Older(time, age)
  BY DEF One!Older, Older
<1>2. \A u : One(o)!FakeTimeout(u) = FakeTimeout(u)
  BY <1>1, OneDown DEF One!FakeTimeout, FakeTimeout
<1>3. \A u : One(o)!OnlineReauth(u) = OnlineReauth(u)
  BY <1>1, OneUp DEF One!OnlineReauth, OnlineReauth, One!Type, Type
<1>4. \A u : One(o)!OnlineTimeout(u) = OnlineTimeout(u)
  BY <1>1, OneDown DEF One!OnlineTimeout, OnlineTimeout, One!Type, Type
<1>5. \A u, type : One(o)!Age(u, type) = Age(u, type)
  BY OneDown DEF One!Age, Age
<1>6. \A u : One(o)!OnlineAging(u) = OnlineAging(u)
  BY <1>5, OneBase DEF One!OnlineAging, OnlineAging
<1>7. \A u : One(o)!umd_user_gc(u) = umd_user_gc(u)
  BY OneBase DEF One!umd_user_gc, umd_user_gc
<1>8. \A u : One(o)!GcAuto(u) = GcAuto(u)
  BY <1>1, <1>7 DEF One!GcAuto, GcAuto
<1>9. \A u, counter : One(o)!BrflowUpdate(u, counter) = BrflowUpdate(u, counter)
  BY OneBase DEF One!BrflowUpdate, BrflowUpdate, One!Unheard, Unheard, One!Type, Type,
     One!Dir, Dir
<1> QED
  BY <1>2, <1>3, <1>4, <1>6, <1>7, <1>8, <1>9
     DEF One!umduser_timer_handle, umduser_timer_handle

\* Its own command or packet is that of the one, and that of another is
\* nothing to it.
LEMMA OneServes ==
  ASSUME NEW o \in Obj, NEW x \in Obj, NEW u, Serve(x, u)
  PROVE  IF x = o THEN One(o)!Serve(o, u) ELSE One(o)!Elsewhere
<1> USE OneBase DEF Serve, Handle, Become, One!Become
<1>1. CASE x = o
  BY <1>1 DEF One!Serve, One!Handle
<1>2. CASE x # o
  BY <1>2 DEF One!Elsewhere
<1> QED
  BY <1>1, <1>2

\* Every command of it,
LEMMA OneCommand ==
  ASSUME NEW o \in Obj, Command(o)
  PROVE  One(o)!Command(o)
<1>0. /\ [x \in {o} |-> user[x]][o] = user[o] /\ One(o)!It(o) = It(o)
      /\ (One(o)!Present(o) <=> Present(o)) /\ One(o)!Got(o)
  BY OneBase DEF One!It, It, One!Present, Present, One!Got, One!Users
<1>1. CASE umd_user_create(o)
  <2>1. PICK u : u = Create(It(o)) /\ Serve(o, u)
    BY <1>1 DEF umd_user_create
  <2>2. One(o)!Serve(o, u)
    BY <2>1, OneServes
  <2>3. u = One(o)!Create(One(o)!It(o))
    BY <1>0, <2>1, OneBase
  <2> QED
    BY <1>0, <1>1, <2>2, <2>3
       DEF One!Command, One!Serve, One!Handle, One!Become, One!umd_user_create
<1>2. CASE umd_user_delete(o)
  <2>1. PICK u : u = Delete(It(o)) /\ Serve(o, u)
    BY <1>2 DEF umd_user_delete
  <2>2. One(o)!Serve(o, u)
    BY <2>1, OneServes
  <2>3. u = One(o)!Delete(One(o)!It(o)) /\ One(o)!Present(o)
    BY <1>0, <1>2, <2>1, OneBase, OneDown DEF umd_user_delete
  <2> QED
    BY <1>2, <2>2, <2>3
       DEF One!Command, One!Serve, One!Handle, One!Become,
           umd_user_delete, One!umd_user_delete
<1>3. CASE umd_user_block(o)
  <2>1. PICK u : u = Block(Create(It(o))) /\ Serve(o, u)
    BY <1>3 DEF umd_user_block
  <2>2. One(o)!Serve(o, u)
    BY <2>1, OneServes
  <2>3. u = One(o)!Block(One(o)!Create(One(o)!It(o)))
    BY <1>0, <2>1, OneBase, OneDown
  <2> QED
    BY <1>0, <1>3, <2>2, <2>3
       DEF One!Command, One!Serve, One!Handle, One!Become, One!umd_user_block
<1>4. CASE umd_user_unblock(o)
  <2>1. PICK u : u = Unblock(It(o)) /\ Serve(o, u)
    BY <1>4 DEF umd_user_unblock
  <2>2. One(o)!Serve(o, u)
    BY <2>1, OneServes
  <2>3. u = One(o)!Unblock(One(o)!It(o)) /\ One(o)!Present(o)
    BY <1>0, <1>4, <2>1, OneBase, OneDown DEF umd_user_unblock
  <2> QED
    BY <1>4, <2>2, <2>3
       DEF One!Command, One!Serve, One!Handle, One!Become,
           umd_user_unblock, One!umd_user_unblock
<1>5. ASSUME NEW ip \in Address, umd_user_bind(o, ip)
      PROVE  One(o)!Command(o)
  <2>1. PICK u : u = Bind(Create(It(o)), ip) /\ Serve(o, u)
    BY <1>5 DEF umd_user_bind
  <2>2. One(o)!Serve(o, u)
    BY <2>1, OneServes
  <2>3. u = One(o)!Bind(One(o)!Create(One(o)!It(o)), ip)
    BY <1>0, <2>1, OneBase, OneUp
  <2> QED
    BY <1>0, <1>5, <2>2, <2>3
       DEF One!Command, One!Serve, One!Handle, One!Become, One!umd_user_bind,
           One!Address, Address, One!NoIp, NoIp
<1>6. CASE umd_user_unbind(o)
  <2>1. PICK u : u = Unbind(It(o), "initiative") /\ Serve(o, u)
    BY <1>6 DEF umd_user_unbind
  <2>2. One(o)!Serve(o, u)
    BY <2>1, OneServes
  <2>3. u = One(o)!Unbind(One(o)!It(o), "initiative") /\ One(o)!Present(o)
    BY <1>0, <1>6, <2>1, OneBase, OneDown DEF umd_user_unbind
  <2> QED
    BY <1>6, <2>2, <2>3
       DEF One!Command, One!Serve, One!Handle, One!Become,
           umd_user_unbind, One!umd_user_unbind
<1>7. ASSUME NEW ip \in Address, umd_user_fake(o, ip)
      PROVE  One(o)!Command(o)
  <2>1. PICK u : u = Fake(Create(It(o)), ip) /\ Serve(o, u)
    BY <1>7 DEF umd_user_fake
  <2>2. One(o)!Serve(o, u)
    BY <2>1, OneServes
  <2>3. u = One(o)!Fake(One(o)!Create(One(o)!It(o)), ip)
    BY <1>0, <1>7, <2>1, OneBase, OneUp DEF umd_user_fake
  <2> QED
    BY <1>0, <1>7, <2>2, <2>3
       DEF One!Command, One!Serve, One!Handle, One!Become,
           umd_user_fake, One!umd_user_fake, One!Address, Address, One!NoIp, NoIp
<1>8. CASE umd_user_unfake(o)
  <2>1. PICK u : u = Unfake(It(o), "initiative") /\ Serve(o, u)
    BY <1>8 DEF umd_user_unfake
  <2>2. One(o)!Serve(o, u)
    BY <2>1, OneServes
  <2>3. u = One(o)!Unfake(One(o)!It(o), "initiative") /\ One(o)!Present(o)
    BY <1>0, <1>8, <2>1, OneBase, OneDown DEF umd_user_unfake
  <2> QED
    BY <1>8, <2>2, <2>3
       DEF One!Command, One!Serve, One!Handle, One!Become,
           umd_user_unfake, One!umd_user_unfake
<1>9. ASSUME NEW limit \in Limits, NEW ip \in Address \cup {Nothing}, umd_user_auth(o, limit, ip)
      PROVE  One(o)!Command(o)
  <2>1. PICK u : u = Auth(Create(It(o)), limit, ip) /\ Serve(o, u)
    BY <1>9 DEF umd_user_auth
  <2>2. One(o)!Serve(o, u)
    BY <2>1, OneServes
  <2>3. u = One(o)!Auth(One(o)!Create(One(o)!It(o)), limit, ip)
    BY <1>0, <2>1, OneBase, OneUp
  <2> QED
    BY <1>0, <1>9, <2>2, <2>3
       DEF One!Command, One!Serve, One!Handle, One!Become, One!umd_user_auth,
           One!Address, Address, One!NoIp, NoIp, One!Nothing, Nothing
<1>10. CASE umd_user_deauth(o)
  <2>1. PICK u : u = Deauth(It(o), "admin") /\ Serve(o, u)
    BY <1>10 DEF umd_user_deauth
  <2>2. One(o)!Serve(o, u)
    BY <2>1, OneServes
  <2>3. u = One(o)!Deauth(One(o)!It(o), "admin") /\ One(o)!Present(o)
    BY <1>0, <1>10, <2>1, OneBase, OneDown DEF umd_user_deauth
  <2> QED
    BY <1>10, <2>2, <2>3
       DEF One!Command, One!Serve, One!Handle, One!Become,
           umd_user_deauth, One!umd_user_deauth
<1>11. CASE umd_user_reauth(o)
  <2>1. PICK u : u = Reauth(It(o)) /\ Serve(o, u)
    BY <1>11 DEF umd_user_reauth
  <2>2. One(o)!Serve(o, u)
    BY <2>1, OneServes
  <2>3. u = One(o)!Reauth(One(o)!It(o)) /\ One(o)!Present(o)
    BY <1>0, <1>11, <2>1, OneBase, OneUp DEF umd_user_reauth
  <2> QED
    BY <1>11, <2>2, <2>3
       DEF One!Command, One!Serve, One!Handle, One!Become,
           umd_user_reauth, One!umd_user_reauth
<1>12. ASSUME NEW dump \in Dumps, umd_user_sync(o, dump)
      PROVE  One(o)!Command(o)
  <2>1. PICK u : u = Sync(Create(It(o)), dump) /\ Serve(o, u)
    BY <1>12 DEF umd_user_sync
  <2>2. One(o)!Serve(o, u)
    BY <2>1, OneServes
  <2>3. u = One(o)!Sync(One(o)!Create(One(o)!It(o)), dump)
    BY <1>0, <2>1, OneBase, OneUp
  <2> QED
    BY <1>0, <1>12, <2>2, <2>3
       DEF One!Command, One!Serve, One!Handle, One!Become, One!umd_user_sync
<1>13. CASE umd_user_associate(o)
  <2>1. PICK u : u = Create(It(o)) /\ Serve(o, u)
    BY <1>13 DEF umd_user_associate
  <2>2. One(o)!Serve(o, u)
    BY <2>1, OneServes
  <2>3. u = One(o)!Create(One(o)!It(o)) /\ ~One(o)!Present(o)
    BY <1>0, <1>13, <2>1, OneBase DEF umd_user_associate
  <2> QED
    BY <1>13, <2>2, <2>3
       DEF One!Command, One!Serve, One!Handle, One!Become,
           umd_user_associate, One!umd_user_associate
<1> QED
  BY <1>1, <1>2, <1>3, <1>4, <1>5, <1>6, <1>7, <1>8, <1>9, <1>10, <1>11, <1>12, <1>13
     DEF Command

\* and every packet.
LEMMA OnePackets ==
  ASSUME NEW o \in Obj, NEW ip \in Ip, NEW type \in Type, NEW dir \in {"up", "down"},
         NEW len \in PktLen, Packet(o, ip, type, dir, len)
  PROVE  One(o)!Packet(o, ip, type, dir, len)
<1>1. PICK u : u = umd_conn_handle(It(o), ip, type, dir, len) /\ Serve(o, u)
  BY DEF Packet
<1>2. One(o)!It(o) = It(o) /\ One(o)!Got(o)
  BY OneBase DEF One!It, It, One!Got, One!Users, One!Present
<1>3. One(o)!Serve(o, u) /\ u = One(o)!umd_conn_handle(One(o)!It(o), ip, type, dir, len)
  BY <1>1, <1>2, OneServes, OnePacket
<1> QED
  BY <1>2, <1>3 DEF Packet, One!Packet, One!Serve, One!Handle, One!Become

\* Every step is a step of the one.
LEMMA OneStep ==
  ASSUME NEW o \in Obj, [Next]_vars
  PROVE  [One(o)!Next]_(One(o)!vars)
<1> USE DEF One!Next
<1>1. CASE UNCHANGED vars
  BY <1>1 DEF vars, One!vars
<1>2. CASE Tick
  BY <1>2, OneBase DEF Tick, One!Tick
<1>3. CASE umd_user_timer
  <2>1. PICK counter \in [Obj -> Heard] :
          Become([x \in Obj |-> umduser_timer_handle(Fresh(user[x]), counter[x])])
    BY <1>3 DEF umd_user_timer
  <2>2. One(o)!Heard = Heard
    BY DEF One!Heard, Heard, One!Unheard, Unheard, One!Dir, Dir
  <2>3. PICK own \in [{o} -> One(o)!Heard] : own[o] = counter[o]
    <3>1. [x \in {o} |-> counter[x]] \in [{o} -> One(o)!Heard]
      BY <2>2
    <3> QED
      BY <3>1
  <2>4. due /\ due' = FALSE /\ UNCHANGED now
    BY <1>3 DEF umd_user_timer
  <2>5. One(o)!umd_user_timer
    BY <2>1, <2>3, <2>4, OneBase, OneTimer DEF One!umd_user_timer, Become, One!Become
  <2> QED
    BY <2>5
<1>4. CASE umd_handle_gc
  BY <1>4, OneBase, OneTimer DEF umd_handle_gc, One!umd_handle_gc, Become, One!Become
<1>5. CASE Elsewhere
  BY <1>5, OneBase DEF Elsewhere, One!Elsewhere, Become, One!Become
<1>6. ASSUME NEW x \in Obj, Command(x) PROVE One(o)!Next
  <2>1. CASE x = o
    BY <1>6, <2>1, OneCommand
  <2>2. CASE x # o
    <3>1. PICK u : Serve(x, u)
      BY <1>6 DEF Command, umd_user_create, umd_user_associate, umd_user_delete,
         umd_user_block, umd_user_unblock, umd_user_bind, umd_user_unbind, umd_user_fake,
         umd_user_unfake, umd_user_auth, umd_user_deauth, umd_user_reauth,
         umd_user_sync
    <3> QED
      BY <2>2, <3>1, OneServes
  <2> QED
    BY <2>1, <2>2
<1>7. ASSUME NEW x \in Obj, NEW ip \in Ip, NEW type \in Type, NEW dir \in {"up", "down"},
             NEW len \in PktLen, Packet(x, ip, type, dir, len)
      PROVE  One(o)!Next
  <2>1. CASE x = o
    BY <1>7, <2>1, OnePackets DEF Type, One!Type
  <2>2. CASE x # o
    <3>1. PICK u : Serve(x, u)
      BY <1>7 DEF Packet
    <3> QED
      BY <2>2, <3>1, OneServes
  <2> QED
    BY <2>1, <2>2
<1> QED
  BY <1>1, <1>2, <1>3, <1>4, <1>5, <1>6, <1>7 DEF Next

\* The life of each user among others is a life it could have alone: what is
\* true of a umd with one user, with fairness or without, is true of every user
\* of every umd, the second one of a station among them.
THEOREM OneUserIsEnough ==
  ASSUME NEW o \in Obj
  PROVE  FairSpec => One(o)!FairSpec
<1>1. Init => One(o)!Init
  BY OneBase DEF Init, One!Init
<1>2. [Next]_vars => [One(o)!Next]_(One(o)!vars)
  BY OneStep
<1>3. Spec => One(o)!Spec
  BY <1>1, <1>2, PTL DEF Spec, One!Spec
<1> QED
  BY <1>3, PTL DEF FairSpec, One!FairSpec, Passed, One!Passed, Handled, One!Handled

=============================================================================
