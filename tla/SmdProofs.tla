----------------------------- MODULE SmdProofs -----------------------------
(* Proofs about Smd, for any services and any number of pids.              *)
EXTENDS Smd, TLAPS

-----------------------------------------------------------------------------
(* Types of the operators.                                                 *)

States == {"init", "fork", "run", "die"}

LEMMA ChangeType ==
  ASSUME NEW x \in Entry, NEW state \in States, NEW pid \in Pids \cup {0}
  PROVE /\ smd_change(x, state, pid) \in Entry
        /\ smd_change(x, state, pid).state = state
        /\ smd_change(x, state, pid).pid = pid
        /\ smd_change(x, state, pid).age = x.age
        /\ smd_change(x, state, pid).link <=> x.link \/ pid # x.pid
BY DEF smd_change, Entry, States

LEMMA DieType ==
  ASSUME NEW x \in Entry
  PROVE /\ smd_die(x) \in Entry
        /\ smd_die(x).state = "die"
        /\ smd_die(x).pid = 0
        /\ smd_die(x).link <=> x.link \/ x.pid # 0
PROOF
<1>1. "die" \in States /\ 0 \in Pids \cup {0}
  BY DEF States
<1>2. /\ smd_die(x) \in Entry /\ smd_die(x).state = "die" /\ smd_die(x).pid = 0
      /\ smd_die(x).link <=> x.link \/ 0 # x.pid
  BY <1>1, ChangeType DEF smd_die
<1> QED BY <1>2

LEMMA RunType ==
  ASSUME NEW x \in Entry, NEW pid \in Pids \cup {0},
         NEW age \in {"command", "pass", "late"}
  PROVE /\ smd_run(x, pid, age) \in Entry
        /\ pid = 0 => smd_run(x, pid, age) = x
        /\ pid # 0 => /\ smd_run(x, pid, age).state = "fork"
                      /\ smd_run(x, pid, age).pid = pid
                      /\ x.link => smd_run(x, pid, age).link
PROOF
<1> DEFINE y == smd_change(x, "fork", pid)
<1>1. y \in Entry /\ y.state = "fork" /\ y.pid = pid /\ (x.link => y.link)
  <2>1. "fork" \in States
    BY DEF States
  <2> QED BY <2>1, ChangeType
<1> HIDE DEF y
<1>2. /\ [y EXCEPT !.age = age] \in Entry
      /\ [y EXCEPT !.age = age].state = y.state
      /\ [y EXCEPT !.age = age].pid = y.pid
      /\ [y EXCEPT !.age = age].link = y.link
  BY <1>1 DEF Entry
<1>3. smd_run(x, pid, age) = IF pid = 0 THEN x ELSE [y EXCEPT !.age = age]
  BY DEF smd_run, y
<1>4. CASE pid = 0
  BY <1>3, <1>4
<1>5. CASE pid # 0
  <2>1. smd_run(x, pid, age) = [y EXCEPT !.age = age]
    BY <1>3, <1>5
  <2> HIDE DEF smd_run
  <2> QED BY <1>1, <1>2, <1>5, <2>1
<1> QED BY <1>4, <1>5

LEMMA CreatedType ==
  /\ NoEntry \in Entry /\ NoEntry.link = FALSE /\ NoEntry.pid = 0
  /\ NoEntry.state = "init"
  /\ Created \in Entry /\ Created.link = TRUE /\ Created.pid = 0
BY DEF Created, NoEntry, Entry

LEMMA DeadType ==
  ASSUME NEW x \in Process
  PROVE Dead(x) \in Process /\ Dead(x).role \in {"none", "zombie"}
BY DEF Dead, NoProcess, Process

(* ps is proc, or proc with some processes gone or told to end.            *)
Shrunk(ps) ==
  /\ ps \in [Pids -> Process]
  /\ \A p \in Pids : ps[p].role \in {"launcher", "main"} => ps[p] = proc[p]

NoneOf(ps, s) ==
  \A p \in Pids : ps[p].of = s => ps[p].role \notin {"launcher", "main"}

NoSonOf(ps, s) ==
  \A p \in Pids : ps[p].of = s /\ ps[p].son => ps[p].role \notin {"launcher", "main"}

LEMMA KillDeamonShrinks ==
  ASSUME TypeOK, NEW s \in Services
  PROVE /\ Shrunk(smd_kill_deamon(proc, s))
        /\ s \in Deamons => NoneOf(smd_kill_deamon(proc, s), s)
        /\ s \notin Deamons => smd_kill_deamon(proc, s) = proc
        /\ \A p \in Pids : proc[p].of # s => smd_kill_deamon(proc, s)[p] = proc[p]
BY DEF TypeOK, smd_kill_deamon, smd_killall, Shrunk, NoneOf, Process

LEMMA StartedType ==
  ASSUME NEW ps \in [Pids -> Process], NEW s \in Services, NEW f \in Free(ps) \cup {0}
  PROVE /\ Started(ps, s, f) \in [Pids -> Process]
        /\ f = 0 => Started(ps, s, f) = ps
        /\ f # 0 => /\ f \in Pids
                    /\ Started(ps, s, f)[f].of = s
                    /\ Started(ps, s, f)[f].role \in {"launcher", "main"}
                    /\ s \notin Deamons => Started(ps, s, f)[f].role = "main"
        /\ \A p \in Pids : p # f => Started(ps, s, f)[p] = ps[p]
BY PidsAssumption DEF Started, Free, Process

-----------------------------------------------------------------------------
(* The inductive invariant.                                                *)

(* Whoever is not running has no pid ...                                   *)
NoPid == \A s \in Services : ~HavePid(entry[s]) => entry[s].pid = 0

(* ... and a deamon that is down has no process.                           *)
Down ==
  \A s \in Deamons : s \in Linked /\ ~HavePid(entry[s]) => NoneOf(proc, s)

(* A visit looks at an entry of the table that has a pid; one that is to    *)
(* fork leaves no child of smd, nor, once it has killed, any process of a  *)
(* deamon.                                                                 *)
VisitOk ==
  /\ pass.left \subseteq Linked
  /\ pass.at \in {"idle", "reap"} => pass.left = {}
  /\ pass.at \in {"check", "kill", "fork"} => pass.of \in Linked
  /\ pass.at = "check" => /\ HavePid(entry[pass.of])
                          /\ pass.of \in Normals => pass.pid = entry[pass.of].pid
  /\ pass.at \in {"kill", "fork"} /\ pass.of \in Normals => NoSonOf(proc, pass.of)
  /\ pass.at = "fork" /\ pass.of \in Deamons => NoneOf(proc, pass.of)

Known == TypeOK /\ VisitOk /\ SonsAreKnown /\ NoPid /\ Down

(* The one process of a normal service is the one its entry knows ...       *)
Tracked ==
  \A s \in (Normals \cap Linked) \ lost : \A p \in LiveOf(s) : entry[s].pid = p

(* ... and it has none where a visit is to fork.                            *)
Gone ==
  pass.at \in {"kill", "fork"} /\ pass.of \in Normals \ lost => NoneOf(proc, pass.of)

(* A deamon without an entry is up and in its pidfile.                     *)
Up ==
  \A s \in Deamons \ (lost \cup Linked) : \A p \in LiveOf(s) :
    p = pidfile[s] /\ proc[p].role = "main"

Unique == Tracked /\ Gone /\ NoDouble /\ Up

(* A fork: smd had no child of s left in ps, and now has at most the new   *)
(* one.                                                                    *)
Forked(s, ps, f) ==
  /\ s \in Services
  /\ Shrunk(ps) /\ NoSonOf(ps, s)
  /\ s \in Deamons /\ f = 0 => NoneOf(ps, s)
  /\ f \in Free(ps) \cup {0}
  /\ entry' \in [Services -> Entry]
  /\ \A r \in Services \ {s} : entry'[r] = entry[r]
  /\ entry'[s].link
  /\ IF f = 0 THEN ~HavePid(entry'[s]) /\ entry'[s].pid = 0
     ELSE entry'[s].state = "fork" /\ entry'[s].pid = f
  /\ proc' = Started(ps, s, f)
  /\ pidfile' = pidfile
  /\ pass' \in Pass /\ pass'.left \subseteq Linked
  /\ pass'.at \in {"idle", "reap", "walk"}
  /\ pass'.at \in {"idle", "reap"} => pass'.left = {}
  /\ lost' \in {lost, lost \ {s}}

LEMMA ForkedLive ==
  ASSUME NEW s, NEW ps, NEW f, Forked(s, ps, f), NEW p \in Pids, Live(p)'
  PROVE \/ p = f /\ f # 0 /\ proc'[p].of = s
        \/ /\ p # f /\ proc'[p] = proc[p] /\ Live(p)
           /\ proc[p].of = s => ~proc[p].son /\ ~NoneOf(ps, s)
PROOF
<1>1. ps \in [Pids -> Process] /\ proc' = Started(ps, s, f)
  BY DEF Forked, Shrunk
<1>2. CASE p = f
  BY <1>1, <1>2, StartedType, PidsAssumption DEF Forked
<1>3. CASE p # f
  <2>1. proc'[p] = ps[p]
    BY <1>1, <1>3, StartedType DEF Forked
  <2> QED BY <1>3, <2>1 DEF Forked, Shrunk, NoneOf, NoSonOf, Live
<1> QED BY <1>2, <1>3

LEMMA ForkedLinked ==
  ASSUME NEW s, NEW ps, NEW f, Forked(s, ps, f), NEW r \in Services
  PROVE /\ r \in Linked' <=> r = s \/ r \in Linked
        /\ r # s => entry'[r] = entry[r]
BY DEF Forked, Linked

LEMMA ForkedKnown ==
  ASSUME Known, NEW s, NEW ps, NEW f, Forked(s, ps, f)
  PROVE Known'
PROOF
<1>1. TypeOK'
  BY StartedType DEF Known, TypeOK, Forked, Shrunk, Linked
<1>5. VisitOk'
  BY ForkedLinked DEF Forked, Linked, VisitOk
<1>2. SonsAreKnown'
  <2> SUFFICES ASSUME NEW p \in Pids, Live(p)', proc'[p].son
               PROVE /\ proc'[p].of \in Linked'
                     /\ proc'[p].of \in Normals => entry'[proc'[p].of].pid = p
    BY DEF SonsAreKnown
  <2>1. CASE p = f /\ f # 0 /\ proc'[p].of = s
    BY <2>1, ForkedLinked DEF Forked
  <2>2. CASE /\ p # f /\ proc'[p] = proc[p] /\ Live(p)
             /\ proc[p].of = s => ~proc[p].son
    <3>1. /\ proc[p].of \in Linked
          /\ proc[p].of \in Normals => entry[proc[p].of].pid = p
      BY <2>2 DEF Known, SonsAreKnown
    <3>2. proc[p].of \in Services /\ proc[p].of # s
      BY <2>2, <3>1 DEF Linked, Normals, Forked, NoSonOf, Live
    <3>3. proc[p].of \in Linked' /\ entry'[proc[p].of] = entry[proc[p].of]
      BY <3>1, <3>2, ForkedLinked
    <3> QED BY <2>2, <3>1, <3>3
  <2> QED BY <2>1, <2>2, ForkedLive
<1>3. NoPid'
  BY ForkedLinked DEF Known, NoPid, Forked, HavePid
<1>4. Down'
  <2> SUFFICES ASSUME NEW r \in Deamons, r \in Linked', ~HavePid(entry'[r]),
                      NEW p \in Pids, proc'[p].of = r
               PROVE ~Live(p)'
    BY DEF Down, NoneOf, Live
  <2>1. CASE r = s
    <3>1. f = 0
      BY <2>1 DEF Forked, HavePid
    <3>2. NoneOf(ps, s)
      BY <2>1, <3>1 DEF Forked
    <3> QED BY <2>1, <3>1, <3>2, ForkedLive DEF Live
  <2>2. CASE r # s
    <3>1. r \in Linked /\ ~HavePid(entry[r]) /\ NoneOf(proc, r)
      BY <2>2, ForkedLinked, DeamonsAssumption DEF Known, Down
    <3> QED BY <2>2, <3>1, ForkedLive DEF NoneOf, Live
  <2> QED BY <2>1, <2>2
<1> QED BY <1>1, <1>2, <1>3, <1>4, <1>5 DEF Known

LEMMA ForkedUnique ==
  ASSUME Known, Unique, NEW s, NEW ps, NEW f, Forked(s, ps, f),
         s \notin lost' => NoneOf(ps, s)
  PROVE Unique'
PROOF
<1>1. \A r \in Services, p \in Pids : p \in LiveOf(r)' =>
        \/ p = f /\ f # 0 /\ r = s
        \/ /\ p \in LiveOf(r) /\ proc'[p] = proc[p]
           /\ r = s => s \in lost'
  BY ForkedLive DEF LiveOf
<1>2. \A r \in Services \ {s} : r \in lost' <=> r \in lost
  BY DEF Forked
<1>3. Tracked'
  <2> SUFFICES ASSUME NEW r \in Normals, r \in Linked', r \notin lost',
                      NEW p \in LiveOf(r)'
               PROVE entry'[r].pid = p
    BY DEF Tracked, Normals
  <2>1. p \in Pids /\ r \in Services
    BY DEF LiveOf, Normals
  <2>2. CASE r = s
    BY <1>1, <2>1, <2>2 DEF Forked
  <2>3. CASE r # s
    BY <1>1, <1>2, <2>1, <2>3, ForkedLinked DEF Unique, Tracked
  <2> QED BY <2>2, <2>3
<1>6. Gone'
  BY DEF Gone, Forked
<1>4. NoDouble'
  <2> SUFFICES ASSUME NEW r \in Services, r \notin lost',
                      NEW p \in LiveOf(r)', NEW q \in LiveOf(r)'
               PROVE p = q
    BY DEF NoDouble
  <2>1. p \in Pids /\ q \in Pids
    BY DEF LiveOf
  <2> QED BY <1>1, <1>2, <2>1 DEF Unique, NoDouble
<1>5. Up'
  <2> SUFFICES ASSUME NEW r \in Deamons, r \notin lost', r \notin Linked',
                      NEW p \in LiveOf(r)'
               PROVE p = pidfile'[r] /\ proc'[p].role = "main"
    BY DEF Up
  <2>1. p \in Pids /\ r \in Services /\ r # s /\ r \notin Linked
    BY ForkedLinked, DeamonsAssumption DEF LiveOf
  <2> QED BY <1>1, <1>2, <2>1 DEF Unique, Up, Forked
<1> QED BY <1>3, <1>4, <1>5, <1>6 DEF Unique

-----------------------------------------------------------------------------
(* The visits of a pass.                                                   *)

LEMMA WalkType ==
  ASSUME NEW left \in SUBSET Services
  PROVE /\ Walk(left) \in Pass
        /\ Walk(left).left = left
        /\ Walk(left).at = IF left = {} THEN "idle" ELSE "walk"
BY DEF Walk, Idle, Pass

(* The fork of a visit: nothing is left of what it looked for.              *)
LEMMA ForkKept ==
  ASSUME Known, NEW s \in pass.left, NEW f \in Pids \cup {0}, Fork(s, f)
  PROVE Known' /\ (Unique => Unique')
PROOF
<1> DEFINE x == IF HavePid(entry[s]) THEN smd_die(entry[s]) ELSE entry[s]
           y == smd_run(x, f, "pass")
<1>1. /\ TypeOK /\ s \in Linked /\ s \in Services /\ s = pass.of
      /\ pass.at = "fork" /\ entry[s] \in Entry /\ entry[s].link
  BY DEF Fork, Known, VisitOk, TypeOK, Linked
<1>2. x \in Entry /\ x.link /\ ~HavePid(x) /\ x.pid = 0
  <2>1. CASE HavePid(entry[s])
    <3>1. x = smd_die(entry[s])
      BY <2>1
    <3>2. /\ smd_die(entry[s]) \in Entry /\ smd_die(entry[s]).state = "die"
          /\ smd_die(entry[s]).pid = 0 /\ smd_die(entry[s]).link
      BY <1>1, DieType
    <3> QED BY <3>1, <3>2 DEF HavePid
  <2>2. CASE ~HavePid(entry[s])
    BY <1>1, <2>2 DEF Known, NoPid
  <2> QED BY <2>1, <2>2
<1>3. /\ f \in Free(proc) \cup {0}
      /\ entry' = [entry EXCEPT ![s] = y]
      /\ proc' = Started(proc, s, f)
      /\ pass' = Walk(pass.left \ {s})
      /\ pidfile' = pidfile /\ lost' = lost
  BY <1>1 DEF Fork, Visited
<1> HIDE DEF x
<1>4. /\ y \in Entry /\ y.link
      /\ f = 0 => y = x
      /\ f # 0 => y.state = "fork" /\ y.pid = f
  BY <1>2, RunType
<1> HIDE DEF y
<1>5. /\ entry' \in [Services -> Entry]
      /\ entry'[s] = y /\ \A r \in Services \ {s} : entry'[r] = entry[r]
  BY <1>1, <1>3, <1>4 DEF TypeOK
<1>6. NoSonOf(proc, s) /\ (s \in Deamons => NoneOf(proc, s))
  BY <1>1 DEF Known, VisitOk, NoSonOf, NoneOf, Normals
<1>7. Shrunk(proc)
  BY <1>1 DEF Shrunk, TypeOK
<1>8. /\ pass' \in Pass /\ pass'.left \subseteq Linked
      /\ pass'.at \in {"idle", "walk"}
      /\ pass'.at = "idle" => pass'.left = {}
  BY <1>1, <1>3, WalkType DEF Known, VisitOk, TypeOK, Pass
<1>9. Forked(s, proc, f)
  BY <1>1, <1>2, <1>3, <1>4, <1>5, <1>6, <1>7, <1>8 DEF Forked, HavePid
<1>10. ASSUME Unique, s \notin lost' PROVE NoneOf(proc, s)
  BY <1>1, <1>3, <1>6, <1>10 DEF Unique, Gone, Normals
<1>11. Known'
  BY <1>9, ForkedKnown
<1>12. ASSUME Unique PROVE Unique'
  BY <1>9, <1>10, <1>12, ForkedUnique
<1> QED BY <1>11, <1>12

(* A process that exists is noted as the one that runs.                     *)
LEMMA NotedKept ==
  ASSUME Known, pass.at = "check", os_pid_exist(proc, pass.pid),
         entry' = [entry EXCEPT ![pass.of] = smd_change(@, "run", pass.pid)],
         pass' = Visited, UNCHANGED <<proc, pidfile, lost>>
  PROVE Known' /\ (Unique => Unique')
PROOF
<1> DEFINE s == pass.of
           y == smd_change(entry[s], "run", pass.pid)
<1>1. /\ proc' = proc /\ pidfile' = pidfile /\ lost' = lost
      /\ TypeOK /\ s \in Linked /\ s \in Services /\ entry[s] \in Entry /\ entry[s].link
      /\ HavePid(entry[s]) /\ pass.pid \in Pids
      /\ s \in Normals => pass.pid = entry[s].pid
  BY DEF Known, VisitOk, TypeOK, Linked, os_pid_exist
<1>2. y \in Entry /\ y.state = "run" /\ y.pid = pass.pid /\ y.link
  <2>1. "run" \in States
    BY DEF States
  <2> QED BY <1>1, <2>1, ChangeType
<1>3. entry' = [entry EXCEPT ![s] = y]
  OBVIOUS
<1> HIDE DEF y, s
<1>4. /\ entry' \in [Services -> Entry]
      /\ \A r \in Services : /\ entry'[r].link = entry[r].link
                             /\ HavePid(entry'[r]) <=> HavePid(entry[r])
                             /\ HavePid(entry[r]) \/ entry'[r] = entry[r]
                             /\ r \in Normals => entry'[r].pid = entry[r].pid
  <2>1. /\ entry' \in [Services -> Entry]
        /\ entry'[s] = y /\ \A r \in Services \ {s} : entry'[r] = entry[r]
    BY <1>1, <1>2, <1>3 DEF TypeOK
  <2>2. HavePid(y) /\ (s \in Normals => y.pid = entry[s].pid) /\ y.link = entry[s].link
    BY <1>1, <1>2 DEF HavePid, Entry
  <2> QED BY <1>1, <2>1, <2>2
<1>5. Linked' = Linked
  BY <1>4 DEF Linked
<1>6. /\ pass' \in Pass /\ pass'.left \subseteq Linked
      /\ pass'.at \in {"idle", "walk"}
      /\ pass'.at = "idle" => pass'.left = {}
  BY <1>1, WalkType DEF Known, VisitOk, TypeOK, Pass, Visited
<1>7. TypeOK' /\ VisitOk'
  BY <1>1, <1>4, <1>5, <1>6 DEF TypeOK, VisitOk
<1>8. SonsAreKnown'
  BY <1>1, <1>4, <1>5 DEF Known, SonsAreKnown, Live, Linked, Normals
<1>9. NoPid' /\ Down'
  BY <1>1, <1>4, <1>5, DeamonsAssumption DEF Known, NoPid, Down, NoneOf
<1>10. ASSUME Unique PROVE Unique'
  <2>1. Gone'
    BY <1>6 DEF Gone
  <2>2. Tracked' /\ NoDouble' /\ Up'
    BY <1>1, <1>4, <1>5, <1>10
       DEF Unique, Tracked, NoDouble, Up, LiveOf, Live, Normals
  <2> QED BY <2>1, <2>2 DEF Unique
<1> QED BY <1>7, <1>8, <1>9, <1>10 DEF Known

(* A step that only moves the pass on.                                      *)
LEMMA MovedKept ==
  ASSUME Known, UNCHANGED <<entry, proc, pidfile, lost>>,
         pass' \in Pass, VisitOk', Unique => Gone'
  PROVE Known' /\ (Unique => Unique')
PROOF
<1>1. Linked' = Linked
  BY DEF Linked
<1>2. TypeOK' /\ SonsAreKnown' /\ NoPid' /\ Down'
  BY <1>1 DEF Known, TypeOK, SonsAreKnown, Live, NoPid, Down, NoneOf
<1>3. ASSUME Unique PROVE Unique'
  BY <1>1, <1>3 DEF Unique, Tracked, NoDouble, Up, LiveOf, Live
<1> QED BY <1>2, <1>3 DEF Known

LEMMA LookKept ==
  ASSUME Known, NEW s \in pass.left, Look(s)
  PROVE Known' /\ (Unique => Unique')
PROOF
<1>1. /\ TypeOK /\ s \in Linked /\ s \in Services /\ entry[s] \in Entry
      /\ pass \in Pass /\ pass.at = "walk" /\ pass.left \subseteq Linked
      /\ UNCHANGED <<entry, proc, pidfile, lost>>
  BY DEF Look, Known, VisitOk, TypeOK, Linked
<1>2. Linked' = Linked
  BY <1>1 DEF Linked
<1>3. CASE ~HavePid(entry[s]) /\ pass' = Visiting(s, "kill", 0)
  <2>1. /\ pass' \in Pass /\ pass'.at = "kill" /\ pass'.of = s /\ pass'.left = pass.left
    BY <1>1, <1>3 DEF Visiting, Pass
  <2>2. entry[s].pid = 0
    BY <1>1, <1>3 DEF Known, NoPid
  <2>3. s \in Normals => NoSonOf(proc, s)
    BY <1>1, <2>2, PidsAssumption DEF Known, SonsAreKnown, NoSonOf, Live
  <2>4. VisitOk'
    BY <1>1, <1>2, <2>1, <2>3 DEF VisitOk, NoSonOf
  <2>5. ASSUME Unique PROVE Gone'
    <3>1. s \in Normals \ lost => NoneOf(proc, s)
      BY <1>1, <2>2, <2>5, PidsAssumption DEF Unique, Tracked, NoneOf, LiveOf, Live
    <3> QED BY <1>1, <2>1, <3>1 DEF Gone, NoneOf
  <2> QED BY <1>1, <2>1, <2>4, <2>5, MovedKept
<1>4. CASE /\ entry[s].state = "run" \/ smd_is_timeout(entry[s])
           /\ pass' = Visiting(s, "check", WatchedPid(s))
  <2>1. HavePid(entry[s])
    BY <1>4 DEF HavePid, smd_is_timeout
  <2>2. WatchedPid(s) \in Pids \cup {0} /\ (s \in Normals => WatchedPid(s) = entry[s].pid)
    BY <1>1 DEF WatchedPid, TypeOK, Entry, Normals
  <2>3. /\ pass' \in Pass /\ pass'.at = "check" /\ pass'.of = s
        /\ pass'.left = pass.left /\ pass'.pid = WatchedPid(s)
    BY <1>1, <1>4, <2>2 DEF Visiting, Pass
  <2>4. VisitOk' /\ Gone'
    BY <1>1, <1>2, <2>1, <2>2, <2>3 DEF VisitOk, Gone
  <2> QED BY <1>1, <2>3, <2>4, MovedKept
<1>5. CASE pass' = Walk(pass.left \ {s})
  <2>1. /\ pass' \in Pass /\ pass'.left \subseteq Linked
        /\ pass'.at \in {"idle", "walk"}
        /\ pass'.at = "idle" => pass'.left = {}
    BY <1>1, <1>5, WalkType DEF Pass
  <2>2. VisitOk' /\ Gone'
    BY <1>2, <2>1 DEF VisitOk, Gone
  <2> QED BY <1>1, <2>1, <2>2, MovedKept
<1> QED BY <1>3, <1>4, <1>5 DEF Look

LEMMA CheckKept ==
  ASSUME Known, smd_wait_ok
  PROVE Known' /\ (Unique => Unique')
PROOF
<1>1. CASE os_pid_exist(proc, pass.pid)
  BY <1>1, NotedKept DEF smd_wait_ok
<1>2. CASE ~os_pid_exist(proc, pass.pid)
  <2> DEFINE s == pass.of
  <2>1. /\ TypeOK /\ s \in Linked /\ s \in Services
        /\ pass \in Pass /\ pass.at = "check" /\ pass.left \subseteq Linked
        /\ UNCHANGED <<entry, proc, pidfile, lost>>
        /\ pass' = Visiting(s, "kill", 0)
        /\ s \in Normals => ~os_pid_exist(proc, entry[s].pid)
    BY <1>2 DEF smd_wait_ok, Known, VisitOk, TypeOK, Linked
  <2> HIDE DEF s
  <2>2. Linked' = Linked
    BY <2>1 DEF Linked
  <2>3. /\ pass' \in Pass /\ pass'.at = "kill" /\ pass'.of = s /\ pass'.left = pass.left
    BY <2>1 DEF Visiting, Pass
  <2>4. s \in Normals => NoSonOf(proc, s)
    BY <2>1 DEF Known, SonsAreKnown, NoSonOf, Live, os_pid_exist
  <2>5. VisitOk'
    BY <2>1, <2>2, <2>3, <2>4 DEF VisitOk, NoSonOf
  <2>6. ASSUME Unique PROVE Gone'
    <3>1. s \in Normals \ lost => NoneOf(proc, s)
      BY <2>1, <2>6 DEF Unique, Tracked, NoneOf, LiveOf, Live, os_pid_exist
    <3> QED BY <2>1, <2>3, <3>1 DEF Gone, NoneOf
  <2> QED BY <2>1, <2>3, <2>5, <2>6, MovedKept
<1> QED BY <1>1, <1>2

(* Whatever has started since the check is told to end with the rest.       *)
LEMMA KillKept ==
  ASSUME Known, KillDeamon
  PROVE Known' /\ (Unique => Unique')
PROOF
<1> DEFINE s == pass.of
           ps == smd_kill_deamon(proc, s)
<1>1. /\ TypeOK /\ s \in Linked /\ s \in Services
      /\ pass \in Pass /\ pass.at = "kill" /\ pass.left \subseteq Linked
      /\ entry' = entry /\ pidfile' = pidfile /\ proc' = ps
      /\ lost' = lost \ ({s} \cap Deamons)
      /\ pass' = Visiting(s, "fork", 0)
      /\ s \in Normals => NoSonOf(proc, s)
  BY DEF KillDeamon, Known, VisitOk, TypeOK, Linked
<1>2. /\ Shrunk(ps)
      /\ s \in Deamons => NoneOf(ps, s)
      /\ s \notin Deamons => ps = proc
  BY <1>1, KillDeamonShrinks
<1> HIDE DEF s, ps
<1>3. Linked' = Linked
  BY <1>1 DEF Linked
<1>4. /\ pass' \in Pass /\ pass'.at = "fork" /\ pass'.of = s /\ pass'.left = pass.left
  BY <1>1 DEF Visiting, Pass
<1>5. TypeOK'
  BY <1>1, <1>2, <1>4 DEF TypeOK, Shrunk
<1>6. VisitOk'
  BY <1>1, <1>2, <1>3, <1>4 DEF VisitOk, Normals
<1>7. \A p \in Pids : Live(p)' => Live(p) /\ proc'[p] = proc[p]
  BY <1>1, <1>2 DEF Shrunk, Live
<1>8. SonsAreKnown' /\ NoPid'
  BY <1>1, <1>3, <1>7 DEF Known, SonsAreKnown, NoPid
<1>9. Down'
  BY <1>1, <1>3, <1>7 DEF Known, Down, NoneOf, Live
<1>10. ASSUME Unique PROVE Unique'
  <2>1. \A r \in Services : \A p \in LiveOf(r)' :
          /\ p \in LiveOf(r) /\ proc'[p] = proc[p]
          /\ r \in lost' <=> r \in lost
    <3>1. ASSUME NEW r \in Services, NEW p \in LiveOf(r)', r = s PROVE s \notin Deamons
      BY <1>1, <1>2, <3>1 DEF LiveOf, Live, NoneOf
    <3> QED BY <1>1, <1>7, <3>1 DEF LiveOf
  <2>2. Tracked' /\ NoDouble'
    BY <1>1, <1>3, <1>10, <2>1 DEF Unique, Tracked, NoDouble, Normals
  <2>3. Up'
    BY <1>1, <1>3, <1>10, <2>1, DeamonsAssumption DEF Unique, Up
  <2>4. Gone'
    BY <1>1, <1>2, <1>4, <1>10 DEF Unique, Gone, Normals, s
  <2> QED BY <2>2, <2>3, <2>4 DEF Unique
<1> QED BY <1>5, <1>6, <1>8, <1>9, <1>10 DEF Known

LEMMA VisitKept ==
  ASSUME Known, Visit PROVE Known' /\ (Unique => Unique')
BY LookKept, CheckKept, KillKept, ForkKept DEF Visit

LEMMA InsertKept ==
  ASSUME Known, NEW s \in Services, Insert(s)
  PROVE Known' /\ (Unique => Unique')
PROOF
<1> DEFINE found == IF s \in Deamons
                    THEN {p \in {pidfile[s]} : os_pid_exist(proc, p)}
                    ELSE smd_get_normal_pid(s)
           sure == IF s \in Deamons THEN found ELSE LiveOf(s)
<1>1. /\ TypeOK /\ s \notin Linked /\ entry[s].link = FALSE
      /\ pass.at = "idle" /\ UNCHANGED <<pidfile, pass>>
  BY DEF Insert, Commanded, Known, Linked, TypeOK, Entry
<1>2. found \subseteq Pids
  BY DEF os_pid_exist, smd_get_normal_pid, LiveOf
<1>3. CASE \E p \in found : /\ entry' = [entry EXCEPT ![s] = smd_change(Created, "run", p)]
                            /\ lost' = LostBy(s, p)
                            /\ UNCHANGED proc
  <2>1. PICK p \in found : /\ entry' = [entry EXCEPT ![s] = smd_change(Created, "run", p)]
                           /\ lost' = LostBy(s, p)
    BY <1>3
  <2> DEFINE y == smd_change(Created, "run", p)
  <2>2. /\ y \in Entry /\ y.state = "run" /\ y.pid = p /\ y.link
    <3>1. "run" \in States /\ p \in Pids
      BY <1>2 DEF States
    <3> QED BY <3>1, CreatedType, ChangeType
  <2> HIDE DEF y
  <2>3. /\ entry' \in [Services -> Entry]
        /\ entry'[s] = y /\ \A r \in Services \ {s} : entry'[r] = entry[r]
    BY <1>1, <2>1, <2>2 DEF TypeOK, y
  <2>4. Linked' = Linked \cup {s}
    BY <2>2, <2>3 DEF Linked
  <2>5. proc' = proc /\ VisitOk'
    BY <1>1, <1>3, <2>4 DEF Known, VisitOk
  <2>6. TypeOK'
    BY <1>1, <2>1, <2>3, <2>5 DEF TypeOK, LostBy
  <2>7. SonsAreKnown'
    BY <1>1, <2>3, <2>4, <2>5 DEF Known, SonsAreKnown, Live, Linked, Normals
  <2>8. NoPid' /\ Down'
    BY <2>2, <2>3, <2>4, <2>5, DeamonsAssumption
       DEF Known, NoPid, Down, NoneOf, HavePid
  <2>9. ASSUME Unique PROVE Unique'
    <3>1. /\ \A r \in Services \ {s} : r \in lost' <=> r \in lost
          /\ s \in Deamons => lost' = lost
          /\ s \in Normals /\ s \notin lost' /\ LiveOf(s) # {} =>
               p \in LiveOf(s) /\ s \notin lost
      BY <1>1, <2>1 DEF LostBy, Normals, TypeOK
    <3>2. \A r \in Services : LiveOf(r)' = LiveOf(r)
      BY <2>5 DEF LiveOf, Live
    <3>3. Tracked'
      <4> SUFFICES ASSUME NEW r \in Normals, r \in Linked', r \notin lost',
                          NEW q \in LiveOf(r)
                   PROVE entry'[r].pid = q
        BY <3>2 DEF Tracked, Normals
      <4>1. r \in Services
        BY DEF Normals
      <4>2. CASE r = s
        <5>1. p \in LiveOf(s) /\ s \notin lost
          BY <3>1, <4>2
        <5>2. p = q
          BY <2>9, <4>2, <5>1 DEF Unique, NoDouble
        <5> QED BY <2>2, <2>3, <4>2, <5>2
      <4>3. CASE r # s
        BY <2>3, <2>4, <2>9, <3>1, <4>1, <4>3 DEF Unique, Tracked
      <4> QED BY <4>2, <4>3
    <3>4. NoDouble'
      <4> SUFFICES ASSUME NEW r \in Services, r \notin lost',
                          NEW a \in LiveOf(r), NEW q \in LiveOf(r)
                   PROVE a = q
        BY <3>2 DEF NoDouble
      <4>1. r \notin lost
        BY <3>1 DEF Normals
      <4> QED BY <2>9, <4>1 DEF Unique, NoDouble
    <3>5. Up'
      <4> SUFFICES ASSUME NEW r \in Deamons, r \notin lost', r \notin Linked',
                          NEW q \in LiveOf(r)
                   PROVE q = pidfile[r] /\ proc[q].role = "main"
        BY <1>1, <2>5, <3>2, DeamonsAssumption DEF Up
      <4>1. r \in Services /\ r # s /\ r \notin Linked
        BY <2>4, DeamonsAssumption
      <4> QED BY <2>9, <3>1, <4>1 DEF Unique, Up
    <3>6. Gone'
      BY <1>1 DEF Gone
    <3> QED BY <3>3, <3>4, <3>5, <3>6 DEF Unique
  <2> QED BY <2>5, <2>6, <2>7, <2>8, <2>9 DEF Known
<1>4. CASE /\ sure = {}
           /\ \E p \in Free(proc) :
                /\ entry' = [entry EXCEPT ![s] = smd_run(Created, p, "command")]
                /\ proc' = Started(proc, s, p)
                /\ lost' = LostBy(s, p)
  <2>1. PICK p \in Free(proc) :
          /\ entry' = [entry EXCEPT ![s] = smd_run(Created, p, "command")]
          /\ proc' = Started(proc, s, p)
          /\ lost' = LostBy(s, p)
    BY <1>4
  <2> DEFINE y == smd_run(Created, p, "command")
  <2>2. p \in Pids /\ p # 0
    BY PidsAssumption DEF Free
  <2>3. y \in Entry /\ y.state = "fork" /\ y.pid = p /\ y.link
    BY <2>2, CreatedType, RunType
  <2> HIDE DEF y
  <2>4. /\ entry' \in [Services -> Entry]
        /\ entry'[s] = y /\ \A r \in Services \ {s} : entry'[r] = entry[r]
    BY <1>1, <2>1, <2>3 DEF TypeOK, y
  <2>5. NoSonOf(proc, s)
    BY <1>1 DEF Known, SonsAreKnown, NoSonOf, Live
  <2>6. Shrunk(proc)
    BY <1>1 DEF Shrunk, TypeOK
  <2>7. ASSUME s \in Deamons \ lost \/ s \notin Deamons, Unique PROVE NoneOf(proc, s)
    <3>1. CASE s \in Deamons
      BY <1>1, <1>4, <2>7, <3>1
         DEF Unique, Up, LiveOf, Live, NoneOf, os_pid_exist
    <3>2. CASE s \notin Deamons
      BY <1>4, <3>2 DEF LiveOf, Live, NoneOf
    <3> QED BY <3>1, <3>2
  <2>8. Forked(s, proc, p)
    <3>1. lost' \in {lost, lost \ {s}}
      BY <1>4, <2>1 DEF LostBy
    <3>2. s \in Services /\ p \in Free(proc) \cup {0} /\ p # 0
      BY <2>2
    <3>3. /\ pass' \in Pass /\ pass'.left \subseteq Linked /\ pass'.at = "idle"
          /\ pass'.left = {}
      BY <1>1 DEF Known, VisitOk, TypeOK
    <3> QED BY <1>1, <2>1, <2>3, <2>4, <2>5, <2>6, <3>1, <3>2, <3>3 DEF Forked
  <2>9. Known'
    BY <2>8, ForkedKnown
  <2>10. ASSUME Unique PROVE Unique'
    <3>1. s \notin lost' => NoneOf(proc, s)
      BY <1>1, <2>1, <2>7, <2>10 DEF LostBy
    <3> QED BY <2>8, <2>10, <3>1, ForkedUnique
  <2> QED BY <2>9, <2>10
<1> QED BY <1>3, <1>4 DEF Insert

LEMMA ReapKept ==
  ASSUME Known, NEW z \in Zombies, Reap(z)
  PROVE Known' /\ (Unique => Unique')
PROOF
<1> DEFINE ps == [proc EXCEPT ![z] = NoProcess]
<1>1. /\ TypeOK /\ z \in Pids /\ proc[z].role = "zombie"
      /\ UNCHANGED <<pidfile, pass, lost>>
  BY DEF Reap, Known, Zombies
<1>2. /\ ps \in [Pids -> Process] /\ Shrunk(ps)
      /\ \A p \in Pids : ps[p].role \in {"launcher", "main"} <=> Live(p)
      /\ \A p \in Pids : Live(p) => ps[p] = proc[p]
  BY <1>1 DEF TypeOK, Shrunk, NoProcess, Process, Live
<1> HIDE DEF ps
<1>3. ASSUME NEW r \in Services, NEW p \in Pids, proc' = ps, p \in LiveOf(r)'
      PROVE p \in LiveOf(r) /\ proc'[p] = proc[p]
  BY <1>2, <1>3 DEF LiveOf, Live
<1>7. pass' = pass /\ pass.at = "reap" /\ pass.left = {}
  BY DEF Reap, Known, VisitOk
<1>4. CASE proc' = ps /\ UNCHANGED entry
  <2>1. Linked' = Linked
    BY <1>4 DEF Linked
  <2>2. TypeOK' /\ VisitOk'
    BY <1>1, <1>2, <1>4, <1>7, <2>1 DEF Known, TypeOK, VisitOk
  <2>3. SonsAreKnown' /\ NoPid' /\ Down'
    BY <1>2, <1>4, <2>1 DEF Known, SonsAreKnown, NoPid, Down, NoneOf, Live
  <2>4. ASSUME Unique PROVE Unique'
    <3>1. Tracked'
      BY <1>1, <1>3, <1>4, <2>1, <2>4 DEF Unique, Tracked, Normals, LiveOf
    <3>2. NoDouble' /\ Up'
      BY <1>1, <1>3, <1>4, <2>1, <2>4, DeamonsAssumption
         DEF Unique, NoDouble, Up, LiveOf
    <3>3. Gone'
      BY <1>7 DEF Gone
    <3> QED BY <3>1, <3>2, <3>3 DEF Unique
  <2> QED BY <2>2, <2>3, <2>4 DEF Known
<1>5. ASSUME NEW s \in smd_getbynormal(z), smd_wait_son(s, ps)
      PROVE Known' /\ (Unique => Unique')
  <2>1. s \in Linked /\ s \in Services /\ entry[s].pid = z /\ entry[s] \in Entry
        /\ entry[s].link
    BY <1>1 DEF smd_getbynormal, Linked, TypeOK
  <2>2. CASE s \in Deamons
    <3> DEFINE y == smd_change(entry[s], entry[s].state, 0)
    <3>1. /\ entry' = [entry EXCEPT ![s] = y] /\ proc' = ps
      BY <1>5, <2>2 DEF smd_wait_son
    <3>2. /\ y \in Entry /\ y.state = entry[s].state /\ y.pid = 0 /\ y.link
      <4>1. entry[s].state \in States /\ 0 \in Pids \cup {0}
        BY <2>1 DEF Entry, States
      <4> QED BY <2>1, <4>1, ChangeType
    <3> HIDE DEF y
    <3>3. /\ entry' \in [Services -> Entry]
          /\ entry'[s] = y /\ \A r \in Services \ {s} : entry'[r] = entry[r]
      BY <1>1, <2>1, <3>1, <3>2 DEF TypeOK
    <3>4. Linked' = Linked
      BY <2>1, <3>2, <3>3 DEF Linked
    <3>5. TypeOK' /\ VisitOk'
      BY <1>1, <1>2, <1>7, <3>1, <3>3, <3>4 DEF Known, TypeOK, VisitOk
    <3>6. SonsAreKnown'
      BY <1>2, <2>2, <3>1, <3>3, <3>4 DEF Known, SonsAreKnown, Live, Linked, Normals
    <3>7. NoPid' /\ Down'
      BY <1>2, <3>1, <3>2, <3>3, <3>4, DeamonsAssumption
         DEF Known, NoPid, Down, NoneOf, Live, HavePid
    <3>8. ASSUME Unique PROVE Unique'
      <4>1. Tracked'
        <5> SUFFICES ASSUME NEW r \in Normals, r \in Linked', r \notin lost',
                            NEW p \in LiveOf(r)'
                     PROVE entry'[r].pid = p
          BY DEF Tracked, Normals
        <5>1. r \in Services /\ r # s /\ p \in Pids
          BY <2>2 DEF Normals, LiveOf
        <5> QED BY <1>1, <1>3, <3>1, <3>3, <3>4, <3>8, <5>1 DEF Unique, Tracked
      <4>2. NoDouble' /\ Up'
        BY <1>1, <1>3, <3>1, <3>4, <3>8, DeamonsAssumption
           DEF Unique, NoDouble, Up, LiveOf
      <4>3. Gone'
        BY <1>7 DEF Gone
      <4> QED BY <4>1, <4>2, <4>3 DEF Unique
    <3> QED BY <3>5, <3>6, <3>7, <3>8 DEF Known
  <2>3. CASE s \notin Deamons
    <3>1. PICK f \in Free(ps) \cup {0} :
            /\ entry' = [entry EXCEPT ![s] = smd_run(smd_die(entry[s]), f, "pass")]
            /\ proc' = Started(ps, s, f)
      BY <1>5, <2>3 DEF smd_wait_son
    <3> DEFINE x == smd_die(entry[s])
               y == smd_run(x, f, "pass")
    <3>2. /\ x \in Entry /\ x.state = "die" /\ x.pid = 0 /\ x.link
      BY <2>1, DieType
    <3> HIDE DEF x
    <3>3. /\ y \in Entry /\ y.link
          /\ f = 0 => y = x
          /\ f # 0 => y.state = "fork" /\ y.pid = f
      <4>1. f \in Pids \cup {0}
        BY DEF Free
      <4> QED BY <3>2, <4>1, RunType
    <3>4. entry' = [entry EXCEPT ![s] = y]
      BY <3>1 DEF x
    <3> HIDE DEF y
    <3>5. /\ entry' \in [Services -> Entry]
          /\ entry'[s] = y /\ \A r \in Services \ {s} : entry'[r] = entry[r]
      BY <1>1, <2>1, <3>3, <3>4 DEF TypeOK
    <3>6. NoSonOf(ps, s)
      BY <1>1, <1>2, <2>1, <2>3
         DEF Known, SonsAreKnown, NoSonOf, Live, Normals
    <3>7. Forked(s, ps, f)
      <4>1. /\ pass' \in Pass /\ pass'.left \subseteq Linked
            /\ pass'.at = "reap" /\ pass'.left = {}
        BY <1>1, <1>7 DEF TypeOK
      <4> QED BY <1>1, <1>2, <2>1, <2>3, <3>1, <3>2, <3>3, <3>5, <3>6, <4>1
              DEF Forked, HavePid
    <3>8. ASSUME Unique, s \notin lost' PROVE NoneOf(ps, s)
      BY <1>1, <1>2, <2>1, <2>3, <3>8
         DEF Unique, Tracked, LiveOf, NoneOf, Live, Normals
    <3> QED BY <3>7, <3>8, ForkedKnown, ForkedUnique
  <2> QED BY <2>2, <2>3
<1>6. \/ proc' = ps /\ UNCHANGED entry
      \/ \E s \in smd_getbynormal(z) : smd_wait_son(s, ps)
  BY DEF Reap, ps
<1> QED BY <1>4, <1>5, <1>6

-----------------------------------------------------------------------------
(* Removals.                                                               *)

LEMMA FreedType ==
  ASSUME NEW x \in Entry, ~HavePid(x) => x.pid = 0
  PROVE /\ Freed(x) \in Entry
        /\ ~HavePid(Freed(x)) /\ Freed(x).pid = 0
PROOF
<1> DEFINE u == [x EXCEPT !.link = FALSE]
           k == IF HavePid(x) THEN smd_die(u) ELSE u
<1>1. u \in Entry /\ u.state = x.state /\ u.pid = x.pid
  BY DEF Entry
<1> HIDE DEF u
<1>2. k \in Entry /\ ~HavePid(k) /\ k.pid = 0
  BY <1>1, DieType DEF HavePid
<1> HIDE DEF k
<1>3. /\ [k EXCEPT !.used = FALSE] \in Entry
      /\ [k EXCEPT !.used = FALSE].state = k.state
      /\ [k EXCEPT !.used = FALSE].pid = k.pid
  BY <1>2 DEF Entry
<1>4. Freed(x) = IF k.link THEN [k EXCEPT !.used = FALSE] ELSE NoEntry
  BY DEF Freed, k, u
<1>5. CASE k.link
  <2>1. Freed(x) = [k EXCEPT !.used = FALSE]
    BY <1>4, <1>5
  <2> QED BY <1>2, <1>3, <2>1 DEF HavePid
<1>6. CASE ~k.link
  BY <1>4, <1>6, CreatedType DEF HavePid
<1> QED BY <1>5, <1>6

LEMMA RemoveKept ==
  ASSUME Known, pass.at = "idle", NEW S \in SUBSET Linked, smd_remove(S),
         UNCHANGED <<pidfile, pass>>
  PROVE Known' /\ (Unique => Unique')
PROOF
<1> DEFINE K == smd_kill(S)
           dead == {entry[s].pid : s \in K}
           shot == [p \in Pids |-> IF p \in dead /\ proc[p].role # "none"
                                   THEN Dead(proc[p]) ELSE proc[p]]
<1>1. /\ entry' = [s \in Services |-> IF s \in S THEN Freed(entry[s]) ELSE entry[s]]
      /\ proc' = [p \in Pids |-> IF /\ shot[p].of \in K \cap Deamons
                                    /\ shot[p].role \in {"launcher", "main"}
                                 THEN [shot[p] EXCEPT !.role = "ending"] ELSE shot[p]]
      /\ lost' = lost \ (K \cap Deamons)
  BY DEF smd_remove
<1>2. /\ TypeOK /\ S \subseteq Services
      /\ K = {s \in S : HavePid(entry[s])}
  BY DEF Known, Linked, smd_kill
<1>3. shot \in [Pids -> Process]
      /\ \A p \in Pids : shot[p].role \in {"launcher", "main"} =>
                           p \notin dead /\ shot[p] = proc[p]
  BY <1>2, DeadType DEF TypeOK, Process
<1>4. proc' \in [Pids -> Process]
      /\ \A p \in Pids : Live(p)' =>
           /\ proc'[p] = proc[p] /\ Live(p) /\ p \notin dead
           /\ proc[p].of \notin K \cap Deamons
  <2> HIDE DEF shot, dead, K
  <2> QED BY <1>1, <1>3 DEF Live, Process
<1>5. \A s \in S : Freed(entry[s]) \in Entry /\ ~HavePid(Freed(entry[s]))
                   /\ Freed(entry[s]).pid = 0
  BY <1>2, FreedType DEF Known, NoPid, TypeOK
<1>6. /\ entry' \in [Services -> Entry]
      /\ \A s \in Services \ S : entry'[s] = entry[s]
      /\ \A s \in S : ~HavePid(entry'[s]) /\ entry'[s].pid = 0
  BY <1>1, <1>2, <1>5 DEF TypeOK
<1>7. ASSUME NEW p \in Pids, Live(p)', proc'[p].of \in S
      PROVE /\ proc'[p].of \in Normals
            /\ ~proc'[p].son
            /\ Unique => proc'[p].of \in lost
  <2> DEFINE s == proc[p].of
  <2>1. /\ proc'[p] = proc[p] /\ Live(p) /\ p \notin dead /\ s \notin K \cap Deamons
        /\ s \in S /\ s \in Linked /\ s \in Services
    BY <1>2, <1>4, <1>7
  <2>2. s \in K \/ s \in Deamons => s \in Normals
    BY <1>2, <2>1 DEF Known, Down, NoneOf, Live, Normals
  <2>3. s \in Normals
    BY <2>1, <2>2 DEF Normals
  <2>4. entry[s].pid # p
    <3>1. CASE s \in K
      BY <2>1, <3>1
    <3>2. CASE s \notin K
      BY <1>2, <2>1, <3>2, PidsAssumption DEF Known, NoPid
    <3> QED BY <3>1, <3>2
  <2>5. ~proc[p].son
    BY <2>1, <2>3, <2>4 DEF Known, SonsAreKnown
  <2>6. ASSUME Unique PROVE s \in lost
    BY <2>1, <2>3, <2>4, <2>6 DEF Unique, Tracked, LiveOf
  <2> QED BY <2>1, <2>3, <2>5, <2>6
<1> HIDE DEF K, dead, shot
<1>8. TypeOK' /\ VisitOk'
  BY <1>1, <1>2, <1>4, <1>6 DEF Known, TypeOK, VisitOk
<1>9. SonsAreKnown'
  <2> SUFFICES ASSUME NEW p \in Pids, Live(p)', proc'[p].son
               PROVE /\ proc'[p].of \in Linked'
                     /\ proc'[p].of \in Normals => entry'[proc'[p].of].pid = p
    BY DEF SonsAreKnown
  <2>1. proc'[p] = proc[p] /\ Live(p) /\ proc[p].of \notin S
    BY <1>4, <1>7
  <2> QED BY <1>6, <2>1 DEF Known, SonsAreKnown, Linked
<1>10. NoPid'
  BY <1>6 DEF Known, NoPid
<1>11. Down'
  <2> SUFFICES ASSUME NEW r \in Deamons, r \in Linked', ~HavePid(entry'[r]),
                      NEW p \in Pids, proc'[p].of = r, Live(p)'
               PROVE FALSE
    BY DEF Down, NoneOf, Live
  <2>1. CASE r \in S
    BY <1>7, <2>1 DEF Normals
  <2>2. CASE r \notin S
    BY <1>4, <1>6, <2>2, DeamonsAssumption DEF Known, Down, NoneOf, Live, Linked
  <2> QED BY <2>1, <2>2
<1>12. ASSUME Unique PROVE Unique'
  <2>1. \A r \in Services : \A p \in LiveOf(r)' :
          /\ p \in LiveOf(r) /\ proc'[p] = proc[p]
          /\ r \in S => r \in Normals \cap lost
    BY <1>4, <1>7, <1>12 DEF LiveOf
  <2>2. \A r \in Services \ S : (r \in Linked' <=> r \in Linked) /\ (r \in lost' <=> r \in lost)
    BY <1>1, <1>2, <1>6 DEF Linked
  <2>3. \A r \in Services : \A p \in LiveOf(r)' : r \notin lost' => r \notin S
    BY <1>1, <2>1 DEF Normals
  <2>4. Tracked'
    BY <1>6, <1>12, <2>1, <2>2, <2>3 DEF Unique, Tracked, Normals
  <2>5. NoDouble'
    BY <1>12, <2>1, <2>2, <2>3 DEF Unique, NoDouble
  <2>6. Up'
    BY <1>12, <2>1, <2>2, <2>3, DeamonsAssumption DEF Unique, Up
  <2>7. Gone'
    BY DEF Gone
  <2> QED BY <2>4, <2>5, <2>6, <2>7 DEF Unique
<1> QED BY <1>8, <1>9, <1>10, <1>11, <1>12 DEF Known

-----------------------------------------------------------------------------
(* Steps that leave the table as it is but for ages.                       *)

SameTable ==
  /\ entry' \in [Services -> Entry]
  /\ \A s \in Services : /\ entry'[s].link = entry[s].link
                         /\ entry'[s].state = entry[s].state
                         /\ entry'[s].pid = entry[s].pid

LEMMA SameTableKept ==
  ASSUME Known, SameTable, TypeOK', VisitOk',
         \A p \in Pids : Live(p)' =>
           /\ proc'[p].son => Live(p) /\ proc'[p] = proc[p]
           /\ proc'[p].of \in Services =>
                \E q \in Pids : Live(q) /\ proc[q].of = proc'[p].of
  PROVE Known'
PROOF
<1>1. Linked' = Linked
  BY DEF SameTable, Linked
<1>2. SonsAreKnown'
  BY <1>1 DEF Known, SonsAreKnown, SameTable, Linked, Normals
<1>3. NoPid'
  BY DEF Known, NoPid, SameTable, HavePid
<1>4. Down'
  BY <1>1, DeamonsAssumption DEF Known, Down, NoneOf, SameTable, HavePid, Live
<1> QED BY <1>1, <1>2, <1>3, <1>4 DEF Known

LEMMA SameTableUnique ==
  ASSUME Unique, SameTable, lost' = lost, pidfile' = pidfile, Gone',
         \A p \in Pids : Live(p)' /\ proc'[p].of # Other =>
           Live(p) /\ proc'[p] = proc[p]
  PROVE Unique'
PROOF
<1>1. Linked' = Linked
  BY DEF SameTable, Linked
<1>2. \A s \in Services : \A p \in LiveOf(s)' : p \in LiveOf(s) /\ proc'[p] = proc[p]
  BY OtherAssumption DEF LiveOf
<1>3. Tracked'
  BY <1>1, <1>2 DEF Unique, Tracked, SameTable, Normals
<1>4. NoDouble'
  BY <1>2 DEF Unique, NoDouble
<1>5. Up'
  BY <1>1, <1>2, DeamonsAssumption DEF Unique, Up
<1> QED BY <1>3, <1>4, <1>5 DEF Unique

(* Where nothing of smd's is started, a visit goes on.                      *)
LEMMA VisitStays ==
  ASSUME Known, SameTable, pass' = pass, lost' = lost,
         \A p \in Pids : Live(p)' =>
           /\ proc'[p].son => Live(p) /\ proc'[p] = proc[p]
           /\ proc'[p].of \in Services =>
                \E q \in Pids : Live(q) /\ proc[q].of = proc'[p].of
  PROVE VisitOk' /\ (Gone => Gone')
PROOF
<1>1. Linked' = Linked
  BY DEF SameTable, Linked
<1>2. ASSUME NEW s \in Services
      PROVE /\ NoSonOf(proc, s) => NoSonOf(proc, s)'
            /\ NoneOf(proc, s) => NoneOf(proc, s)'
  BY <1>2 DEF NoSonOf, NoneOf, Live
<1>3. /\ pass.left \subseteq Linked
      /\ pass.at \in {"idle", "reap"} => pass.left = {}
      /\ pass.at \in {"check", "kill", "fork"} => pass.of \in Linked
      /\ pass.at = "check" => /\ HavePid(entry[pass.of])
                              /\ pass.of \in Normals => pass.pid = entry[pass.of].pid
      /\ pass.at \in {"kill", "fork"} /\ pass.of \in Normals => NoSonOf(proc, pass.of)
      /\ pass.at = "fork" /\ pass.of \in Deamons => NoneOf(proc, pass.of)
  BY DEF Known, VisitOk
<1>4. pass.at = "check" => /\ HavePid(entry'[pass.of])
                           /\ pass.of \in Normals => pass.pid = entry'[pass.of].pid
  BY <1>3 DEF SameTable, Linked, HavePid
<1>5. VisitOk'
  BY <1>1, <1>2, <1>3, <1>4, DeamonsAssumption DEF VisitOk, Normals
<1>6. ASSUME Gone PROVE Gone'
  BY <1>2, <1>6 DEF Gone, Normals
<1> QED BY <1>5, <1>6

LEMMA TableStays == ASSUME TypeOK, UNCHANGED entry PROVE SameTable
BY DEF TypeOK, SameTable

LEMMA StartPassKept ==
  ASSUME Known, StartPass PROVE Known' /\ (Unique => Unique')
PROOF
<1>1. SameTable
  <2>1. \A x \in Entry : \A y \in Waited(x) :
          y \in Entry /\ y.link = x.link /\ y.state = x.state /\ y.pid = x.pid
    BY DEF Waited, Entry
  <2> QED BY <2>1 DEF StartPass, SameTable, Known, TypeOK
<1>2. TypeOK'
  BY <1>1 DEF StartPass, Known, TypeOK, SameTable, Pass, Idle
<1>3. /\ proc' = proc /\ pidfile' = pidfile /\ lost' = lost
      /\ VisitOk' /\ Gone'
  BY DEF StartPass, Idle, VisitOk, Gone
<1>4. Known'
  BY <1>1, <1>2, <1>3, SameTableKept DEF Live
<1>5. ASSUME Unique PROVE Unique'
  BY <1>1, <1>3, <1>5, SameTableUnique DEF Live
<1> QED BY <1>4, <1>5

LEMMA EndReapKept ==
  ASSUME Known, EndReap PROVE Known' /\ (Unique => Unique')
PROOF
<1>1. SameTable
  BY TableStays DEF EndReap, Known
<1>2. /\ proc' = proc /\ pidfile' = pidfile /\ lost' = lost /\ entry' = entry
      /\ pass' \in Pass /\ pass'.left = Linked
      /\ pass'.at = IF Linked = {} THEN "idle" ELSE "walk"
  <2>1. Linked \in SUBSET Services
    BY DEF Linked
  <2> QED BY <2>1, WalkType DEF EndReap
<1>3. TypeOK' /\ VisitOk' /\ Gone'
  BY <1>2 DEF Known, TypeOK, VisitOk, Gone, Linked
<1>4. Known'
  BY <1>1, <1>2, <1>3, SameTableKept DEF Live
<1>5. ASSUME Unique PROVE Unique'
  BY <1>1, <1>2, <1>3, <1>5, SameTableUnique DEF Live
<1> QED BY <1>4, <1>5

LEMMA ProcessKept ==
  ASSUME Known, NEW p \in Pids, Exit(p) \/ Foreign(p) \/ WritePid(p)
  PROVE Known' /\ (Unique => Unique')
PROOF
<1>1. SameTable /\ TypeOK
  BY TableStays DEF Exit, Foreign, WritePid, Known
<1>2. pass' = pass /\ lost' = lost /\ entry' = entry
  BY DEF Exit, Foreign, WritePid
<1>3. proc' \in [Pids -> Process] /\ pidfile' \in [Deamons -> Pids \cup {0}]
  <2>1. CASE Exit(p)
    <3>1. proc' = [proc EXCEPT ![p] = Dead(proc[p])] /\ Dead(proc[p]) \in Process
      BY <1>1, <2>1, DeadType DEF Exit, TypeOK
    <3> QED BY <1>1, <2>1, <3>1 DEF Exit, TypeOK
  <2>2. CASE Foreign(p)
    BY <1>1, <2>2 DEF Foreign, TypeOK, Process
  <2>3. CASE WritePid(p)
    BY <1>1, <2>3 DEF WritePid, TypeOK
  <2> QED BY <2>1, <2>2, <2>3
<1>4. \A q \in Pids : Live(q)' =>
        \/ Live(q) /\ proc'[q] = proc[q]
        \/ proc'[q].of = Other /\ ~proc'[q].son
  BY <1>1, DeadType DEF Exit, Foreign, WritePid, TypeOK, Process, Live
<1>7. \A q \in Pids : Live(q)' =>
        /\ proc'[q].son => Live(q) /\ proc'[q] = proc[q]
        /\ proc'[q].of \in Services =>
             \E w \in Pids : Live(w) /\ proc[w].of = proc'[q].of
  BY <1>4, OtherAssumption
<1>8. VisitOk' /\ (Gone => Gone')
  BY <1>1, <1>2, <1>7, VisitStays
<1>5. Known'
  <2>1. TypeOK'
    BY <1>1, <1>2, <1>3 DEF TypeOK
  <2> QED BY <1>1, <1>7, <1>8, <2>1, SameTableKept
<1>6. ASSUME Unique PROVE Unique'
  <2>1. CASE pidfile' = pidfile
    BY <1>1, <1>2, <1>4, <1>6, <1>8, <2>1, SameTableUnique DEF Unique
  <2>2. CASE WritePid(p)
    <3>1. /\ proc' = proc /\ entry' = entry /\ lost' = lost
          /\ proc[p].role = "main" /\ proc[p].of \in Deamons
          /\ pidfile' = [pidfile EXCEPT ![proc[p].of] = p]
      BY <2>2 DEF WritePid
    <3>2. Tracked' /\ NoDouble'
      BY <1>6, <3>1 DEF Unique, Tracked, NoDouble, LiveOf, Live, Linked
    <3>3. Up'
      <4> SUFFICES ASSUME NEW s \in Deamons, s \notin lost, s \notin Linked,
                          NEW q \in LiveOf(s)
                   PROVE q = pidfile'[s] /\ proc[q].role = "main"
        BY <3>1 DEF Up, LiveOf, Live, Linked
      <4>1. q = pidfile[s] /\ proc[q].role = "main"
        BY <1>6 DEF Unique, Up
      <4>2. CASE proc[p].of = s
        <5>1. p \in LiveOf(s)
          BY <3>1, <4>2 DEF LiveOf, Live
        <5>2. p = q
          BY <1>6, <5>1, DeamonsAssumption DEF Unique, NoDouble
        <5> QED BY <1>1, <3>1, <4>1, <4>2, <5>2 DEF TypeOK
      <4>3. CASE proc[p].of # s
        BY <1>1, <3>1, <4>1, <4>3 DEF TypeOK
      <4> QED BY <4>2, <4>3
    <3> QED BY <1>6, <1>8, <3>2, <3>3 DEF Unique
  <2> QED BY <2>1, <2>2 DEF Exit, Foreign, WritePid
<1> QED BY <1>5, <1>6

LEMMA LaunchKept ==
  ASSUME Known, NEW p \in Pids, NEW q \in Pids, Launch(p, q)
  PROVE Known' /\ (Unique => Unique')
PROOF
<1> DEFINE m == [of |-> proc[p].of, role |-> "main", son |-> FALSE]
<1>1. SameTable /\ TypeOK
  BY TableStays DEF Launch, Known
<1>2. /\ pass' = pass /\ lost' = lost /\ entry' = entry /\ pidfile' = pidfile
      /\ proc[p].role = "launcher" /\ proc[q].role = "none" /\ p # q
      /\ proc' = [proc EXCEPT ![p] = Dead(proc[p]), ![q] = m]
  BY DEF Launch, Free
<1>3. /\ proc' \in [Pids -> Process]
      /\ proc'[q] = m
      /\ ~Live(p)'
      /\ \A r \in Pids \ {p, q} : proc'[r] = proc[r]
  BY <1>1, <1>2, DeadType DEF TypeOK, Process, Live
<1>4. Live(p) /\ proc'[q].of = proc[p].of /\ ~proc'[q].son /\ proc'[q].role = "main"
  BY <1>2, <1>3 DEF Live
<1>5. \A r \in Pids : Live(r)' => r = q \/ (r # p /\ proc'[r] = proc[r] /\ Live(r))
  BY <1>3 DEF Live
<1>8. \A r \in Pids : Live(r)' =>
        /\ proc'[r].son => Live(r) /\ proc'[r] = proc[r]
        /\ proc'[r].of \in Services =>
             \E w \in Pids : Live(w) /\ proc[w].of = proc'[r].of
  BY <1>4, <1>5
<1>9. VisitOk' /\ (Gone => Gone')
  BY <1>1, <1>2, <1>8, VisitStays
<1>6. Known'
  <2>1. TypeOK'
    BY <1>1, <1>2, <1>3 DEF TypeOK
  <2> QED BY <1>1, <1>8, <1>9, <2>1, SameTableKept
<1>7. ASSUME Unique PROVE Unique'
  <2>1. Linked' = Linked
    BY <1>2 DEF Linked
  <2>2. \A s \in Services : \A r \in LiveOf(s)' :
          \/ r = q /\ p \in LiveOf(s)
          \/ r # p /\ r \in LiveOf(s) /\ proc'[r] = proc[r]
    BY <1>4, <1>5 DEF LiveOf
  <2>3. Tracked'
    <3>1. \A s \in Normals : LiveOf(s)' \subseteq LiveOf(s)
      BY <1>1, <1>2, <2>2 DEF Normals, LiveOf, TypeOK, Process
    <3> QED BY <1>2, <1>7, <2>1, <3>1 DEF Unique, Tracked, Normals
  <2>4. NoDouble'
    BY <1>2, <1>7, <2>2 DEF Unique, NoDouble
  <2>5. Up'
    <3> SUFFICES ASSUME NEW s \in Deamons, s \notin lost, s \notin Linked,
                        NEW r \in LiveOf(s)'
                 PROVE r = pidfile[s] /\ proc'[r].role = "main"
      BY <1>2, <2>1 DEF Up
    <3>1. \A x \in LiveOf(s) : x = pidfile[s] /\ proc[x].role = "main"
      BY <1>7 DEF Unique, Up
    <3>2. p \notin LiveOf(s)
      BY <1>2, <3>1
    <3>3. r \in LiveOf(s) /\ proc'[r] = proc[r]
      BY <2>2, <3>2, DeamonsAssumption
    <3> QED BY <3>1, <3>3
  <2> QED BY <1>7, <1>9, <2>3, <2>4, <2>5 DEF Unique
<1> QED BY <1>6, <1>7

LEMMA CrashKept ==
  ASSUME Known, Crash PROVE Known' /\ (Unique => Unique')
PROOF
<1>1. /\ entry' = [s \in Services |-> NoEntry]
      /\ proc' = [p \in Pids |-> IF proc[p].role = "zombie" THEN NoProcess
                                 ELSE [proc[p] EXCEPT !.son = FALSE]]
      /\ pass' = Idle /\ pidfile' = pidfile
      /\ lost' = lost \cup {s \in Deamons : \/ LiveOf(s) \ {pidfile[s]} # {}
                                          \/ \E p \in LiveOf(s) : proc[p].role = "launcher"}
      /\ TypeOK
  BY DEF Crash, Known
<1>2. /\ proc' \in [Pids -> Process]
      /\ \A p \in Pids : /\ ~proc'[p].son \/ ~Live(p)'
                         /\ Live(p)' => /\ Live(p) /\ proc'[p].of = proc[p].of
                                        /\ proc'[p].role = proc[p].role
  BY <1>1 DEF TypeOK, Process, NoProcess, Live
<1>3. Linked' = {} /\ \A s \in Services : entry'[s] = NoEntry
  BY <1>1, CreatedType DEF Linked
<1>4. Known'
  <2>1. TypeOK' /\ VisitOk'
    <3>1. pass'.at = "idle" /\ pass'.left = {} /\ pass' \in Pass
      BY <1>1 DEF Idle, Pass
    <3>2. entry' \in [Services -> Entry] /\ lost' \subseteq Services
      BY <1>1, CreatedType, DeamonsAssumption DEF TypeOK
    <3> QED BY <1>1, <1>2, <3>1, <3>2 DEF TypeOK, VisitOk
  <2>2. SonsAreKnown'
    BY <1>2 DEF SonsAreKnown
  <2>3. NoPid' /\ Down'
    BY <1>3, CreatedType, DeamonsAssumption DEF NoPid, Down
  <2> QED BY <2>1, <2>2, <2>3 DEF Known
<1>5. ASSUME Unique PROVE Unique'
  <2>1. \A s \in Services : LiveOf(s)' \subseteq LiveOf(s)
    BY <1>2 DEF LiveOf
  <2>2. Tracked'
    BY <1>3 DEF Tracked
  <2>3. NoDouble'
    BY <1>1, <1>5, <2>1 DEF Unique, NoDouble
  <2>4. Up'
    <3> SUFFICES ASSUME NEW s \in Deamons, s \notin lost', NEW p \in LiveOf(s)'
                 PROVE p = pidfile[s] /\ proc'[p].role = "main"
      BY <1>1 DEF Up
    <3>1. p \in LiveOf(s) /\ p \in Pids
      BY <2>1, DeamonsAssumption DEF LiveOf
    <3>2. p = pidfile[s] /\ proc[p].role # "launcher"
      BY <1>1, <3>1
    <3> QED BY <1>2, <3>1, <3>2 DEF LiveOf, Live
  <2>5. Gone'
    <3>1. pass'.at = "idle"
      BY <1>1 DEF Idle
    <3> QED BY <3>1 DEF Gone
  <2> QED BY <2>2, <2>3, <2>4, <2>5 DEF Unique
<1> QED BY <1>4, <1>5

-----------------------------------------------------------------------------
(* The theorems.                                                           *)

LEMMA InitInv == Init => Known /\ Unique
PROOF
<1> SUFFICES ASSUME Init PROVE Known /\ Unique
  OBVIOUS
<1>1. \A p \in Pids : ~Live(p) /\ proc[p] \in Process
  BY DEF Init, NoProcess, Process, Live
<1>2. \A s \in Services : entry[s] = NoEntry
  BY DEF Init
<1>3. Linked = {}
  BY <1>2, CreatedType DEF Linked
<1>4. TypeOK /\ VisitOk
  BY <1>1, CreatedType DEF Init, TypeOK, VisitOk, Idle, Pass
<1>5. SonsAreKnown /\ NoPid /\ Down
  BY <1>1, <1>2, <1>3, CreatedType, DeamonsAssumption
     DEF SonsAreKnown, NoPid, Down
<1>6. Unique
  BY <1>1, <1>3 DEF Unique, Tracked, Gone, NoDouble, Up, LiveOf, Init, Idle
<1> QED BY <1>4, <1>5, <1>6 DEF Known

LEMMA NextKept ==
  ASSUME Known, [Next]_vars
  PROVE Known' /\ (Unique => Unique')
PROOF
<1>1. CASE \E s \in Services : Insert(s)
  BY <1>1, InsertKept
<1>2. CASE \E s \in Services : Remove(s)
  <2>1. PICK s \in Services : Remove(s)
    BY <1>2
  <2>2. pass.at = "idle" /\ {s} \in SUBSET Linked
    BY <2>1 DEF Remove, Commanded
  <2> QED BY <2>1, <2>2, RemoveKept DEF Remove
<1>3. CASE Clean
  <2>1. pass.at = "idle" /\ Linked \in SUBSET Linked
    BY <1>3 DEF Clean, Commanded
  <2> QED BY <1>3, <2>1, RemoveKept DEF Clean
<1>4. CASE StartPass \/ EndReap \/ Crash
  BY <1>4, StartPassKept, EndReapKept, CrashKept
<1>5. CASE \E z \in Zombies : Reap(z)
  BY <1>5, ReapKept
<1>6. CASE Visit
  BY <1>6, VisitKept
<1>7. CASE \E p \in Pids : Exit(p) \/ WritePid(p) \/ Foreign(p)
  BY <1>7, ProcessKept
<1>8. CASE \E p, q \in Pids : Launch(p, q)
  BY <1>8, LaunchKept
<1>9. CASE UNCHANGED vars
  <2>1. SameTable /\ TypeOK' /\ VisitOk' /\ (Unique => Gone')
    BY <1>9, TableStays
       DEF Known, TypeOK, VisitOk, Unique, Gone, NoSonOf, NoneOf, Linked, vars
  <2>2. Known'
    BY <1>9, <2>1, SameTableKept DEF vars, Live
  <2>3. ASSUME Unique PROVE Unique'
    BY <1>9, <2>1, <2>3, SameTableUnique DEF vars, Live
  <2> QED BY <2>2, <2>3
<1> QED BY <1>1, <1>2, <1>3, <1>4, <1>5, <1>6, <1>7, <1>8, <1>9 DEF Next

LEMMA SpecKnown == Spec => []Known
PROOF
<1>1. Init => Known
  BY InitInv
<1>2. Known /\ [Next]_vars => Known'
  BY NextKept
<1> QED BY <1>1, <1>2, PTL DEF Spec

(* The entries, the processes and the pidfiles keep their types            *)
(* (sm_entry_t).                                                           *)
THEOREM SpecTypeOK == Spec => []TypeOK
PROOF
<1>1. Known => TypeOK
  BY DEF Known
<1> QED BY <1>1, SpecKnown, PTL

(* No living child of smd is ever without its entry, or with an entry that *)
(* has another pid, whatever is inserted, removed, restarted or fails      *)
(* (smd.c:490, 641).                                                       *)
THEOREM SpecSonsAreKnown == Spec => []SonsAreKnown
PROOF
<1>1. Known => SonsAreKnown
  BY DEF Known
<1> QED BY <1>1, SpecKnown, PTL

(* Whatever ps lists and whatever happens between the steps of a visit, no *)
(* service runs twice, but for a deamon whose start a crash of smd cut     *)
(* short (smd.c:590, 602) and for a normal service that was running when   *)
(* it was inserted and for which another process was taken (smd.c:154).    *)
THEOREM SpecNoDouble == Spec => []NoDouble
PROOF
<1>1. Init => Known /\ Unique
  BY InitInv
<1>2. (Known /\ Unique) /\ [Next]_vars => (Known /\ Unique)'
  BY NextKept
<1>3. Known /\ Unique => NoDouble
  BY DEF Unique
<1> QED BY <1>1, <1>2, <1>3, PTL DEF Spec
=============================================================================
