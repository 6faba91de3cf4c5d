-------------------------------- MODULE Smd --------------------------------
(***************************************************************************)
(* The service manager smd (src/app/smd): it starts the services inserted  *)
(* in its table, finds out every few seconds which of them have died and   *)
(* starts those again.  It runs in one thread; processes come and go       *)
(* between any two of its steps, and it may crash itself and be started    *)
(* again with an empty table.  A visit of a pass is several steps: what it *)
(* reads may no longer be so when it kills and forks.                      *)
(*                                                                         *)
(* A normal service is the process smd forked.  A deamon is a process the  *)
(* forked one, its launcher, leaves behind; it writes its pidfile when it  *)
(* is up.  A pid that nobody uses may be given to any new process.         *)
(***************************************************************************)
EXTENDS Integers

CONSTANTS Services,  \* names of services
          Deamons,   \* those inserted with a pidfile
          Pids       \* bound: the pids of the processes that matter

VARIABLES entry,    \* the sm_entry_t of each service, and whether it is linked
          proc,     \* the process of each pid
          pidfile,  \* the pid in the pidfile of each deamon, 0 for none
          pass,     \* where smd_wait is
          lost      \* history: services of which a process runs that smd does
                    \* not know, after a crash or for taking another for it

vars == <<entry, proc, pidfile, pass, lost>>

ASSUME DeamonsAssumption == Deamons \subseteq Services
ASSUME PidsAssumption == Pids \subseteq Nat \ {0}

Normals == Services \ Deamons

-----------------------------------------------------------------------------
(* Processes.  ending: was sent SIGTERM; zombie: a dead child of smd.       *)

Other == "other"
ASSUME OtherAssumption == Other \notin Services

Process ==
  {x \in [of : Services \cup {Other},
          role : {"none", "launcher", "main", "ending", "zombie"},
          son : BOOLEAN] :
     x.role = "launcher" => x.of \in Deamons}

NoProcess == [of |-> Other, role |-> "none", son |-> FALSE]

Live(p) == proc[p].role \in {"launcher", "main"}
LiveOf(s) == {p \in Pids : proc[p].of = s /\ Live(p)}
Free(ps) == {p \in Pids : ps[p].role = "none"}

(* kill(pid, 0) finds zombies too.                                          *)
os_pid_exist(ps, p) == p \in Pids /\ ps[p].role # "none"

Dead(x) == IF x.son THEN [x EXCEPT !.role = "zombie"] ELSE NoProcess

-----------------------------------------------------------------------------
(* The table.                                                              *)

(* age is that of the state FORK: forked by a command since the last pass, *)
(* forked in or before the last pass, or longer ago than SM_DEAMON_WAIT.   *)
Entry == [link : BOOLEAN, used : BOOLEAN,
          state : {"init", "fork", "run", "die"},
          pid : Pids \cup {0}, age : {"command", "pass", "late"}]

NoEntry == [link |-> FALSE, used |-> FALSE, state |-> "init",
            pid |-> 0, age |-> "pass"]

Created == [NoEntry EXCEPT !.link = TRUE, !.used = TRUE]

Linked == {s \in Services : entry[s].link}

HavePid(x) == x.state \in {"fork", "run"}

(* A change of pid takes the entry out of the hash and puts it in again,   *)
(* whether or not it was in.                                               *)
smd_change(x, state, pid) ==
  [x EXCEPT !.link = @ \/ pid # x.pid, !.pid = pid, !.state = state]

smd_die(x) == smd_change(x, "die", 0)

(* What vfork started; pid 0 is a fork that failed.                        *)
smd_run(x, pid, age) ==
  IF pid = 0 THEN x ELSE [smd_change(x, "fork", pid) EXCEPT !.age = age]

Started(ps, s, pid) ==
  IF pid = 0 THEN ps
  ELSE [ps EXCEPT ![pid] = [of |-> s, son |-> TRUE,
                            role |-> IF s \in Deamons THEN "launcher" ELSE "main"]]

smd_killall(ps, s) ==
  [p \in Pids |-> IF ps[p].of = s /\ ps[p].role \in {"launcher", "main"}
                  THEN [ps[p] EXCEPT !.role = "ending"] ELSE ps[p]]

smd_kill_deamon(ps, s) == IF s \in Deamons THEN smd_killall(ps, s) ELSE ps

-----------------------------------------------------------------------------
(* Commands.  smd answers them between two passes.                         *)

(* smd_wait reaps, then walks.  A visit of the walk checks the pid it has   *)
(* read, kills, and forks; of and pid are those of the visit.              *)
Pass == [at : {"idle", "reap", "walk", "check", "kill", "fork"},
         left : SUBSET Services, of : Services \cup {Other}, pid : Pids \cup {0}]

Idle == [at |-> "idle", left |-> {}, of |-> Other, pid |-> 0]

Commanded == pass.at = "idle"

(* Of the processes ps lists with the name of a normal service in their    *)
(* line head takes the first, and that is any of them.  The client that    *)
(* inserts the service has its name in its arguments, and waits; nobody    *)
(* else is sure to be listed.                                              *)
smd_get_normal_pid(s) == LiveOf(s) \cup LiveOf(Other)

(* What s has besides the process p that is taken for it.                  *)
LostBy(s, p) ==
  IF s \in Deamons THEN lost
  ELSE IF LiveOf(s) = {} THEN lost \ {s}
  ELSE IF p \in LiveOf(s) THEN lost ELSE lost \cup {s}

(* An insert whose fork fails removes the entry again.                     *)
Insert(s) ==
  /\ Commanded
  /\ s \notin Linked
  /\ LET found == IF s \in Deamons
                  THEN {p \in {pidfile[s]} : os_pid_exist(proc, p)}
                  ELSE smd_get_normal_pid(s)
         sure == IF s \in Deamons THEN found ELSE LiveOf(s)
     IN  \/ \E p \in found :
              /\ entry' = [entry EXCEPT ![s] = smd_change(Created, "run", p)]
              /\ lost' = LostBy(s, p)
              /\ UNCHANGED proc
         \/ /\ sure = {}
            /\ \E p \in Free(proc) :
                 /\ entry' = [entry EXCEPT ![s] = smd_run(Created, p, "command")]
                 /\ proc' = Started(proc, s, p)
                 /\ lost' = LostBy(s, p)
  /\ UNCHANGED <<pidfile, pass>>

\* Mutant: a service that was forked and has not been seen running is not killed.
KillRunning(S) == {s \in S : entry[s].state = "run"}

(* The services of S that smd_kill kills.                                  *)
smd_kill(S) == {s \in S : HavePid(entry[s])}

(* smd_kill relinks the entry it has just been unlinked from, if it has a  *)
(* pid; then the entry is freed.  What a freed entry that is still linked  *)
(* reads as is undefined: here it reads as before, and smd may also crash, *)
(* see Crash.                                                              *)
Freed(x) ==
  LET killed == IF HavePid(x) THEN smd_die([x EXCEPT !.link = FALSE])
                ELSE [x EXCEPT !.link = FALSE]
  IN  IF killed.link THEN [killed EXCEPT !.used = FALSE] ELSE NoEntry

smd_remove(S) ==
  LET dead == {entry[s].pid : s \in smd_kill(S)}
      shot == [p \in Pids |-> IF p \in dead /\ proc[p].role # "none"
                              THEN Dead(proc[p]) ELSE proc[p]]
  IN  /\ entry' = [s \in Services |-> IF s \in S THEN Freed(entry[s]) ELSE entry[s]]
      /\ proc' = [p \in Pids |-> IF /\ shot[p].of \in smd_kill(S) \cap Deamons
                                    /\ shot[p].role \in {"launcher", "main"}
                                 THEN [shot[p] EXCEPT !.role = "ending"] ELSE shot[p]]
      /\ lost' = lost \ (smd_kill(S) \cap Deamons)

Remove(s) ==
  /\ Commanded
  /\ s \in Linked
  /\ smd_remove({s})
  /\ UNCHANGED <<pidfile, pass>>

Clean ==
  /\ Commanded
  /\ Linked # {}
  /\ smd_remove(Linked)
  /\ UNCHANGED <<pidfile, pass>>

-----------------------------------------------------------------------------
(* A pass of the timer: wait for every dead child, then look at every      *)
(* entry.                                                                  *)

Zombies == {p \in Pids : proc[p].role = "zombie"}

(* SM_DEAMON_WAIT is shorter than the time between two passes.             *)
Waited(x) ==
  IF x.state # "fork" THEN {x}
  ELSE IF x.age = "command" THEN {[x EXCEPT !.age = a] : a \in {"pass", "late"}}
  ELSE {[x EXCEPT !.age = "late"]}

StartPass ==
  /\ pass.at = "idle"
  /\ entry' \in [Services -> UNION {Waited(entry[s]) : s \in Services}]
  /\ \A s \in Services : entry'[s] \in Waited(entry[s])
  /\ pass' = [Idle EXCEPT !.at = "reap"]
  /\ UNCHANGED <<proc, pidfile, lost>>

(* ps is proc without the zombie.                                          *)
smd_wait_son(s, ps) ==
  IF s \in Deamons
  THEN /\ entry' = [entry EXCEPT ![s] = smd_change(@, @.state, 0)]
       /\ proc' = ps
  ELSE \E p \in Free(ps) \cup {0} :
         /\ entry' = [entry EXCEPT ![s] = smd_run(smd_die(entry[s]), p, "pass")]
         /\ proc' = Started(ps, s, p)

(* The hash finds one of the entries with this pid.                        *)
smd_getbynormal(p) == {s \in Linked : entry[s].pid = p}

Reap(z) ==
  /\ pass.at = "reap"
  /\ z \in Zombies
  /\ LET ps == [proc EXCEPT ![z] = NoProcess]
     IN  \/ \E s \in smd_getbynormal(z) : smd_wait_son(s, ps)
         \/ smd_getbynormal(z) = {} /\ proc' = ps /\ UNCHANGED entry
  /\ UNCHANGED <<pidfile, pass, lost>>

Walk(left) ==
  IF left = {} THEN Idle ELSE [Idle EXCEPT !.at = "walk", !.left = left]

EndReap ==
  /\ pass.at = "reap"
  /\ Zombies = {}
  /\ pass' = Walk(Linked)
  /\ UNCHANGED <<entry, proc, pidfile, lost>>

smd_is_timeout(x) == x.state = "fork" /\ x.age = "late"

(* The pid to look at: that of a deamon that starts is in its pidfile.     *)
WatchedPid(s) ==
  IF s \in Deamons /\ entry[s].state # "run" THEN pidfile[s] ELSE entry[s].pid

Visiting(s, at, pid) == [pass EXCEPT !.at = at, !.of = s, !.pid = pid]
Visited == Walk(pass.left \ {pass.of})

Look(s) ==
  /\ pass.at = "walk"
  /\ s \in pass.left
  /\ \/ /\ ~HavePid(entry[s])
        /\ pass' = Visiting(s, "kill", 0)
     \/ /\ entry[s].state = "run" \/ smd_is_timeout(entry[s])
        /\ pass' = Visiting(s, "check", WatchedPid(s))
     \/ /\ entry[s].state = "fork" /\ ~smd_is_timeout(entry[s])
        /\ pass' = Walk(pass.left \ {s})
  /\ UNCHANGED <<entry, proc, pidfile, lost>>

\* Mutant: what is dead is not started again.
NoCheck ==
  /\ pass.at = "check"
  /\ pass' = Visited
  /\ UNCHANGED <<entry, proc, pidfile, lost>>

smd_wait_ok ==
  /\ pass.at = "check"
  /\ \/ /\ os_pid_exist(proc, pass.pid)
        /\ entry' = [entry EXCEPT ![pass.of] = smd_change(@, "run", pass.pid)]
        /\ pass' = Visited
     \/ /\ ~os_pid_exist(proc, pass.pid)
        /\ pass' = Visiting(pass.of, "kill", 0)
        /\ UNCHANGED entry
  /\ UNCHANGED <<proc, pidfile, lost>>

\* Mutant: what runs under an old pid is not killed before the fork.
ForkAtOnce ==
  /\ pass.at = "kill"
  /\ pass' = Visiting(pass.of, "fork", 0)
  /\ UNCHANGED <<entry, proc, pidfile, lost>>

KillDeamon ==
  /\ pass.at = "kill"
  /\ proc' = smd_kill_deamon(proc, pass.of)
  /\ lost' = lost \ ({pass.of} \cap Deamons)
  /\ pass' = Visiting(pass.of, "fork", 0)
  /\ UNCHANGED <<entry, pidfile>>

(* p is the pid of the new process, 0 when the fork fails.                 *)
Fork(s, p) ==
  /\ pass.at = "fork" /\ s = pass.of
  /\ p \in Free(proc) \cup {0}
  /\ LET x == IF HavePid(entry[s]) THEN smd_die(entry[s]) ELSE entry[s]
     IN  entry' = [entry EXCEPT ![s] = smd_run(x, p, "pass")]
  /\ proc' = Started(proc, s, p)
  /\ pass' = Visited
  /\ UNCHANGED <<pidfile, lost>>

-----------------------------------------------------------------------------
(* The processes, none of which is in this repository, and a crash of smd. *)

Exit(p) ==
  /\ proc[p].role \in {"launcher", "main", "ending"}
  /\ proc' = [proc EXCEPT ![p] = Dead(@)]
  /\ UNCHANGED <<entry, pidfile, pass, lost>>

(* The launcher leaves the deamon behind.                                  *)
Launch(p, q) ==
  /\ proc[p].role = "launcher"
  /\ q \in Free(proc)
  /\ proc' = [proc EXCEPT ![p] = Dead(@),
                          ![q] = [of |-> proc[p].of, role |-> "main", son |-> FALSE]]
  /\ UNCHANGED <<entry, pidfile, pass, lost>>

WritePid(p) ==
  /\ proc[p].role = "main"
  /\ proc[p].of \in Deamons
  /\ pidfile' = [pidfile EXCEPT ![proc[p].of] = p]
  /\ UNCHANGED <<entry, proc, pass, lost>>

(* A process of somebody else: one that gets a pid smd remembers, or a      *)
(* client.  Bound: one at a time.                                          *)
Foreign(p) ==
  /\ p \in Free(proc)
  /\ LiveOf(Other) = {}
  /\ proc' = [proc EXCEPT ![p] = [of |-> Other, role |-> "main", son |-> FALSE]]
  /\ UNCHANGED <<entry, pidfile, pass, lost>>

(* A new smd has an empty table, and the children of the old one are       *)
(* init's, which has reaped the dead.                                      *)
Crash ==
  /\ entry' = [s \in Services |-> NoEntry]
  /\ proc' = [p \in Pids |-> IF proc[p].role = "zombie" THEN NoProcess
                             ELSE [proc[p] EXCEPT !.son = FALSE]]
  /\ pass' = Idle
  /\ lost' = lost \cup {s \in Deamons : LiveOf(s) \ {pidfile[s]} # {}
                                        \/ \E p \in LiveOf(s) : proc[p].role = "launcher"}
  /\ UNCHANGED pidfile

-----------------------------------------------------------------------------
Init ==
  /\ entry = [s \in Services |-> NoEntry]
  /\ proc = [p \in Pids |-> NoProcess]
  /\ pidfile = [s \in Deamons |-> 0]
  /\ pass = Idle
  /\ lost = {}

Visit ==
  \/ \E s \in pass.left : Look(s) \/ \E p \in Pids \cup {0} : Fork(s, p)
  \/ smd_wait_ok \/ KillDeamon

Next ==
  \/ \E s \in Services : Insert(s) \/ Remove(s)
  \/ Clean
  \/ StartPass
  \/ \E z \in Zombies : Reap(z)
  \/ EndReap
  \/ Visit
  \/ \E p \in Pids : Exit(p) \/ WritePid(p) \/ Foreign(p)
  \/ \E p, q \in Pids : Launch(p, q)
  \/ Crash

Spec == Init /\ [][Next]_vars

(* The loop runs its timer; a fork is not refused for ever; a process obeys *)
(* SIGTERM.                                                                *)
Forks(s) == \E p \in Pids : Fork(s, p)

FairSpec ==
  /\ Spec
  /\ WF_vars(StartPass)
  /\ WF_vars(\E z \in Zombies : Reap(z))
  /\ WF_vars(EndReap)
  /\ WF_vars(Visit)
  /\ \A s \in Services : SF_vars(Forks(s))
  /\ \A p \in Pids : WF_vars(proc[p].role = "ending" /\ Exit(p))

-----------------------------------------------------------------------------
(* Properties.                                                             *)

(* The entries, the processes and the pidfiles have the types their        *)
(* declarations give them (sm_entry_t).                                    *)
TypeOK ==
  /\ entry \in [Services -> Entry]
  /\ proc \in [Pids -> Process]
  /\ pidfile \in [Deamons -> Pids \cup {0}]
  /\ pass \in Pass
  /\ lost \subseteq Services

(* No service runs twice, whatever dies, is removed, inserted again or     *)
(* adopted after a crash, and whatever happens between the steps of a      *)
(* visit (smd.c:467, 474, 484, 486), but for two cases: smd crashed while  *)
(* a deamon was starting, whose pidfile does not name it yet (smd.c:590,   *)
(* 602); or a normal service was running already when it was inserted, and *)
(* ps named the client instead of it (smd.c:154).                          *)
NoDouble ==
  \A s \in Services \ lost : \A p, q \in LiveOf(s) : p = q

(* Every child of smd that lives belongs to an entry of the table; that of *)
(* a normal service has its pid (smd.c:490, 641): no removal or restart    *)
(* leaves one behind.                                                      *)
SonsAreKnown ==
  \A p \in Pids : Live(p) /\ proc[p].son =>
    /\ proc[p].of \in Linked
    /\ proc[p].of \in Normals => entry[proc[p].of].pid = p

(* An entry without a process is given one again, unless it is removed or  *)
(* another process has its pid, or no pid is left (smd.c:436, 457, 490);   *)
(* provided the loop over waitpid ends: services that die at once can keep *)
(* it busy (smd.c:542).                                                    *)
ReapingEnds == []<>(pass.at # "reap")

Stolen(s) ==
  /\ os_pid_exist(proc, entry[s].pid)
  /\ proc[entry[s].pid].of # s

Respawned ==
  ReapingEnds => \A s \in Services :
    s \in Linked /\ LiveOf(s) = {} ~>
      LiveOf(s) # {} \/ s \notin Linked \/ Stolen(s) \/ Free(proc) = {}

(* What a removal has freed is out of the table, as the comment at         *)
(* smd.c:497 takes it to be.                                               *)
FreedIsUnlinked == \A s \in Linked : entry[s].used

=============================================================================
