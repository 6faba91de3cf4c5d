# A TLA+ development of bigap

bigap is the user-space software of a WiFi gateway: a handful of C daemons, each
one event loop over epoll, a boot loader's environment and a tool that upgrades
the firmwares, built on a common library (`src/lib`).  This directory models the
parts of it that keep state over a long life, checks them with TLC on small
instances, and proves their main invariants with TLAPS for every value of the
constants.  `PROJECT.json` lists the components, the runs, the hazards with the
properties that cover them, and, definition by definition, the source lines a
model stands for.

## 1. The system

### Components

| component | source | state | operations | modelled in |
|---|---|---|---|---|
| timing wheel | `lib/weos/app/timer.c`, `lib/utils/timer.h` | ticks, the hand of each ring, slot lists, the node of each timer | insert, remove, change, change_expires, once, fini, one tick (`tm_trigger`) | `TmClock`, `TmWheel` |
| timer daemon tmd | `app/tmd/tmd.c` | table of named timers | insert, remove, clean, show; the callback of an entry | `Tmd` |
| umd users | `app/umd/user.c`, `cli.c`, `timer.c`, `flow.c` | state, address, times, limits, aging counters and flow of each station | the commands of clients, a captured packet, the timer, gc | `Umd` |
| umd user table | `app/umd/user.c` over `lib/utils/db.h`, `hash.h` | a list and two hash indexes over the same objects | find, add, del, rekey, walk | `UmdTable` |
| umd connections | `app/umd/flow.c` | table of connections, a cached pointer, charges | a packet, gc, the timer | `UmdConn` |
| rsh agent rsha | `app/rsha` | state of the tunnel, socket, echo times of two modes, error counter | insert, remove, the timer pass, the receiver | `Rsha` |
| service manager smd | `app/smd/smd.c` | entries of services, the processes they stand for | insert, remove, clean, the wait for children, the walk of the timer | `Smd` |
| firmware: boot environment and sys | `app/benv`, `app/sys`, `lib/benv`, `lib/weos/boot` | marks, versions and boot counts of each kernel and rootfs, the current firmware | selection at boot, upgrade, repair, reset, usb upgrade, super startup, the reports of a start | `Benv`, `Sys` |
| event loop | `lib/weos/app/loop.c` | table of watchers by descriptor, epoll set | wait, handle an event, accept, add, delete | `Loop` |
| nsq agent nsqa | `app/nsqa`, `lib/weos/app/nsq.c` | eleven-state client of a message queue | insert, remove, the timer, the receiver | `Nsqa` over `Loop` |
| umd tags | `app/umd/user.c`, `lib/utils/dlist.h` | key-value list of a user | set, get, clear | not modelled, section 7 |
| channel and cqueue, coroutines | `lib/weos/boot`, `lib/weos/app/coroutine.c` | ring of messages; stacks, ready list | | not modelled: unused, section 7 |
| umd configuration, clients (umc, tmc, smc, rshc), pipes, logging daemons, guard and haenv, the benv command line, device helpers, codecs, JavaScript engine | see `PROJECT.json` | | | not modelled, section 7 |

### How they interact

Every daemon is one thread in `os_loop` (`loop.c`): epoll returns several events
and the handler of each runs to its end.  A timerfd handler calls the daemon's
timer function, a unix socket handler runs one client command (tmc, umc, smc), a
packet or network socket handler runs one message.  So interleaving is at the
grain of handlers, with exceptions that the models keep: callbacks run in the
middle of the wheel's sweep and may arm or free their own timer; a walk over a
list calls a function that unlinks what it walks over; and what an earlier event
of a batch closes, frees or opens is what a later one finds.

- `tmd` is a client of the wheel: one wheel timer for each named entry.
- `umd` has three inputs: commands, packets and a timer each `ticks` seconds.  A
  command or a packet creates a user, binds it to an address, puts it on trial
  (fake) or authenticates it; the timer takes back what was granted, and collects
  users and connections.  Each change is reported to a script in the background
  (the firewall follows the events), with the user as it is at that moment.
- the user table holds the users by mac and by address, and the timer, gc and
  delby walk its list while they delete from it; the connection table is a cache
  of classification beside it.
- `rsha` shakes hands with a peer in the cloud over UDP, then echoes and runs the
  peer's commands; the timer pass sends, and restarts a tunnel that has gone
  silent, with a new socket.
- `smd` forks services and has no hold on them but pids: those of its own
  children, those in pidfiles, those `ps` lists.  Processes exit, leave deamons
  behind, and pids are used again, between any two of its steps.
- the boot loader chooses a firmware by the marks in the boot environment and
  counts the boot; scripts report that it has started, and `sys` writes the
  firmwares that do not run, marking before and after each write.
- `nsqa` shares one loop between its timer, its clients and the sockets of its
  instances.

### What is hard, and what makes each part correct

- **Wheel**: a timer cascades through rings whose hands move at different ticks;
  callbacks and re-inserts of inner rings happen before the outer rings have
  moved.  Correct: every timer is on one list, none is overdue, and it fires at
  its due tick and at no other.
- **tmd**: entries outlive their timers (they stay, exhausted), and timers must
  not outlive their entries.  Correct: armed exactly while there are triggers to
  come, no drift over many periods, a limited timer does run out.
- **umd users**: operators call each other in fixed orders (deauth before unfake
  before unbind before lan offline), each with an event, and each path must leave
  address, aging counters, flow and `noused` consistent.  A station may have two
  users, and on the product's build the counters of the wireless driver take the
  place of those of the packets.  Correct: no address without a binding, quotas
  of time and volume hold, a blocked station stays out, events alone tell state
  and address, unused users leave and used ones do not.
- **user table**: keys are members of the objects they index.  Correct: no
  dangling node, every user found under its present keys, one user a station.
- **connections**: sixteen pairs of classes decided by a chain of tests, a cached
  pointer that outlives what it points at.  Correct: each user at an end is
  charged once, in its direction; no stale connection survives.
- **rsha**: answers come late, twice or never, across restarts that keep parts of
  the state, and each of two modes has its own times.  Correct: only an answer to
  this socket carries the tunnel forward, silence is bounded, a restart has a
  cause, and a tunnel that can come back does.
- **smd**: what it believes of a process is old when it acts on it: it reads a
  pidfile, checks the pid, kills by name and forks, and the service may come or
  go between any two of these.  Correct: no service twice, no child forgotten,
  the dead started again.
- **firmware**: the power may go between any two writes, and take from the cache
  what a mark on the disk already vouches for.  Correct: nothing torn is marked
  good but through the cache or a torn source, what runs is not written, an
  upgrade switches only to what is complete, and some firmware always comes up.
- **loop and nsqa**: a descriptor number means another file after a close, and
  the kernel, the loop's table and the instance each remember it.  Correct: an
  instance's number is its own socket, an event reaches the instance it is for,
  each client is served.

The full list, with lines, is under `hazards` in `PROJECT.json`.

## 2. Modules

```
TmClock      abstract clock: a due tick for every armed timer
  ^ refines        ^ extends
TmWheel      Tmd           Umd          UmdTable         UmdConn
  |            |            |               |               |
TmWheelProofs TmdProofs  UmdProofs    UmdTableProofs  <-----+
MCTmWheel     MCTmd      MCUmd        MCUmdTable       MCUmdConn

                           Benv              Loop
                            ^ extends         ^ extends
Rsha         Smd           Sys               Nsqa
  |            |            |                  |
RshaProofs   SmdProofs   SysProofs         NsqaProofs
MCRsha       MCSmd       MCSys             MCNsqa
```

- **TmClock** is what callers of `timer.c` rely on: `Advance` is possible only
  when no armed timer is due now, and `Fire`, `FireAgain` only at the due tick.
- **TmWheel** is `timer.c`.  `tm_trigger` starts a sweep of ring 0; each visit of
  one timer in the slot is a step (`Reinsert`, or the callback: safe, unsafe,
  `tm_once`, `tm_change_expires`, `tm_insert` of itself, once or as a cycle),
  `NextRing` carries on when the hand is back at 0, `EndSweep` ends.  A callback
  that inserts its own timer as a cycle and then returns safe has it linked
  twice: tm_insert links it, and the sweep links every cycle timer whose callback
  was safe without asking whether it is pending (timer.c:240-246).  `doubled` is
  the history of it.  A node linked twice leaves both lists corrupt, and what the
  wheel does then is undefined, so there the model stops.  No caller in the
  repository does it: tmd, the coroutines and the test insert their timers once
  (tmd.c:218, 290, coroutine.c:649).  `pending`, `once`, `expires`, `create`,
  `ring_idx`, `ring_slot` are the fields of `tm_node_t`; `links` counts the lists
  a node is linked in.  The slot list is visited in any order.  It implements
  `TmClock!ClockSpec`: an INSTANCE whose `now` is `ticks` and whose `deadline` is
  `create + expires` of a pending timer.  `tm_trigger` maps to Advance, a
  callback to Fire or FireAgain, and moving a timer between rings or turning a
  ring to stutters.
- **Tmd** extends `TmClock`: one action a command, one for the callback, each
  composed with the clock action it calls.  `Ticks(sec)` is the product
  `1000*sec` of two ints: exact up to `MaxSec`, beyond it either exact (the
  compiler may fold the division) or any wrapped value.
- **Umd** is the life of users.  Every operator of `user.c` (`Create`, `Bind`,
  `Fake`, `Auth`, `Deauth`, `Unfake`, `Unbind`, `Block`, ...) is a function from
  a user to a user, composed in the order the code calls them; `log` is the
  events it reports.  An action is a whole handler; `Elsewhere` is one that
  changes no user of `Obj`.  `umd_conn_handle` and `umduser_timer_handle` are the
  chains of checks of a packet and of the timer. A user is an object, `Obj`, of a
  station, `Station[o]`: associate makes a second user of a station that has one
  (user.c:1047-1068: the user it finds is not looked at).  A handler works on
  what umduser_get finds, `Got`: any user of the station, where the code finds
  the one nearer the head of a hash chain, to which every change of address moves
  a user; or new memory if there is none.  0.0.0.0 is an address like any other
  to bind, fake and auth (`is_good_ipstring` refuses only what is no address),
  and auth of a user that has none asks a script for one, which may find
  `Nothing`.  `BrflowUpdate` is the handler a build for OpenWrt with BusyBox has
  before the collector: it puts the driver's counters, any of `Counters` or none
  if the driver does not know the station, in the place of both flows and starts
  aging again.
- **UmdTable** is the h2 table: `bucket[i][o]` is the bucket the node remembers,
  which `h2_del` uses, and lookups hash the keys stored in the object.
  `umd_set_user_ip` unlinks, changes, links; `umd_user_sync` overwrites in place.
  `synced` and `extra` are auxiliary: which objects a sync has overwritten, which
  ones associate made.
- **UmdConn** is `flow.c` before `umd_conn_handle`: classification, charges and
  the table of connections with `last`, the static pointer of `umd_conn_get`, and
  `freed`, whether its memory was freed.  A freed connection may still read as
  the one looked for, may be allocated again, or may read as another: each is a
  choice.
- **Rsha** is one instance (instances do not touch one another) and the datagrams
  to and from its present socket.  The timer pass is its seven triggers composed
  in their order, `InitTrigger` to `ErrorTrigger`, each from instance and network
  to the next.  A `time_t` is its age, capped where the code compares it, and -1
  where it holds 0; a sequence number is its lag behind the instance's; closing
  the socket forgets what is in flight to it.  The peer is external: it answers
  what it hears, and sends commands once it knows the address of the socket.
- **Smd** has the entries, the processes of each pid (launcher, main process,
  ending, zombie, whether it is a child of smd), the pidfiles, and where the
  timer pass stands: `StartPass`, `Reap` for each dead child, `EndReap`, and for
  each entry a visit, whose steps are those of the code: `Look` reads the pid or
  the pidfile (smd.c:467), `smd_wait_ok` asks whether the process exists (474),
  `KillDeamon` kills by name (484), `Fork` starts it (486).  Commands come
  between passes; processes exit, leave deamons behind (`Launch`), write pidfiles
  (`WritePid`) and take free pids between any two steps, and `Crash` is a new smd
  over the processes of the old one.  `smd_get_normal_pid` takes the first of
  what ps lists with the name of the service: any process of the service, or the
  client that inserts it, or another that has the name among its arguments.
  `lost` is auxiliary: the services of which a process runs that smd cannot know.
- **Benv** is the block of the environment: the comparison of firmwares, the
  finders, `benv_select` and the changes of marks.  An upgrade goes to the worst
  and a boot to the best; where equals are sorted any may come first.
- **Sys** is the device: boot, watchdog, reports of a start, and the commands of
  `sys` as a `job` whose writes are steps of their own (mark, write, mark), so
  that `PowerCut` and `WriteFails` fall between any two.  `disk` is what is
  really there, `Torn` included, and `benv` what the marks say.  Marks are
  written through (the environment is opened O_SYNC), contents are not: sys
  copies into a mounted file system and marks the result with neither a sync nor
  an unmount before (sys.c:720-728, 751-760; the remount of `sys_*_fini` comes
  after the mark is saved, only on devices whose rootfs is read-only by default,
  and its result is not looked at).  `dirty` is what may be in the cache only: a
  power cut loses any subset of it, an orderly reboot empties it. `spoilt` is
  auxiliary: what a cut has taken from the cache, or was copied from a torn
  source.  Reset copies from any firmware, good or not.
- **Loop** is the kernel's descriptors (lowest free number first), its epoll set
  and the loop's table of watchers, with `batch`, the events of the last
  epoll_wait still to be handled.  A close takes a file out of epoll and leaves
  its watcher.
- **Nsqa** extends it with the instances.  The timer is `nsq_resolve` to
  `nsq_run` composed in their order over the set of outcomes the network allows;
  a frame that was handled well falls through to `nsq_confuse`, which closes the
  socket and forgets its number while the watcher stays.  `nsqi_insert_fails` is
  an insert whose socket() fails: the new instance is destroyed with the
  descriptor it was allocated with, 0, which is closed, whatever it is by then
  (instance.c:72, 92-97).

Umd, UmdTable and UmdConn split one daemon by the data they look at.  A user's
fields never depend on another user's, so Umd is a product of users except for
the walks (`umd_user_timer`, gc), which treat all of them in one step, and for
which user a handler finds; table and connections see users only as keys and as
known or unknown.

Modules whose name begins with MC give the constants of a run their values.
Definitions commented "Mutant:" are plausible bugs beside the code's definition;
no specification uses them.  `PROJECT.json` pairs each property with the one
that breaks it.

## 3. Runs

| run | instance | distinct states | checks | shows |
|---|---|---|---|---|
| `wheel` | 2 timers, 3 rings of 2 slots, 10 ticks | 515,000 | LinkedOnce, VisitedInTime, LeftMeansPending, ClockSpec | the wheel implements the clock under every order of calls, callbacks and ticks |
| `tmd` | 2 names, delays -1, 0, 2, intervals and limits 0 to 2, 7 ticks | 20,000 | ArmedIsLive, LiveIsArmed, NoDrift, OutInTime, RunsOut | entries and timers agree, periods do not drift, limited timers run out, and when they should |
| `umd_life` | 1 user, 2 addresses and 0.0.0.0, all commands, packets and counters of the driver until second 4, 14 s, FairSpec | 380,000 | LanIncludesWan, UnboundHasNoIp, TimeQuota, EventsTell, EventsNameIp, NotCollectedEarly, IdleUserLeaves | every path through the states of a user, and that it leaves once nobody speaks to it |
| `umd_flow` | 2 users of one station, packets, three documents of a peer, no time; symmetry of users, view without log | 192,000 | LanIncludesWan, FlowQuota, BlockedStaysOut, EventsTell | counters and quotas of volume, sync, blocking, and what a second user lets in |
| `umd_table` | 3 objects, 3 macs, 3 addresses, 2 buckets that collide | 23,000 | NoDangling, FoundUnlessSynced, OneUnlessExtra | the indexes stay right but for two operations |
| `umd_conn` | 5 hosts, one or more of each class; three flows with a table | 15,000 | ChargedButFromLan, NoStaleConn | charges of every pair, stale cache included, and collection |
| `rsha` | one tunnel, 2 datagrams each way, FairSpec | 80,000 | TunnelIsAnswered, SilenceBounded, RestartForCause, Reconnects, EchoesGoOn | the tunnel over a network that loses, doubles and reorders |
| `smd` | a normal service and a deamon, 2 pids, FairSpec | 459,000 | NoDouble, SonsAreKnown, Respawned | services against exits, late pidfiles, pids used again, what ps lists, and crashes, between any two steps of a visit |
| `smd_remove` | the same | - | FreedIsUnlinked, violated | finding 1 |
| `sys` | 3 firmwares, 2 versions, 2 commands, 2 faults, FairSpec | 684,000 | TornIsBad, RunningUntouched, SwitchComplete, ComesUp | every command with a power cut that loses the cache or a failing write at any step |
| `nsqa` | 2 instances, 6 descriptors, batches of 3, symmetry of instances | 1,024,000 | OwnsItsSocket, HandledIsOwn, ServedUnlessStale | descriptor numbers used again while events are pending, 0 closed by failed inserts |
| `nsqa_stuck` | the same | - | InitResolves, violated | finding 2 |

The type invariants of Tmd, Umd, UmdTable, TmWheel, Rsha, Smd, Sys and Nsqa, and
AgingInRange of Umd, are not properties of a run: they are theorems.

### Bounds, and why they are enough

- *Wheel.*  The code has 4 rings of 256 slots.  Three rings give an inner, a
  middle and an outermost ring, which are the three cases of the code; with two
  slots a ring turns every other tick, and 10 ticks turn the outermost ring (8
  ticks) fully.  Delays 1, 2, 5 start in each of the three rings, changes to 3
  and 7 move a timer between rings both ways.  Two timers share slots; the sweep
  only ever handles one timer at a time, and a third adds no new pair.
  `tm_change` is bounded below the wrap of the 32-bit `expires` (a hazard without
  a property).
- *Tmd.*  Limits 0, 1 and 2 are endless, one-shot and repeated; intervals 0, 1, 2
  make timers due together and apart; -1 stands for the arguments that must be
  refused.  Commands stop at tick 2 so that each limited timer (at most delay 2
  and one interval of 2) has run out before tick 7.
- *Umd.*  `umd_life` has one user: what umd does to a user among others, of its
  station or not, is what it could do to it alone, which is proved
  (OneUserIsEnough).  Two addresses beside 0.0.0.0 make the release of a user who
  moves, and one of them may be no address at all.  Limits of 2 and 3 seconds,
  idle times of 2 and 3, a trial of 2 and a collection age of 2 each expire in
  any order relative to the others, with TICKS = 1; commands, packets and the
  driver's counters stop at second 4, and the longest way out (online limit, then
  idle, then collection) ends before second 14.  The limits are
  `app/umd/auth.json` scaled down, and a stricter one with all fields set.
  `umd_flow` has what is about the users of one station together: two of them, so
  that one can be blocked when the other is made, and one packet can meet a limit
  of volume and the next pass it; MaxFlow only stops users already over every
  limit.  No time passes in it, and the driver is not asked: both are in
  `umd_life`.  Its VIEW leaves out `log`, the events of the last step, which
  decide nothing later; properties of steps are checked on every step taken, to a
  state that was seen before too.
- *UmdTable.*  Two users of one bucket and a third of another, by each hash;
  three objects are enough to free one between two others and to reuse memory.
- *UmdConn.*  Without a table every pair of the five hosts is sent; with one,
  three flows already give a cached, a found, a new, a freed and a reused
  connection; TICKS = 2 and GCCONN = 1 separate seconds from timer runs.
- *Rsha.*  Ages stop counting at the largest value the code compares them with,
  which loses nothing.  Limits of 3 (idle) and 2 (busy) seconds differ by one
  interval, so that a change of mode can shorten the limit while an answer is
  due; PeerErrorMax = 0 makes one error one too many; a window of 1 has answers
  inside, at and outside its edge; two datagrams each way can be reordered, and
  one of them be a duplicate.
- *Smd.*  Two pids for two services, one of which has two processes while it
  starts: each pid gets used again for another service, by a stranger, and there
  are none left, which is when forks fail.  `Foreign` has one stranger at a time,
  which is what an old pid, or a line of ps, needs.  Ages of a fork have the
  three values the timer distinguishes.
- *Sys.*  Three firmwares are the least a product has: the one that repairs, the
  one that runs, one to write.  Two boots in vain make one bad.  Two commands let
  a second one start from what a fault has left of the first, and of two faults
  the second hits the repair of the first, or one takes the cache and the next
  the firmware that replaces it.  (Three give 2,184,000 states and the same
  result, in more time than a run should take.)
- *Nsqa.*  Standard input, timer, listener, and three more descriptors for two
  instances and the clients that insert and remove them: numbers are used again
  at once, and few enough to run out.  0 is free after the first insert that
  fails, and then the lowest free number.  A batch of three has a request, the
  instance it frees, and the client that takes its number.

Deadlock is checked in `rsha`, `smd`, `sys` and `nsqa`.  The instances of the
others stop where their bounded clock or table ends, and only there
(CHECK_DEADLOCK FALSE).

### Fairness

- `Tmd!FairSpec`: weak fairness of `Tick` and of each due callback.  The timerfd
  is periodic and the kernel reports it again until it is read, the loop serves
  every ready descriptor in turn, handlers do not block, and `tm_trigger` runs
  all timers due in a tick before it returns.  No fairness of clients is assumed.
- `Umd!FairSpec`: weak fairness of the clock and of a timer run that is due, for
  the same reason.  None of commands or packets: IdleUserLeaves is about users
  nobody speaks to, and its instance stops both after 4 seconds.  So does the
  driver: `Heard` takes it to know a station no longer than it is spoken to.  A
  driver that goes on reporting a station that is gone starts its aging again in
  every pass, and the user stays (user.c:1743).  Its limits all have an idle time
  on some side; an auth document without one makes a user that never ages (a
  hazard), for which the property does not hold.
- `Rsha!FairSpec`: the timer goes on, and again and again with name server, route
  and socket working (weak, of that pass); a handshake sent again and again
  arrives, and so does its answer (strong).  UDP guarantees no datagram, and only
  a tunnel with such a network can be expected to come back; echoes need neither.
- `Smd!FairSpec`: weak fairness of the steps of the timer pass; strong fairness
  of a start that finds a pid, since a fork refused now is tried in each pass; a
  process obeys SIGTERM.  Respawned is under ReapingEnds: services that die at
  once can keep the loop over waitpid busy for ever (smd.c:542).
- `Sys!FairSpec`: the device goes on by itself, its scripts report a start, and
  one that was reported failed is followed by a reboot.
- Wheel, UmdTable, UmdConn and Nsqa need none: their properties are safety.

## 4. Proofs

All are checked by TLAPS from the named assumptions on constants, which TLC
evaluates in the runs.  They hold for any number of timers, users, stations,
objects, services, pids, firmwares, versions, instances and descriptors.

- **TmWheelProofs**: `TypeCorrect`, `AlwaysLinkedOnce`, for any RING, SLOT and
  set of timers, and for every callback, the one that gets itself linked twice
  among them: of a timer in `doubled` LinkedOnce says just that.  LinkedOnce is
  not inductive: in the middle of a sweep a visit unlinks its timer, so the
  timers still to be visited must be pending, and a timer is unlinked only if it
  is.  `IInv` adds `TodoPending` (what the sweep has left is pending) and
  `NothingLeft` (no sweep, nothing left).  Lemmas say what `Insert`, `Unlink` and
  `Settle` make of one node; the step has a case for each action.
- **TmWheelProofs**, second part: `NeverLate`, `PendingHasTimeLeft`,
  `NoTimerOverdue` and the refinement `ImplementsClock`, for a wheel of any size,
  from `NoZeroDelay`: no caller and no callback changes a timer to 0 ticks (no
  program of the repository calls `tm_change` or `tm_change_expires`).  `Hand(r)`
  counts the moves of a hand, without the modulo: the ticks its ring has `Seen`,
  divided by Unit; `Turning` says that `current` is that count modulo SLOT, and
  that a sweep reaches a ring only at its ticks.  `Lodged` says where timers are:
  one that waits has a move v of the hand of its ring to come, less than a turn
  away, that takes its slot and is not too late (`TakenAt`: Unit * v <= due, and
  equal in ring 0); one in the slot being emptied is taken by the move just made
  (`Taken`).  An outer ring may be one tick behind during a sweep, and `Insert`
  is still right (`InsertWaits`): the code takes the digit of what is left and
  adds it to the hand as it is.  VisitedInTime gives `Lodged` back in terms of
  slots, and the clock may advance because what waits is due after what its ring
  has seen.  The arithmetic (`Carries`, `Inner`, `ModOnce`, `FindRingSpan`) is
  proved from division with remainder.
- **TmdProofs**: `TypeCorrect` and `NeverOutlives` hold for arguments of any
  size, `NeverDrifts` and `NeverLost` if the milliseconds fit an int
  (`ShortPeriods`; without it tmd does lose a timer, see section 5).  `LiveInv`
  adds `GoodEntries`, that the table holds only what `is_good_tm_args` accepts,
  without which the callback could compute a period of 0.  `ExactInv` adds
  NoDrift and LiveIsArmed, which need each other.
- **TmdProofs**, second part: `UsesClock` says that each step of tmd is a step of
  TmClock or a stutter: what tmd asks of the library is what the library
  promises, for arguments of any size, overflown ones included, since tmd_insert
  refuses what comes out as 0 or less.  Its assumption `DelaysFit` is that a
  delay is below Span: seconds are ints and Span is 2^32.  `ClockPromise` is the
  promise itself, that no armed timer is overdue in TmClock.  With
  ImplementsClock, both sides of timer.h are proved against the same module. Put
  together with NoDrift and LiveIsArmed they give `RunsOutInTime`: a limited
  timer is never past its last due tick with triggers to come, which is all of
  RunsOut but that the clock goes on.
- **UmdTableProofs**: `TypeCorrect`, `NeverDangling`, `AlwaysFound`, `AlwaysOne`,
  for any hash functions, any memory and any sync.  `TableInv` is TypeOK and
  NoDangling together; they need nothing of the keys, since a node is unlinked
  from the bucket it remembers, and on them rest the two that exempt synced and
  extra users.
- **UmdTableProofs**, second part, of UmdConn: `ConnTyped`, `NeverStale`,
  `ChargedRight`, for any hosts and classes, any TICKS and GCCONN.  NoStaleConn
  is about the moment after the timer; `ConnInv` says what holds between: no hit
  is later than now (`HitBefore`), a due timer is due at a multiple of TICKS
  (`Phase`), and at the last run of the timer no connection was older than GCCONN
  (`Young`), from which it is younger than GCCONN + TICKS until the next.  The
  cached pointer needs no part of it: whatever it points at, a lookup leaves
  every hit as it is or makes one of them now (`LookupEffect`).
  ChargedButFromLan is a fact of one packet, by cases over the classes of its
  ends, for every way the connection is found.
- **UmdProofs**: `TypeCorrect`, `NoAddressUnbound`, `LanAlwaysIncludesWan`,
  `AgingStaysInRange`, for any number of users and stations, any addresses,
  counters of the driver and configuration, from `GoodDumps`: documents of peers
  are good users themselves, as `umd_juser` of a peer that runs the same code
  writes them.  `IInv` says that each user is a `GoodUser`.  There is one lemma
  an operator of `user.c`, that it keeps a user good, and most operators break
  aging for a moment, so `Unaged` is the same without aging; each handler is a
  chain of lemmas.
- **UmdProofs**, second part: `BlockedIsOut`, `QuotaOfFlow`, `QuotaOfTime`,
  `CollectsInTime`.  `NextOutcome` says that a step makes of each user an
  `Outcome`: what one handler makes of one user, or nothing.  `Keeps` is what
  every operator keeps of three facts: at an earlier moment b the user had not
  outrun its time (`InTime`); it has not been used since t (`Rested`); its volume
  is within its limits (`Thrifty`).  b and t are any moments, so that InTime at
  the last run of the timer (`LastRun`) gives TimeQuota and Rested since
  `lastBound` gives NotCollectedEarly: an unbind leaves noused at now, whatever
  came before.  The document of a peer is the one step that keeps none of it,
  since it carries times of another clock; hence the assumptions on `Dumps` of
  the last three, which the runs meet: umd_life has no documents, those of
  umd_flow are within their volume.  QuotaOfFlow also assumes `Counters = {}`, a
  build that does not ask the driver: see section 5. BlockedIsOut is about the
  users of a station together: a handler changes one user, an operator leaves a
  blocked one blocked but for the events it names, and a user that is new was
  made by associate, since no other handler makes one while the station has one.
- **UmdProofs**, third part: `EventsAreTrue` and `EventsCarryIp`.  Each operator
  appends the event of the one change of state it makes, and a handler calls
  several, so the events of a step must be a chain.  `Tells(u, v)` says that the
  log of v leads on from wherever that of u has led, in state and in address.  It
  is transitive, so there is one lemma an operator, from those of an event
  reported after the change and one reported before; a handler is the chain of
  its operators.  Nothing is assumed of addresses.
- **UmdProofs**, fourth part: `OneUserIsEnough`.  `One(o)` is an INSTANCE of Umd
  whose only user is o and whose variables are the part of `user` and `lastBound`
  that is o's.  Every behaviour of Umd is one of One(o), under the same fairness:
  no operator of user.c looks at the table (`OneBase`, `OneDown`, `OneUp`,
  `OnePacket`, `OneTimer`), the timer and gc do to each user what they do to all,
  and a step of another user, of the same station or not, is Elsewhere.  So what
  TLC finds of one user in `umd_life`, IdleUserLeaves included, holds for every
  user of any number, for the configuration and limits of the run.
- **RshaProofs**: `SpecTypeOK`, `SpecTunnelIsAnswered`, `SpecSilenceBounded`,
  `SpecRestartForCause`.  TunnelIsAnswered is not inductive: an answer carries
  the tunnel forward, so `ThisSocket` says that anything in flight downwards is
  from a peer that has heard from the open socket.  SilenceBounded needs
  `Latest`, that the present mode knows the latest answer, since a change of mode
  compares it with another limit.  No order of the two limits is assumed: between
  two passes a tunnel is `Bounded`, within the limit of its mode or, since a
  change of mode that the last pass has made or a command has made since, of the
  other; the next pass, which starts with the check of the present limit,
  restarts it or finds it `OnTime`.  `Sound` is the rest with the types, of a
  pair of instance and network.  The lemmas follow the triggers: one each, that
  it keeps the pair sound, then the pass as their chain.
- **SmdProofs**: `SpecTypeOK`, `SpecSonsAreKnown`, `SpecNoDouble`, for any number
  of services and pids, whatever ps lists.  `Known` adds to SonsAreKnown that an
  entry not forked or running remembers no pid (`NoPid`), that a deamon that is
  down has no process (`Down`), and what a visit knows at each of its steps
  (`VisitOk`): one that is to kill or fork has no child of smd left, and one that
  has killed a deamon by name has none of its processes, whatever has come, gone
  or written its pidfile since the check. `Unique` adds to NoDouble that the
  process of a normal service is the one its entry has (`Tracked`), that it has
  none where a visit is to fork (`Gone`), and that a deamon without an entry is
  up and in its pidfile (`Up`), so that the next insert adopts it; all four
  exempt the services of `lost`.
- **SysProofs**: `SpecTypeOK`, `SpecRunningUntouched`, `SpecSwitchComplete`,
  `SpecTornIsBad`, for any Count above 2, Trys and bounds, and any source of a
  reset.  `Firm` carries `Guarded`, what the firmware a job writes may be;
  `Complete` what of it is already whole at each stage, in the cache or on the
  disk.  `Sound` has `Honest`: what is torn and marked good is `Excused`, that is
  spoilt, or of the current firmware while nothing runs and its kernel and rootfs
  are good and counted alike (`Twin`), which is what super startup and reset
  leave when they switch to what did not go well; the loader counts the two at
  once, so that both stop being good at once and it chooses another.  With it go
  that what runs is intact and that what is being written is marked so
  (`Sources`).  The step is split by what it does to the marks: prepare a write,
  a write that went well, a switch, the device.
- **NsqaProofs**: `SpecTypeOK`, `SpecOwnsItsSocket`, `SpecHandledIsOwn`,
  `SpecServedUnlessStale`, for any instances, descriptors and batches.  `Sound`
  is one invariant over loop, batch and instances.  HandledIsOwn looks at the
  head of the batch and so needs it of every event in it (`Batched`), of every
  descriptor epoll may report next (`Registered`), and that no descriptor is
  twice in a batch (`Once`): confuse leaves a watcher that is no longer its
  instance's, which is harmless only because its event was the one being handled.
  An insert that fails closes 0 in the middle of a batch, and takes it from an
  instance that has it: what such an instance has is a number out of epoll
  (`Held`), on which no event is raised any more.  `Left` says that only a number
  left by a confused instance, or 0, is free and still watched, which
  ServedUnlessStale rests on.

Every invariant and every action property of the passing runs is stated by a
theorem.  Only model-checked are the liveness properties RunsOut, IdleUserLeaves,
Reconnects, EchoesGoOn, Respawned and ComesUp: they need fairness and ENABLED,
which are beyond what TLAPS 1.4.5 proves.  No module declares a RECURSIVE operator.

## 5. Findings and divergences

Two are runs that TLC finds violated; `PROJECT.json` quotes the lines.

1. `smd_remove` takes an entry out of the table and then kills its service, which
   changes its pid and so links it again; then it is freed (smd.c:641-655).
2. An nsqa instance that loses its connection goes back to init with its address
   known, and `nsq_resolve` moves only those without one: it stays there
   (proto.c:224, timer.c:22).

The following are in the models too, and the properties say where they make an
exception for them:

- `tm_change(t, 0)` leaves a timer pending with no time left, against "=0: NOT
  pending" (timer.h), and so does `tm_change_expires(t, 0)`; the timer fires a
  turn of ring 0 late.  `tm_insert` refuses 0.  The runs change to 3 and 7 only,
  and the proofs assume `NoZeroDelay`.
- tmd loses a timer whose period in milliseconds overflows an int.
- A callback that inserts its own timer as a cycle and returns safe has it linked
  twice (timer.c:240-246): LinkedOnce exempts `doubled`.
- associate makes a second user of a station the table already holds
  (user.c:1055): OneUnlessExtra.  A blocked station gets in again by it, once the
  new user is the one a lookup finds; BlockedStaysOut names the create that tells
  of it, and EventsTell is about each user: a script that follows by mac sees a
  create of a station it knows.
- 0.0.0.0 is bound like any address (addr.h:32-42): UnboundHasNoIp says that no
  address is left without a binding, not that a bound user has one that can be
  used.
- Where the driver is asked, its counters replace those of the packets after the
  checks of the pass, and lan and wan alike (user.c:1734-1742): volume is checked
  by the next packet only, and FlowQuota does not hold in between.  Each call
  also leaves a socket open (user.c:1751); when there are no more, the counters
  stay as they are.
- sync changes the keys of a user without relinking it, and it is lost by them
  (user.c:1306): FoundUnlessSynced.
- packets from the lan to a user are counted as the device's (flow.c:344):
  ChargedButFromLan.
- peer_error of rsha is never cleared (timer.c:104), so that after too many
  errors each pass that sees the tunnel run restarts it: Reconnects.  A restart
  clears the times of echoes and not their counts, so that a mode used before
  sends no echo after it, and hears none: EchoesGoOn.  RSHA_ECHO_BUSY_TIMEOUT is
  in milliseconds and compared with seconds (timer.c:90): BusyTimeout is any.
- A bad answer is handled like a good one when it carries the ack flag (rsha
  proto.c:163-176), and a duplicated command is run again.
- A crash of smd while a deamon starts, before its pidfile is written, lets it be
  started twice; and ps lists the client that inserts a normal service, which is
  waiting with the name among its arguments (smd.c:154-163): a service that runs
  already may be taken for it, or another process for the service, and the
  service is started once more when that is gone.  NoDouble exempts both (`lost`,
  which grows in no other way).
- A power cut takes from the cache what is already marked good (sys.c:720-728,
  751-760); reset copies from a firmware that is torn as from any, and marks the
  copy good (sys.c:1732-1766); super startup and reset switch to what they have
  written whether or not that went well (sys.c:1396).  TornIsBad exempts the
  first two by name (`spoilt`) and the current firmware.  Reset labels the kernel
  with the version it replaces (sys.c:1147).  Power cuts during boot mark a good
  firmware bad; firmware 0 comes up then.
- When socket() fails, nsqi_insert destroys the instance with descriptor 0 and
  closes it (instance.c:72, 92-97).  Once 0 has been given out again, to an
  instance or a client, the next failure closes that: an instance robbed so keeps
  its number and its watcher and hears nothing, or sends to whatever is opened
  there next.  OwnsItsSocket and ServedUnlessStale exempt 0 out of epoll.
- After a confused nsqa instance its watcher stays (proto.c:352): a client that
  is given its number is never served, ServedUnlessStale; a new socket given it
  is refused.  OK counts as a named error, so a subscription is never confirmed
  and `subscribed` is not reached; a failed connect counts as connected
  (proto.c:247).

## 6. What is not modelled inside the modelled parts

- A callback that inserts, removes or changes *another* timer while the slot is
  walked: the walk's saved next node may then be stale.
- The 32-bit wrap of `expires` by repeated `tm_change`, and of
  `max*numerator/denominator` in the reauth limits.
- Tags, group, ssid and rates of a user; formatting and parsing of documents,
  commands and packets; the scripts events start (and that two of them may finish
  in the other order).
- What is meant by a packet to another user that umd does not know, which leaves
  the source uncharged: the code says nowhere.  `Charged` has it, and
  ChargedButFromLan exempts it (`ToUnknown`).
- Failure of malloc in umd.
- The cache of rsha instances by name and address; the contents and keys of its
  messages; its peer, which is not in the repository and answers as rsha expects.
- In smd, killall by name reaching processes of another service with the same
  program; what a freed entry that is still linked reads as is undefined, and
  read as before (or as a crash) here.
- The copies of the environment's block in flash and their checks, the cookie,
  and a block that cannot be saved (`sys_save` results are ignored); the scripts
  that copy and check files.
- Ages of the states of nsqa, which only make it send again; watchers of inotify
  and signals; an epoll_ctl that fails, after which `watcher->fd` is set and the
  descriptor is not in epoll (loop.c:178-191).

## 7. Components not modelled

- *Tags of umd*: `umduser_tag_clear` frees in a walk that is not safe
  (dlist.h:339): its first step is undefined in every state, and there is nothing
  to explore.
- *Channel, cqueue, coroutines*: no program of the repository uses them.  (A full
  channel reads as empty, channel.c:58.)
- *guard and haenv*: the start-up that would read or write the redundant
  environment is compiled out (this.c:68-76).
- *Configuration* is read once and is the CONSTANTS here.  *Clients*, the *benv
  command line*, *logging daemons*, *pipes* and *device helpers* are I/O with no
  history; *codecs*, JSON and buffers are pure; the *JavaScript engine* (most of
  the lines of the repository) is vendored.

## 8. Plan

Done, in this order: TmClock, TmWheel, Tmd, Umd, UmdTable, UmdConn, with the
proofs of four of them; then Rsha, Smd, Benv and Sys, Loop and Nsqa, each with its
proofs; then the proofs of UmdConn and of events, of tmd as a client of the
clock, and that one user is enough.  What is left:

1. The like of OneUserIsEnough for the services of smd and the instances of
   nsqa, which do share something: pids, descriptors.
2. A wheel whose callbacks touch other timers, with the saved next node of the
   walk as state; the 32-bit `expires`.
3. `Umd` and `UmdTable` composed, so that the walk of the timer deletes from the
   table it walks, and the arithmetic of reauth limits at its width.
4. The two copies of the environment's block, below `Sys`.

## 9. Running it

In this directory, for a row of `runs` in `PROJECT.json`:

    tlc -workers 2 -config MCSmd.cfg MCSmd
    tlapm SmdProofs.tla

The longest runs, `wheel`, `rsha`, `sys` and `nsqa`, take about a minute each; the
longest proofs, `SysProofs` and `UmdProofs`, some minutes.
