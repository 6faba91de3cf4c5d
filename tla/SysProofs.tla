------------------------------ MODULE SysProofs ------------------------------
(***************************************************************************)
(* Theorems about Sys: types, the running firmware is never written, an    *)
(* upgrade switches to what it has written completely, and a torn firmware *)
(* is not marked good.                                                     *)
(*                                                                         *)
(* The last rests on what every step knows of the firmwares: who says that *)
(* an object is good, and what a job in each of its stages has on disk.    *)
(***************************************************************************)
EXTENDS Sys, TLAPS

-----------------------------------------------------------------------------
(* What the operators of Benv return.                                      *)

LEMMA Assumed ==
  /\ Count \in Nat /\ Count > 2 /\ Trys \in Nat \ {0}
  /\ Versions \subseteq Nat \ {0} /\ Torn \notin Versions
  /\ Current \in Firmwares /\ Factory \in Versions
  /\ {0, 1, 2} \subseteq Firmwares /\ {1, 2} \subseteq Normals
  /\ Normals \subseteq Firmwares /\ 0 \notin Normals
PROOF
  BY CountAssumption, TrysAssumption, VersionsAssumption, CurrentAssumption,
     FactoryAssumption DEF Firmwares, Normals, Torn

LEMMA VcsFields ==
  ASSUME NEW os \in Os, NEW f \in Firmwares, NEW obj \in Objs
  PROVE  /\ os.vcs[f][obj] \in Vcs
         /\ os.vcs[f][obj].error \in 0 .. Trys
         /\ os.vcs[f][obj].version \in Versions
PROOF
  BY DEF Os, Vcs

(* Nothing is good that was not.                                           *)
Worse(os, os2) ==
  \A f \in Firmwares, obj \in Objs :
    is_benv_good_obj(os2, obj, f) => is_benv_good_obj(os, obj, f)

LEMMA UpgradeInit ==
  ASSUME NEW os \in Os, NEW f \in Firmwares, NEW obj \in Objs,
         NEW v \in Versions
  PROVE  /\ upgrade_init(os, f, obj, v) \in Os
         /\ upgrade_init(os, f, obj, v).current = os.current
         /\ upgrade_init(os, f, obj, v).vcs[f][obj].upgrade = UNKNOW
         /\ Worse(os, upgrade_init(os, f, obj, v))
PROOF
<1> DEFINE x == [upgrade |-> UNKNOW, other |-> UNKNOW, self |-> UNKNOW,
                 error |-> 0, version |-> v]
           os2 == [os EXCEPT !.vcs[f][obj] = x]
<1>1. upgrade_init(os, f, obj, v) = os2
  BY DEF upgrade_init, Set
<1>2. x \in Vcs
  BY Assumed DEF Vcs, Fsm
<1>3. /\ x.upgrade = UNKNOW
      /\ ~ is_benv_good_vcs(x)
  BY DEF is_benv_good_vcs, UNKNOW, OK
<1> HIDE DEF x
<1>4. os2 \in Os
  BY <1>2 DEF Os
<1>5. os2.current = os.current /\ os2.vcs[f][obj] = x
  BY DEF Os
<1>6. ASSUME NEW g \in Firmwares, NEW o \in Objs,
             is_benv_good_obj(os2, o, g)
      PROVE  is_benv_good_obj(os, o, g)
  <2>1. CASE g = f /\ o = obj
    BY <1>3, <1>5, <1>6, <2>1 DEF is_benv_good_obj
  <2>2. CASE ~ (g = f /\ o = obj)
    <3>1. os2.vcs[g][o] = os.vcs[g][o]
      BY <2>2 DEF Os
    <3> QED BY <1>6, <3>1 DEF is_benv_good_obj
  <2> QED BY <2>1, <2>2
<1> QED BY <1>1, <1>3, <1>4, <1>5, <1>6 DEF Worse

LEMMA SysUpgradeInit ==
  ASSUME NEW os \in Os, NEW f \in Firmwares, NEW v \in Versions
  PROVE  /\ sys_upgrade_init(os, f, v) \in Os
         /\ sys_upgrade_init(os, f, v).current = os.current
         /\ \A obj \in Objs :
              sys_upgrade_init(os, f, v).vcs[f][obj].upgrade = UNKNOW
         /\ Worse(os, sys_upgrade_init(os, f, v))
PROOF
<1> DEFINE os1 == upgrade_init(os, f, "rootfs", v)
           os2 == upgrade_init(os1, f, "kernel", v)
<1>0. "rootfs" \in Objs /\ "kernel" \in Objs
  BY DEF Objs
<1>1. /\ os1 \in Os /\ os1.current = os.current
      /\ os1.vcs[f]["rootfs"].upgrade = UNKNOW /\ Worse(os, os1)
  BY <1>0, UpgradeInit
<1>2. os2 = [os1 EXCEPT !.vcs[f]["kernel"] =
               [upgrade |-> UNKNOW, other |-> UNKNOW, self |-> UNKNOW,
                error |-> 0, version |-> v]]
  BY DEF upgrade_init, Set
<1> HIDE DEF os1
<1>3. /\ os2 \in Os /\ os2.current = os1.current
      /\ os2.vcs[f]["kernel"].upgrade = UNKNOW /\ Worse(os1, os2)
  BY <1>0, <1>1, UpgradeInit
<1> HIDE DEF os2
<1>4. os2.vcs[f]["rootfs"] = os1.vcs[f]["rootfs"]
  BY <1>0, <1>1, <1>2 DEF Os
<1>5. Worse(os, os2)
  BY <1>1, <1>3 DEF Worse
<1>6. sys_upgrade_init(os, f, v) = os2
  BY DEF sys_upgrade_init, os2, os1
<1> QED BY <1>1, <1>3, <1>4, <1>5, <1>6 DEF Objs

LEMMA WrittenOs ==
  ASSUME NEW os \in Os, NEW f \in Firmwares, NEW obj \in Objs,
         NEW err \in BOOLEAN
  PROVE  /\ Written(os, f, obj, err) \in Os
         /\ Written(os, f, obj, err).current = os.current
         /\ \A g \in Firmwares, o \in Objs :
              is_benv_good_obj(Written(os, f, obj, err), o, g) =>
                \/ is_benv_good_obj(os, o, g) /\ (g # f \/ o # obj)
                \/ g = f /\ o = obj /\ ~ err
PROOF
<1> DEFINE x == [os.vcs[f][obj] EXCEPT !.upgrade = efsm(err)]
           os2 == [os EXCEPT !.vcs[f][obj] = x]
<1>1. Written(os, f, obj, err) = os2
  BY DEF Written, Os
<1>2. os.vcs[f][obj] \in Vcs
  BY VcsFields
<1>3. efsm(err) \in Fsm /\ (efsm(err) = OK => ~ err)
  BY DEF efsm, Fsm, OK, FAIL
<1>4. x \in Vcs /\ x.upgrade = efsm(err)
  BY <1>2, <1>3 DEF Vcs
<1>5. is_benv_good_vcs(x) => ~ err
  BY <1>3, <1>4 DEF is_benv_good_vcs
<1> HIDE DEF x
<1>6. os2 \in Os
  BY <1>4 DEF Os
<1>7. os2.current = os.current /\ os2.vcs[f][obj] = x
  BY DEF Os
<1>8. ASSUME NEW g \in Firmwares, NEW o \in Objs,
             is_benv_good_obj(os2, o, g)
      PROVE  \/ is_benv_good_obj(os, o, g) /\ (g # f \/ o # obj)
             \/ g = f /\ o = obj /\ ~ err
  <2>1. CASE g = f /\ o = obj
    BY <1>5, <1>7, <1>8, <2>1 DEF is_benv_good_obj
  <2>2. CASE g # f \/ o # obj
    <3>1. os2.vcs[g][o] = os.vcs[g][o]
      BY <2>2 DEF Os
    <3> QED BY <1>8, <2>2, <3>1 DEF is_benv_good_obj
  <2> QED BY <2>1, <2>2
<1> QED BY <1>1, <1>6, <1>7, <1>8

LEMMA SwitchTo ==
  ASSUME NEW os \in Os, NEW f \in Firmwares
  PROVE  /\ sys_switch_to(os, f) \in Os
         /\ sys_switch_to(os, f).current = f
         /\ \A obj \in Objs : /\ sys_switch_to(os, f).vcs[f][obj].upgrade = OK
                              /\ sys_switch_to(os, f).vcs[f][obj].error = 0
         /\ \A g \in Firmwares \ {f} :
              sys_switch_to(os, f).vcs[g] = os.vcs[g]
PROOF
<1> DEFINE fun == [obj \in Objs |->
                     [os.vcs[f][obj] EXCEPT !.error = 0, !.upgrade = OK,
                                            !.self = UNKNOW]]
           os2 == [os EXCEPT !.current = f, !.vcs[f] = fun]
<1>1. sys_switch_to(os, f) = os2
  BY DEF sys_switch_to
<1>2. \A obj \in Objs : os.vcs[f][obj] \in Vcs
  BY VcsFields
<1>3. 0 \in 0 .. Trys /\ OK \in Fsm /\ UNKNOW \in Fsm
  BY Assumed DEF Fsm
<1>4. \A obj \in Objs : /\ fun[obj] \in Vcs
                        /\ fun[obj].upgrade = OK /\ fun[obj].error = 0
  BY <1>2, <1>3 DEF Vcs
<1>5. fun \in [Objs -> Vcs]
  BY <1>4
<1> HIDE DEF fun
<1>6. os2 \in Os /\ os2.current = f /\ os2.vcs[f] = fun
  BY <1>5 DEF Os
<1>7. \A g \in Firmwares \ {f} : os2.vcs[g] = os.vcs[g]
  BY DEF Os
<1> QED BY <1>1, <1>4, <1>6, <1>7

LEMMA CountedOs ==
  ASSUME NEW os \in Os, NEW f \in Firmwares
  PROVE  /\ Counted(os, f) \in Os
         /\ Counted(os, f).current = f
         /\ \A obj \in Objs :
              Counted(os, f).vcs[f][obj] = Tried(os.vcs[f][obj])
         /\ \A g \in Firmwares \ {f} : Counted(os, f).vcs[g] = os.vcs[g]
PROOF
<1> DEFINE fun == [obj \in Objs |-> Tried(os.vcs[f][obj])]
           os2 == [os EXCEPT !.current = f, !.vcs[f] = fun]
<1>1. Counted(os, f) = os2
  BY DEF Counted
<1>2. ASSUME NEW obj \in Objs PROVE Tried(os.vcs[f][obj]) \in Vcs
  <2>1. os.vcs[f][obj] \in Vcs /\ Trys \in Nat
    BY VcsFields, Assumed
  <2> QED BY <2>1 DEF Tried, Vcs
<1>3. fun \in [Objs -> Vcs] /\ \A obj \in Objs : fun[obj] = Tried(os.vcs[f][obj])
  BY <1>2
<1> HIDE DEF fun
<1>4. os2 \in Os /\ os2.current = f /\ os2.vcs[f] = fun
  BY <1>3 DEF Os
<1>5. \A g \in Firmwares \ {f} : os2.vcs[g] = os.vcs[g]
  BY DEF Os
<1> QED BY <1>1, <1>3, <1>4, <1>5

LEMMA FailStartup ==
  ASSUME NEW os \in Os, NEW f \in Firmwares
  PROVE  /\ fail_startup(os, f) \in Os
         /\ Worse(os, fail_startup(os, f))
PROOF
<1> DEFINE fun == [obj \in Objs |->
                     [os.vcs[f][obj] EXCEPT !.error = Trys, !.self = UNKNOW]]
           os2 == [os EXCEPT !.vcs[f] = fun]
<1>1. fail_startup(os, f) = os2
  BY DEF fail_startup
<1>2. \A obj \in Objs : os.vcs[f][obj] \in Vcs
  BY VcsFields
<1>3. Trys \in 0 .. Trys /\ UNKNOW \in Fsm
  BY Assumed DEF Fsm
<1>4. \A obj \in Objs : fun[obj] \in Vcs /\ fun[obj].error = Trys
  BY <1>2, <1>3 DEF Vcs
<1>5. fun \in [Objs -> Vcs]
  BY <1>4
<1> HIDE DEF fun
<1>6. os2 \in Os /\ os2.vcs[f] = fun
  BY <1>5 DEF Os
<1>7. \A g \in Firmwares \ {f} : os2.vcs[g] = os.vcs[g]
  BY DEF Os
<1>8. \A obj \in Objs : ~ is_benv_good_obj(os2, obj, f)
  BY <1>4, <1>6, Assumed DEF is_benv_good_obj, is_benv_good_vcs
<1> QED BY <1>1, <1>6, <1>7, <1>8 DEF Worse, is_benv_good_obj

LEMMA NormalStartup ==
  ASSUME NEW os \in Os, NEW f \in Firmwares
  PROVE  /\ normal_startup(os, f) \in Os
         /\ normal_startup(os, f).current = os.current
         /\ \A g \in Firmwares \ {f}, obj \in Objs :
              is_benv_good_obj(normal_startup(os, f), obj, g) =>
                is_benv_good_obj(os, obj, g)
PROOF
<1> DEFINE x(g, obj) ==
             IF g = f THEN [os.vcs[g][obj] EXCEPT !.error = 0, !.self = OK]
             ELSE IF OtherOk(os, f, obj, g)
               THEN [os.vcs[g][obj] EXCEPT !.other = OK]
             ELSE os.vcs[g][obj]
           fun == [g \in Firmwares |-> [obj \in Objs |-> x(g, obj)]]
           os2 == [os EXCEPT !.vcs = fun]
<1>1. normal_startup(os, f) = os2
  BY DEF normal_startup
<1>2. ASSUME NEW g \in Firmwares, NEW obj \in Objs
      PROVE  /\ x(g, obj) \in Vcs
             /\ g # f => /\ x(g, obj).error = os.vcs[g][obj].error
                         /\ x(g, obj).upgrade = os.vcs[g][obj].upgrade
  <2>1. os.vcs[g][obj] \in Vcs
    BY VcsFields
  <2>2. 0 \in 0 .. Trys /\ OK \in Fsm
    BY Assumed DEF Fsm
  <2>3. CASE g = f
    BY <2>1, <2>2, <2>3 DEF Vcs
  <2>4. CASE g # f
    BY <2>1, <2>2, <2>4 DEF Vcs
  <2> QED BY <2>3, <2>4
<1> HIDE DEF x
<1>3. fun \in [Firmwares -> [Objs -> Vcs]]
  BY <1>2
<1>4. \A g \in Firmwares, obj \in Objs : fun[g][obj] = x(g, obj)
  OBVIOUS
<1> HIDE DEF fun
<1>5. os2 \in Os /\ os2.current = os.current /\ os2.vcs = fun
  BY <1>3 DEF Os
<1> HIDE DEF os2
<1>6. ASSUME NEW g \in Firmwares \ {f}, NEW obj \in Objs,
             is_benv_good_obj(os2, obj, g)
      PROVE  is_benv_good_obj(os, obj, g)
  <2>1. os2.vcs[g][obj] = x(g, obj)
    BY <1>4, <1>5
  <2>2. /\ os2.vcs[g][obj].error = os.vcs[g][obj].error
        /\ os2.vcs[g][obj].upgrade = os.vcs[g][obj].upgrade
    BY <1>2, <2>1
  <2> QED BY <1>6, <2>2 DEF is_benv_good_obj, is_benv_good_vcs
<1> QED BY <1>1, <1>5, <1>6 DEF os2

LEMMA Chosen ==
  ASSUME NEW S \in SUBSET Firmwares
  PROVE  First(S) \in SUBSET S
PROOF
  BY DEF First

LEMMA Selected ==
  ASSUME NEW os \in Os
  PROVE  /\ benv_select(os) \in SUBSET Firmwares
         /\ \A f \in benv_select(os) :
              f # os.current => ~ is_benv_good_firmware(os, os.current)
PROOF
<1> DEFINE skips == benv_skips(os, 0)
           buddy == benv_find_first_good_buddy(os, os.current, skips)
           best == BestFirmware(os, skips)
<1>1. \A s : GoodFirmware(os, s) \in SUBSET Firmwares
  BY Assumed DEF GoodFirmware
<1>2. best \in SUBSET Firmwares
  BY <1>1 DEF BestFirmware
<1>3. buddy \in SUBSET Firmwares
  BY <1>1 DEF benv_find_first_good_buddy, First
<1>4. os.current \in Firmwares /\ 0 \in Firmwares
  BY Assumed DEF Os
<1> HIDE DEF skips, buddy, best
<1>5. benv_select(os) = IF is_benv_good_firmware(os, os.current)
                          THEN {os.current}
                        ELSE IF buddy # {} THEN buddy
                        ELSE IF best # {} THEN best
                        ELSE {0}
  BY DEF benv_select, skips, buddy, best
<1> QED BY <1>2, <1>3, <1>4, <1>5

LEMMA Upgradable ==
  ASSUME NEW v, NEW todo \in SUBSET Firmwares, NEW f \in sys_get_upgrade(v, todo)
  PROVE  \/ f \in todo /\ f \in Normals
         \/ f \in {1, 2} /\ f # machine.at
PROOF
<1> DEFINE skips == Firmwares \ todo
           good == benv_find_first_good_byversion(benv, v, skips)
           any == benv_find_first_byversion(benv, v, skips)
           worst == WorstRootfs(benv, skips)
<1>1. \A g \in Normals \ skips : g \in todo /\ g \in Normals
  BY Assumed
<1>2. good \in SUBSET (Normals \ skips)
  BY DEF benv_find_first_good_byversion, First, GoodRootfs
<1>3. any \in SUBSET (Normals \ skips)
  BY DEF benv_find_first_byversion, First
<1>4. worst \in SUBSET (Normals \ skips)
  BY DEF WorstRootfs
<1> HIDE DEF skips, good, any, worst
<1>5. sys_get_upgrade(v, todo) =
        IF good # {} THEN good
        ELSE IF any # {} THEN any
        ELSE IF todo # {} THEN worst
        ELSE {IF machine.at = 1 THEN 2 ELSE 1}
  BY DEF sys_get_upgrade, skips, good, any, worst
<1> QED BY <1>1, <1>2, <1>3, <1>4, <1>5

-----------------------------------------------------------------------------
(* Types, and which firmware a job may be at.                              *)

TypeInv ==
  /\ benv \in Os
  /\ disk \in [Firmwares -> [Objs -> Contents]]
  /\ dirty \subseteq Parts /\ spoilt \subseteq Parts
  /\ machine \in Machine
  /\ job \in Job
  /\ commands \in 0 .. MaxCommands
  /\ faults \in 0 .. MaxFaults

(* A command runs on a firmware that is up; super startup on 0 and every   *)
(* other command on another.  What is still to visit, what is being        *)
(* written and what is copied are different firmwares, none is the running *)
(* one, and only the usb upgrade comes to 0.                               *)
Guarded ==
  /\ job.cmd = "none" => job = NoJob
  /\ job # NoJob => machine.state = "up"
  /\ job.cmd = "super" => machine.at = 0 /\ job.todo = {}
  /\ job.cmd \notin {"none", "super"} => machine.at # 0
  /\ job.cmd # "none" => machine.at \notin job.todo
  /\ 0 \in job.todo => job.cmd = "usb"
  /\ job.stage \in {"rootfs", "kernel", "file"} =>
       /\ job.dst # machine.at
       /\ job.dst = 0 => job.cmd = "usb"
  /\ job.cmd = "reset" =>
       /\ job.by \notin job.todo
       /\ job.stage \in {"rootfs", "kernel", "file"} => job.by # job.dst

Firm == TypeInv /\ Guarded

(* A job that a command begins, or goes on with, without a write of disk.  *)
LEMMA NoJobJob ==
  /\ NoJob \in Job
  /\ NoJob.cmd = "none" /\ NoJob.stage = "next" /\ NoJob.todo = {}
PROOF
  BY Assumed, MaxUpgradesAssumption DEF NoJob, Job, Contents

LEMMA InitFirm == Init => Firm
PROOF
<1> SUFFICES ASSUME Init PROVE Firm
  OBVIOUS
<1> DEFINE x == [upgrade |-> OK, other |-> UNKNOW, self |-> UNKNOW,
                 error |-> 0, version |-> Factory]
           vcs == [f \in Firmwares |-> [obj \in Objs |-> x]]
<1>1. x \in Vcs
  BY Assumed DEF Vcs, Fsm
<1> HIDE DEF x
<1>2. vcs \in [Firmwares -> [Objs -> Vcs]]
  BY <1>1
<1> HIDE DEF vcs
<1>3. benv = [current |-> Current, vcs |-> vcs]
  BY DEF Init, vcs, x
<1>4. benv \in Os
  BY <1>2, <1>3, Assumed DEF Os
<1>5. disk \in [Firmwares -> [Objs -> Contents]]
  BY Assumed DEF Init, Contents
<1>6. machine \in Machine
  BY Assumed DEF Init, Off, Machine
<1>7. commands \in 0 .. MaxCommands /\ faults \in 0 .. MaxFaults
  BY MaxCommandsAssumption, MaxFaultsAssumption DEF Init
<1>8. job = NoJob /\ dirty = {} /\ spoilt = {}
  BY DEF Init
<1> QED BY <1>4, <1>5, <1>6, <1>7, <1>8, NoJobJob DEF Firm, TypeInv, Guarded

(* Commands begin.                                                         *)
LEMMA BeginFirm ==
  ASSUME Firm, Commanded, Command
  PROVE  Firm' /\ job'.stage = "next"
PROOF
<1>1. /\ job = NoJob /\ machine.state = "up" /\ machine.at # 0
      /\ machine.at \in Firmwares
  BY DEF Firm, TypeInv, Commanded, Ready, Machine
<1>2. \A f \in Firmwares : machine.at \in __skips(f) /\ 0 \in __skips(f)
  BY DEF __skips, benv_skips
<1>3. ASSUME NEW j \in Job, Begin(j), j.stage = "next",
             j.cmd \in {"upgrade", "auto", "repair", "reset", "usb"},
             machine.at \notin j.todo, 0 \in j.todo => j.cmd = "usb",
             j.cmd = "reset" => j.by \notin j.todo
      PROVE  Firm' /\ job'.stage = "next"
  <2>1. /\ job' = j /\ commands' = commands + 1 /\ commands < MaxCommands
        /\ UNCHANGED <<benv, disk, dirty, spoilt, machine, faults>>
    BY <1>3 DEF Begin
  <2>2. commands' \in 0 .. MaxCommands
    BY <2>1, MaxCommandsAssumption DEF Firm, TypeInv
  <2>3. TypeInv'
    BY <1>3, <2>1, <2>2 DEF Firm, TypeInv
  <2>4. Guarded'
    BY <1>1, <1>3, <2>1 DEF Guarded
  <2> QED BY <1>3, <2>1, <2>3, <2>4 DEF Firm
<1>4. CASE sys_cmd_upgrade
  <2>1. PICK v \in Versions, force \in BOOLEAN :
          LET upgrade == [NoJob EXCEPT !.cmd = "upgrade", !.version = v,
                                       !.force = force]
          IN  \/ \E f \in Normals \ {machine.at} :
                   Begin([upgrade EXCEPT !.todo = {f}])
              \/ Begin([upgrade EXCEPT !.todo = Normals \ {machine.at}])
              \/ \E n \in 1 .. MaxUpgrades :
                   Begin([upgrade EXCEPT !.cmd = "auto", !.left = n,
                                         !.todo = Normals \ __skips(0)])
    BY <1>4 DEF sys_cmd_upgrade
  <2> DEFINE upgrade == [NoJob EXCEPT !.cmd = "upgrade", !.version = v,
                                      !.force = force]
  <2>2. upgrade \in Job /\ upgrade.stage = "next" /\ upgrade.cmd = "upgrade"
    BY NoJobJob DEF Job
  <2> HIDE DEF upgrade
  <2>3. CASE \E f \in Normals \ {machine.at} :
               Begin([upgrade EXCEPT !.todo = {f}])
    <3>1. PICK f \in Normals \ {machine.at} :
                 Begin([upgrade EXCEPT !.todo = {f}])
      BY <2>3
    <3> DEFINE j == [upgrade EXCEPT !.todo = {f}]
    <3>2. /\ j \in Job /\ j.stage = "next" /\ j.cmd = "upgrade"
          /\ j.todo = {f}
      BY <2>2, Assumed DEF Job
    <3>3. Begin(j)
      BY <3>1
    <3> HIDE DEF j
    <3> QED BY <1>3, <3>2, <3>3, Assumed
  <2>4. CASE Begin([upgrade EXCEPT !.todo = Normals \ {machine.at}])
    <3> DEFINE j == [upgrade EXCEPT !.todo = Normals \ {machine.at}]
    <3>2. /\ j \in Job /\ j.stage = "next" /\ j.cmd = "upgrade"
          /\ j.todo = Normals \ {machine.at}
      BY <2>2, Assumed DEF Job
    <3>3. Begin(j)
      BY <2>4
    <3> HIDE DEF j
    <3> QED BY <1>3, <3>2, <3>3, Assumed
  <2>5. CASE \E n \in 1 .. MaxUpgrades :
               Begin([upgrade EXCEPT !.cmd = "auto", !.left = n,
                                     !.todo = Normals \ __skips(0)])
    <3>1. PICK n \in 1 .. MaxUpgrades :
               Begin([upgrade EXCEPT !.cmd = "auto", !.left = n,
                                     !.todo = Normals \ __skips(0)])
      BY <2>5
    <3> DEFINE j == [upgrade EXCEPT !.cmd = "auto", !.left = n,
                                    !.todo = Normals \ __skips(0)]
    <3>1a. n \in 0 .. MaxUpgrades
      BY MaxUpgradesAssumption
    <3>1b. Normals \ __skips(0) \in SUBSET Firmwares
      BY Assumed
    <3>2. /\ j \in Job /\ j.stage = "next" /\ j.cmd = "auto"
          /\ j.todo = Normals \ __skips(0)
      BY <2>2, <3>1a, <3>1b DEF Job
    <3>3. Begin(j)
      BY <3>1
    <3> HIDE DEF j
    <3> QED BY <1>2, <1>3, <3>2, <3>3, Assumed
  <2>6. \/ \E f \in Normals \ {machine.at} :
             Begin([upgrade EXCEPT !.todo = {f}])
        \/ Begin([upgrade EXCEPT !.todo = Normals \ {machine.at}])
        \/ \E n \in 1 .. MaxUpgrades :
             Begin([upgrade EXCEPT !.cmd = "auto", !.left = n,
                                   !.todo = Normals \ __skips(0)])
    BY <2>1 DEF upgrade
  <2> QED BY <2>3, <2>4, <2>5, <2>6
<1>5. CASE sys_cmd_repair
  <2>1. PICK zone \in {Firmwares} \cup {{f} : f \in Normals \ {machine.at}} :
          Begin([NoJob EXCEPT !.cmd = "repair", !.todo = RepairZone(zone)])
    BY <1>5 DEF sys_cmd_repair
  <2> DEFINE j == [NoJob EXCEPT !.cmd = "repair", !.todo = RepairZone(zone)]
  <2>2. RepairZone(zone) = zone \ __skips(0) /\ zone \in SUBSET Firmwares
    BY Assumed DEF RepairZone
  <2>3. /\ j \in Job /\ j.stage = "next" /\ j.cmd = "repair"
        /\ j.todo = zone \ __skips(0)
    BY <2>2, NoJobJob DEF Job
  <2>4. Begin(j)
    BY <2>1
  <2> HIDE DEF j
  <2> QED BY <1>2, <1>3, <2>3, <2>4, Assumed
<1>6. CASE sys_cmd_reset
  <2>1. PICK by \in Firmwares \ {machine.at} :
          \E f \in First(Normals \ __skips(by)) :
            Begin([NoJob EXCEPT !.cmd = "reset", !.by = by,
                                !.todo = Normals \ __skips(by), !.first = f])
    BY <1>6 DEF sys_cmd_reset
  <2>2. PICK f \in First(Normals \ __skips(by)) :
            Begin([NoJob EXCEPT !.cmd = "reset", !.by = by,
                                !.todo = Normals \ __skips(by), !.first = f])
    BY <2>1
  <2> DEFINE j == [NoJob EXCEPT !.cmd = "reset", !.by = by,
                                !.todo = Normals \ __skips(by), !.first = f]
  <2>3. f \in Firmwares
    BY Assumed DEF First
  <2>4. /\ j \in Job /\ j.stage = "next" /\ j.cmd = "reset" /\ j.by = by
        /\ j.todo = Normals \ __skips(by)
    BY <2>3, NoJobJob, Assumed DEF Job
  <2>5. Begin(j) /\ by \in __skips(by)
    BY <2>2 DEF __skips
  <2> HIDE DEF j
  <2> QED BY <1>2, <1>3, <2>4, <2>5, Assumed
<1>7. CASE sys_usbupgrade
  <2>1. PICK v \in Versions, force \in BOOLEAN, kernel \in BOOLEAN,
             zone \in {Firmwares} \cup {{f} : f \in Normals \ {machine.at}} :
          Begin([NoJob EXCEPT !.cmd = "usb", !.version = v,
                              !.kernel = kernel,
                              !.todo = zone \ {machine.at}])
    BY <1>7 DEF sys_usbupgrade
  <2> DEFINE j == [NoJob EXCEPT !.cmd = "usb", !.version = v,
                                !.kernel = kernel,
                                !.todo = zone \ {machine.at}]
  <2>2. zone \in SUBSET Firmwares
    BY Assumed
  <2>3. /\ j \in Job /\ j.stage = "next" /\ j.cmd = "usb"
        /\ j.todo = zone \ {machine.at}
    BY <2>2, NoJobJob DEF Job
  <2>4. Begin(j)
    BY <2>1
  <2> HIDE DEF j
  <2> QED BY <1>3, <2>3, <2>4
<1> QED BY <1>4, <1>5, <1>6, <1>7 DEF Command

-----------------------------------------------------------------------------
(* The steps of a command between its writes: what they mark, and where    *)
(* what is written next comes from.                                        *)

Prepares ==
  /\ UNCHANGED <<disk, dirty, spoilt, machine, commands, faults>>
  /\ benv' \in Os /\ benv'.current = benv.current /\ Worse(benv, benv')
  /\ job' \in Job /\ Guarded'
  /\ job'.stage \in {"rootfs", "kernel"} =>
       benv'.vcs[job'.dst][job'.stage].upgrade = UNKNOW
  /\ job'.cmd = "reset" => job.cmd = "reset" /\ job'.by = job.by
  /\ job'.stage = "rootfs" =>
       \/ job'.source = job'.version
       \/ job'.cmd = "reset" /\ job'.source = disk[job.by]["rootfs"]
       \/ /\ job'.cmd = "super" /\ machine.at = 0
          /\ job'.source = disk[0]["rootfs"]
       \/ /\ job'.cmd = "repair"
          /\ \E f \in Firmwares : /\ is_benv_good_obj(benv, "rootfs", f)
                                  /\ job'.source = disk[f]["rootfs"]
  /\ job'.stage = "rootfs" /\ job'.cmd = "super" => job'.dst = 1
  /\ job'.stage = "file" =>
       job'.cmd = "super" /\ is_benv_good_obj(benv, "rootfs", job'.dst)
  /\ job'.stage = "kernel" =>
       \/ job'.cmd = "usb" /\ job'.source = job'.version
       \/ /\ job.stage = "file" /\ job.cmd # "usb"
          /\ job'.cmd = job.cmd /\ job'.dst = job.dst
          /\ job'.version = job.version
          /\ job'.source = disk[job.dst]["rootfs"]
  /\ job'.stage = "switch" => job'.cmd = "reset"

(* A command that visits no more, or whose visit writes nothing.           *)
LEMMA GoesOn ==
  ASSUME Firm, NEW j \in Job, Begun(j, benv), j.stage = "next",
         \/ j = NoJob
         \/ /\ j.cmd = job.cmd /\ j.cmd # "none" /\ j.by = job.by
            /\ j.todo \in SUBSET job.todo
  PROVE  Prepares
PROOF
<1>1. /\ job' = j /\ benv' = benv
      /\ UNCHANGED <<disk, dirty, spoilt, machine, commands, faults>>
  BY DEF Begun
<1>2. Worse(benv, benv)
  BY DEF Worse
<1>3. Guarded'
  <2>1. CASE j = NoJob
    BY <1>1, <2>1, NoJobJob DEF Guarded
  <2>2. CASE /\ j.cmd = job.cmd /\ j.cmd # "none" /\ j.by = job.by
             /\ j.todo \in SUBSET job.todo
    <3>1. job # NoJob
      BY <2>2, NoJobJob
    <3> QED BY <1>1, <2>2, <3>1 DEF Firm, Guarded
  <2> QED BY <2>1, <2>2
<1>4. j.cmd = "reset" => job.cmd = "reset" /\ j.by = job.by
  BY NoJobJob
<1> QED BY <1>1, <1>2, <1>3, <1>4 DEF Prepares, Firm, TypeInv

LEMMA SuperPrepares ==
  ASSUME Firm, sys_super_startup
  PROVE  Prepares
PROOF
<1> DEFINE best == BestRootfs(benv, {0})
           s == [NoJob EXCEPT !.cmd = "super"]
           os == upgrade_init(benv, 1, "rootfs", benv.vcs[0]["rootfs"].version)
<1>0. "rootfs" \in Objs
  BY DEF Objs
<1>1. /\ machine.state = "up" /\ job = NoJob /\ machine.at = 0
      /\ \/ \E f \in best : Begun([s EXCEPT !.stage = "file", !.dst = f], benv)
         \/ Begun(Rootfs(s, 1, disk[0]["rootfs"]), os)
  BY DEF sys_super_startup, Ready
<1>2. /\ s \in Job /\ s.cmd = "super" /\ s.todo = {}
  BY NoJobJob DEF Job
<1>3. \A f \in best : /\ f \in Firmwares /\ f # 0
                      /\ is_benv_good_obj(benv, "rootfs", f)
  BY Assumed DEF BestRootfs, GoodRootfs
<1> HIDE DEF s, best
<1>4. ASSUME NEW f \in best, Begun([s EXCEPT !.stage = "file", !.dst = f], benv)
      PROVE  Prepares
  <2> DEFINE j == [s EXCEPT !.stage = "file", !.dst = f]
  <2>1. /\ j \in Job /\ j.cmd = "super" /\ j.todo = {}
        /\ j.stage = "file" /\ j.dst = f
    BY <1>2, <1>3 DEF Job
  <2>2. /\ job' = j /\ benv' = benv
        /\ UNCHANGED <<disk, dirty, spoilt, machine, commands, faults>>
    BY <1>4 DEF Begun
  <2> HIDE DEF j
  <2>3. Guarded'
    BY <1>1, <1>3, <2>1, <2>2 DEF Guarded
  <2>4. Worse(benv, benv)
    BY DEF Worse
  <2> QED BY <1>3, <2>1, <2>2, <2>3, <2>4 DEF Prepares, Firm, TypeInv
<1>5. ASSUME Begun(Rootfs(s, 1, disk[0]["rootfs"]), os)
      PROVE  Prepares
  <2> DEFINE j == Rootfs(s, 1, disk[0]["rootfs"])
  <2>1. disk[0]["rootfs"] \in Contents
    BY <1>0, Assumed DEF Firm, TypeInv
  <2>2. /\ j \in Job /\ j.cmd = "super" /\ j.todo = {}
        /\ j.stage = "rootfs" /\ j.dst = 1 /\ j.source = disk[0]["rootfs"]
    BY <1>2, <2>1, Assumed DEF Job, Rootfs
  <2>3. /\ job' = j /\ benv' = os
        /\ UNCHANGED <<disk, dirty, spoilt, machine, commands, faults>>
    BY <1>5 DEF Begun
  <2>4. benv.vcs[0]["rootfs"].version \in Versions
    BY <1>0, VcsFields, Assumed DEF Firm, TypeInv
  <2>5. /\ os \in Os /\ os.current = benv.current
        /\ os.vcs[1]["rootfs"].upgrade = UNKNOW /\ Worse(benv, os)
    BY <1>0, <2>4, UpgradeInit, Assumed DEF Firm, TypeInv
  <2> HIDE DEF j, os
  <2>6. j.dst # machine.at /\ j.dst # 0
    <3>1. machine.at = 0 /\ j.dst = 1
      BY <1>1, <2>2
    <3> QED BY <3>1
  <2>7. /\ job'.cmd = "super" /\ job'.todo = {}
        /\ job'.dst # machine.at /\ job'.dst # 0
        /\ machine' = machine
    BY <2>2, <2>3, <2>6
  <2>8. Guarded'
    BY <1>1, <2>7 DEF Guarded
  <2> QED BY <1>1, <2>2, <2>3, <2>5, <2>8 DEF Prepares
<1> QED BY <1>1, <1>4, <1>5

(* A rootfs is written: the general case.                                  *)
LEMMA RootfsPrepares ==
  ASSUME Firm, machine.state = "up", job.cmd \notin {"none", "super"},
         NEW j \in Job, j.cmd = job.cmd, j.by = job.by,
         j.todo \in SUBSET job.todo,
         NEW f \in Firmwares, f # machine.at, f = 0 => job.cmd = "usb",
         job.cmd = "reset" => f # job.by,
         NEW source \in Contents,
         NEW os \in Os, os.current = benv.current, Worse(benv, os),
         os.vcs[f]["rootfs"].upgrade = UNKNOW,
         Begun(Rootfs(j, f, source), os),
         \/ source = j.version
         \/ j.cmd = "reset" /\ source = disk[job.by]["rootfs"]
         \/ /\ j.cmd = "repair"
            /\ \E g \in Firmwares : /\ is_benv_good_obj(benv, "rootfs", g)
                                    /\ source = disk[g]["rootfs"]
  PROVE  Prepares
PROOF
<1> DEFINE k == Rootfs(j, f, source)
<1>1. /\ k \in Job /\ k.cmd = job.cmd /\ k.by = job.by /\ k.todo = j.todo
      /\ k.stage = "rootfs" /\ k.dst = f /\ k.source = source
      /\ k.version = j.version
  BY DEF Job, Rootfs
<1>2. /\ job' = k /\ benv' = os
      /\ UNCHANGED <<disk, dirty, spoilt, machine, commands, faults>>
  BY DEF Begun
<1> HIDE DEF k
<1>3. machine.at # 0 /\ machine.at \notin job.todo
  BY DEF Firm, Guarded
<1>4. Guarded'
  BY <1>1, <1>2, <1>3 DEF Guarded, Firm
<1> QED BY <1>1, <1>2, <1>4 DEF Prepares

LEMMA UpgradePrepares ==
  ASSUME Firm, Visit, UpgradeNext
  PROVE  Prepares
PROOF
<1>1. /\ machine.state = "up" /\ job.stage = "next" /\ job \in Job
      /\ benv \in Os /\ machine.at \in Firmwares
  BY DEF Visit, Firm, TypeInv, Machine
<1>2. ASSUME NEW j \in Job, NEW f \in Firmwares, sys_upgrade(j, f),
             job.cmd \in {"upgrade", "auto"}, j.cmd = job.cmd,
             j.by = job.by, j.todo \in SUBSET job.todo,
             j.stage = "next", f # machine.at, f # 0
      PROVE  Prepares
  <2>1. CASE Begun(j, benv)
    BY <1>2, <2>1, GoesOn
  <2>2. CASE Begun(Rootfs(j, f, j.version), sys_upgrade_init(benv, f, j.version))
    <3> DEFINE os == sys_upgrade_init(benv, f, j.version)
    <3>1. j.version \in Versions /\ j.version \in Contents
      BY DEF Job, Contents
    <3>2. /\ os \in Os /\ os.current = benv.current /\ Worse(benv, os)
          /\ os.vcs[f]["rootfs"].upgrade = UNKNOW
      BY <1>1, <3>1, SysUpgradeInit DEF Objs
    <3> HIDE DEF os
    <3>3. Begun(Rootfs(j, f, j.version), os)
      BY <2>2 DEF os
    <3> QED BY <1>1, <1>2, <3>1, <3>2, <3>3, RootfsPrepares
  <2> QED BY <1>2, <2>1, <2>2 DEF sys_upgrade
<1>3. CASE job.cmd = "upgrade"
  <2>1. PICK f \in First(job.todo) :
               sys_upgrade([job EXCEPT !.todo = job.todo \ {f}], f)
    BY <1>3 DEF UpgradeNext
  <2> DEFINE j == [job EXCEPT !.todo = job.todo \ {f}]
  <2>2. job.todo \in SUBSET Firmwares
    BY <1>1 DEF Job
  <2>3. f \in job.todo
    BY DEF First
  <2>4. f # machine.at /\ f # 0
    BY <1>3, <2>3 DEF Firm, Guarded
  <2>5. /\ j \in Job /\ j.cmd = job.cmd /\ j.by = job.by /\ j.stage = "next"
        /\ j.todo = job.todo \ {f}
    BY <1>1, <2>2 DEF Job
  <2> HIDE DEF j
  <2>6. sys_upgrade(j, f)
    BY <2>1 DEF j
  <2> QED BY <1>2, <1>3, <2>2, <2>3, <2>4, <2>5, <2>6
<1>4. CASE job.cmd = "auto" /\ job.left > 0
  <2>1. PICK f \in sys_get_upgrade(job.version, job.todo) :
               sys_upgrade([job EXCEPT !.todo = job.todo \ {f},
                                       !.left = job.left - 1], f)
    BY <1>4 DEF UpgradeNext
  <2> DEFINE j == [job EXCEPT !.todo = job.todo \ {f}, !.left = job.left - 1]
  <2>2. job.todo \in SUBSET Firmwares
    BY <1>1 DEF Job
  <2>3. f # machine.at /\ f # 0 /\ f \in Firmwares
    <3>1. job.cmd # "none"
      BY <1>4
    <3>2. machine.at \notin job.todo
      BY <3>1 DEF Firm, Guarded
    <3>3. \/ f \in job.todo /\ f \in Normals
          \/ f \in {1, 2} /\ f # machine.at
      BY <2>2, Upgradable
    <3> QED BY <3>2, <3>3, Assumed
  <2>4. job.left - 1 \in 0 .. MaxUpgrades
    BY <1>1, <1>4, MaxUpgradesAssumption DEF Job
  <2>5. /\ j \in Job /\ j.cmd = job.cmd /\ j.by = job.by /\ j.stage = "next"
        /\ j.todo = job.todo \ {f}
    BY <1>1, <2>2, <2>4 DEF Job
  <2> HIDE DEF j
  <2>6. sys_upgrade(j, f)
    BY <2>1 DEF j
  <2> QED BY <1>2, <1>4, <2>2, <2>3, <2>5, <2>6
<1> QED BY <1>3, <1>4 DEF UpgradeNext

LEMMA RepairPrepares ==
  ASSUME Firm, Visit, RepairNext
  PROVE  Prepares
PROOF
<1>1. /\ machine.state = "up" /\ job.stage = "next" /\ job \in Job
      /\ benv \in Os /\ job.cmd = "repair"
  BY DEF Visit, Firm, TypeInv, RepairNext
<1>2. PICK f \in First(job.todo) :
             sys_repair_rootfs([job EXCEPT !.todo = job.todo \ {f}], f)
  BY DEF RepairNext
<1> DEFINE j == [job EXCEPT !.todo = job.todo \ {f}]
           v == benv.vcs[f]["rootfs"].version
           buddy == benv_find_first_good_byversion(benv, v, __skips(f))
           sources == IF buddy # {} THEN {disk[b]["rootfs"] : b \in buddy}
                      ELSE {v}
<1>3. f \in job.todo /\ job.todo \in SUBSET Firmwares
  BY <1>1 DEF First, Job
<1>4. f \in Firmwares /\ f # machine.at /\ f # 0
  BY <1>1, <1>3 DEF Firm, Guarded
<1>5. /\ j \in Job /\ j.cmd = job.cmd /\ j.by = job.by /\ j.stage = "next"
      /\ j.todo = job.todo \ {f}
  BY <1>1, <1>3 DEF Job
<1>6. \/ Begun(j, benv)
      \/ \E source \in sources :
           Begun(Rootfs([j EXCEPT !.version = v], f, source),
                 sys_upgrade_init(benv, f, v))
  BY <1>2 DEF sys_repair_rootfs
<1>7. buddy \in SUBSET GoodRootfs(benv, __skips(f))
  BY DEF benv_find_first_good_byversion, First
<1>8. \A b \in buddy : b \in Firmwares /\ is_benv_good_obj(benv, "rootfs", b)
  BY <1>7, Assumed DEF GoodRootfs
<1>9. v \in Versions /\ v \in Contents
  BY <1>1, <1>4, VcsFields DEF Objs, Contents
<1> HIDE DEF j, v, buddy
<1>10. CASE Begun(j, benv)
  BY <1>1, <1>5, <1>10, GoesOn
<1>11. CASE \E source \in sources :
              Begun(Rootfs([j EXCEPT !.version = v], f, source),
                    sys_upgrade_init(benv, f, v))
  <2>1. PICK source \in sources :
               Begun(Rootfs([j EXCEPT !.version = v], f, source),
                     sys_upgrade_init(benv, f, v))
    BY <1>11
  <2> DEFINE k == [j EXCEPT !.version = v]
             os == sys_upgrade_init(benv, f, v)
  <2>2. /\ k \in Job /\ k.cmd = job.cmd /\ k.by = job.by
        /\ k.todo = job.todo \ {f} /\ k.version = v
    BY <1>5, <1>9 DEF Job
  <2>3. /\ os \in Os /\ os.current = benv.current /\ Worse(benv, os)
        /\ os.vcs[f]["rootfs"].upgrade = UNKNOW
    BY <1>1, <1>4, <1>9, SysUpgradeInit DEF Objs
  <2>4. \/ source = v
        \/ \E g \in Firmwares : /\ is_benv_good_obj(benv, "rootfs", g)
                                /\ source = disk[g]["rootfs"]
    BY <1>8
  <2>5. source \in Contents
    BY <1>9, <2>4 DEF Firm, TypeInv, Objs
  <2>6. Begun(Rootfs(k, f, source), os)
    BY <2>1
  <2> HIDE DEF k, os
  <2> QED BY <1>1, <1>4, <2>2, <2>3, <2>4, <2>5, <2>6, RootfsPrepares
<1> QED BY <1>6, <1>10, <1>11

LEMMA ResetPrepares ==
  ASSUME Firm, Visit, ResetNext
  PROVE  Prepares
PROOF
<1> DEFINE v == benv.vcs[job.by]["rootfs"].version
<1>1. /\ machine.state = "up" /\ job.stage = "next" /\ job \in Job
      /\ benv \in Os /\ job.cmd = "reset" /\ job.by \in Firmwares
      /\ machine.at \in Firmwares
  BY DEF Visit, Firm, TypeInv, ResetNext, Job, Machine
<1>2. v \in Versions
  BY <1>1, VcsFields DEF Objs
<1>3. \/ \E f \in First(job.todo) :
           Begun(Rootfs([job EXCEPT !.todo = job.todo \ {f}], f,
                        disk[job.by]["rootfs"]),
                 upgrade_init(benv, f, "rootfs", v))
      \/ Begun([job EXCEPT !.stage = "switch", !.dst = job.first],
               sys_upgrade_init(benv, machine.at, v))
  BY DEF ResetNext
<1>4. job.todo \in SUBSET Firmwares
  BY <1>1 DEF Job
<1> HIDE DEF v
<1>5. ASSUME NEW f \in First(job.todo),
             Begun(Rootfs([job EXCEPT !.todo = job.todo \ {f}], f,
                          disk[job.by]["rootfs"]),
                   upgrade_init(benv, f, "rootfs", v))
      PROVE  Prepares
  <2> DEFINE j == [job EXCEPT !.todo = job.todo \ {f}]
             os == upgrade_init(benv, f, "rootfs", v)
             source == disk[job.by]["rootfs"]
  <2>1. f \in job.todo
    BY <1>5 DEF First
  <2>2. f \in Firmwares /\ f # machine.at /\ f # 0 /\ f # job.by
    BY <1>1, <1>4, <2>1 DEF Firm, Guarded
  <2>3. /\ j \in Job /\ j.cmd = job.cmd /\ j.by = job.by
        /\ j.todo = job.todo \ {f}
    BY <1>1, <1>4 DEF Job
  <2>4. /\ os \in Os /\ os.current = benv.current /\ Worse(benv, os)
        /\ os.vcs[f]["rootfs"].upgrade = UNKNOW
    BY <1>1, <1>2, <2>2, UpgradeInit DEF Objs
  <2>5. source \in Contents
    BY <1>1 DEF Firm, TypeInv, Objs
  <2>6. Begun(Rootfs(j, f, source), os)
    BY <1>5
  <2>7. source = disk[job.by]["rootfs"]
    OBVIOUS
  <2> HIDE DEF j, os, source
  <2> QED BY <1>1, <2>2, <2>3, <2>4, <2>5, <2>6, <2>7, RootfsPrepares
<1>6. ASSUME Begun([job EXCEPT !.stage = "switch", !.dst = job.first],
                   sys_upgrade_init(benv, machine.at, v))
      PROVE  Prepares
  <2> DEFINE j == [job EXCEPT !.stage = "switch", !.dst = job.first]
             os == sys_upgrade_init(benv, machine.at, v)
  <2>1. /\ j \in Job /\ j.cmd = job.cmd /\ j.by = job.by
        /\ j.todo = job.todo /\ j.stage = "switch"
    BY <1>1 DEF Job
  <2>2. os \in Os /\ os.current = benv.current /\ Worse(benv, os)
    BY <1>1, <1>2, SysUpgradeInit
  <2>3. /\ job' = j /\ benv' = os
        /\ UNCHANGED <<disk, dirty, spoilt, machine, commands, faults>>
    BY <1>6 DEF Begun
  <2> HIDE DEF j, os
  <2>4. Guarded'
    BY <1>1, <2>1, <2>3 DEF Firm, Guarded
  <2> QED BY <1>1, <2>1, <2>2, <2>3, <2>4 DEF Prepares
<1> QED BY <1>3, <1>5, <1>6

LEMMA UsbPrepares ==
  ASSUME Firm, Visit, UsbNext
  PROVE  Prepares
PROOF
<1>1. /\ machine.state = "up" /\ job.stage = "next" /\ job \in Job
      /\ benv \in Os /\ job.cmd = "usb" /\ job.version \in Versions
  BY DEF Visit, Firm, TypeInv, UsbNext, Job
<1> DEFINE obj == IF job.kernel THEN "kernel" ELSE "rootfs"
<1>2. obj \in Objs /\ obj \in {"kernel", "rootfs"}
  BY DEF Objs
<1> HIDE DEF obj
<1>3. PICK f \in First(job.todo) :
        Begun([job EXCEPT !.todo = job.todo \ {f}, !.stage = obj, !.dst = f,
                          !.source = job.version],
              upgrade_init(benv, f, obj, job.version))
  BY DEF UsbNext, obj
<1> DEFINE j == [job EXCEPT !.todo = job.todo \ {f}, !.stage = obj, !.dst = f,
                            !.source = job.version]
           os == upgrade_init(benv, f, obj, job.version)
<1>4. f \in job.todo /\ job.todo \in SUBSET Firmwares
  BY <1>1 DEF First, Job
<1>5. f \in Firmwares /\ f # machine.at
  BY <1>1, <1>4 DEF Firm, Guarded
<1>6. job.version \in Contents
  BY <1>1 DEF Contents
<1>7. /\ j \in Job /\ j.cmd = "usb" /\ j.todo = job.todo \ {f}
      /\ j.stage = obj /\ j.dst = f /\ j.source = job.version
      /\ j.version = job.version
  BY <1>1, <1>2, <1>4, <1>5, <1>6 DEF Job
<1>8. /\ os \in Os /\ os.current = benv.current /\ Worse(benv, os)
      /\ os.vcs[f][obj].upgrade = UNKNOW
  BY <1>1, <1>2, <1>5, UpgradeInit
<1>9. /\ job' = j /\ benv' = os
      /\ UNCHANGED <<disk, dirty, spoilt, machine, commands, faults>>
  BY <1>3 DEF Begun
<1> HIDE DEF j, os
<1>10. Guarded'
  BY <1>1, <1>2, <1>5, <1>7, <1>9 DEF Firm, Guarded
<1> QED BY <1>2, <1>7, <1>8, <1>9, <1>10 DEF Prepares

LEMMA VisitPrepares ==
  ASSUME Firm, Visit
  PROVE  Prepares
PROOF
<1>1. CASE Done
  <2>1. Begun(NoJob, benv)
    BY <1>1 DEF Done
  <2> QED BY <2>1, GoesOn, NoJobJob
<1> QED
  BY <1>1, UpgradePrepares, RepairPrepares, ResetPrepares, UsbPrepares
  DEF Visit

LEMMA KernelPrepares ==
  ASSUME Firm, sys_repair_kernel
  PROVE  Prepares
PROOF
<1> DEFINE j == [job EXCEPT !.stage = "kernel",
                            !.source = disk[job.dst]["rootfs"]]
           os == upgrade_init(benv, job.dst, "kernel", KernelVersion)
<1>1. /\ machine.state = "up" /\ job.stage = "file" /\ job.cmd # "usb"
      /\ job \in Job /\ benv \in Os /\ job.dst \in Firmwares
      /\ job.version \in Versions
  BY DEF sys_repair_kernel, Firm, TypeInv, Job
<1>2. "kernel" \in Objs /\ "rootfs" \in Objs
  BY DEF Objs
<1>3. \A obj \in Objs : benv.vcs[job.dst][obj].version \in Versions
  BY <1>1, VcsFields
<1>4. KernelVersion \in Versions
  <2>1. CASE job.cmd = "super"
    BY <1>2, <1>3, <2>1 DEF KernelVersion
  <2>2. CASE job.cmd = "reset"
    BY <1>2, <1>3, <2>2 DEF KernelVersion
  <2>3. CASE job.cmd \notin {"super", "reset"}
    BY <1>1, <2>3 DEF KernelVersion
  <2> QED BY <2>1, <2>2, <2>3
<1>5. disk[job.dst]["rootfs"] \in Contents
  BY <1>1, <1>2 DEF Firm, TypeInv
<1>6. /\ j \in Job /\ j.cmd = job.cmd /\ j.by = job.by /\ j.dst = job.dst
      /\ j.todo = job.todo /\ j.stage = "kernel" /\ j.version = job.version
      /\ j.source = disk[job.dst]["rootfs"]
  BY <1>1, <1>5 DEF Job
<1>7. /\ os \in Os /\ os.current = benv.current /\ Worse(benv, os)
      /\ os.vcs[job.dst]["kernel"].upgrade = UNKNOW
  BY <1>1, <1>2, <1>4, UpgradeInit
<1>8. /\ job' = j /\ benv' = os
      /\ UNCHANGED <<disk, dirty, spoilt, machine, commands, faults>>
  BY DEF sys_repair_kernel, Begun
<1> HIDE DEF j, os
<1>9. job.cmd # "none"
  BY <1>1, NoJobJob DEF Firm, Guarded
<1>10. Guarded'
  BY <1>1, <1>6, <1>8, <1>9 DEF Firm, Guarded
<1> QED BY <1>1, <1>6, <1>7, <1>8, <1>10 DEF Prepares

LEMMA UsbRootfsPrepares ==
  ASSUME Firm, UsbRootfs
  PROVE  Prepares
PROOF
<1> DEFINE os == upgrade_init(benv, job.dst, "rootfs", job.version)
<1>1. /\ machine.state = "up" /\ job.stage = "file" /\ job.cmd = "usb"
      /\ job \in Job /\ benv \in Os /\ job.dst \in Firmwares
      /\ job.version \in Versions
  BY DEF UsbRootfs, Firm, TypeInv, Job
<1>2. job.version \in Contents /\ job.dst # machine.at
  BY <1>1 DEF Contents, Firm, Guarded
<1>3. /\ os \in Os /\ os.current = benv.current /\ Worse(benv, os)
      /\ os.vcs[job.dst]["rootfs"].upgrade = UNKNOW
  BY <1>1, UpgradeInit DEF Objs
<1>4. Begun(Rootfs(job, job.dst, job.version), os)
  BY DEF UsbRootfs
<1> HIDE DEF os
<1> QED BY <1>1, <1>2, <1>3, <1>4, RootfsPrepares

(* Every step between two writes.                                          *)
Preparation ==
  \/ sys_super_startup
  \/ Visit
  \/ sys_repair_kernel
  \/ UsbRootfs

LEMMA PreparationPrepares == Firm /\ Preparation => Prepares
PROOF
  BY SuperPrepares, VisitPrepares, KernelPrepares, UsbRootfsPrepares
  DEF Preparation

-----------------------------------------------------------------------------
(* Writes.                                                                 *)

(* What becomes of the command when a write has ended: nothing, or it goes *)
(* to another stage.                                                       *)
LEMMA AfterStage ==
  ASSUME Firm, Writing, NEW err \in BOOLEAN
  PROVE  /\ After(err) \in Job
         /\ \/ After(err) = NoJob
            \/ \E stage \in {"next", "file", "switch"} :
                 /\ After(err) = [job EXCEPT !.stage = stage]
                 /\ stage = "file" =>
                      \/ job.cmd = "usb"
                      \/ job.stage = "rootfs" /\ (~ err \/ job.cmd = "super")
                 /\ stage = "switch" =>
                      /\ job.stage = "kernel"
                      /\ \/ job.cmd = "super"
                         \/ job.cmd \in {"upgrade", "auto"} /\ ~ err
PROOF
<1>1. job \in Job /\ job.stage \in {"rootfs", "kernel"}
  BY DEF Firm, TypeInv, Writing
<1>2. job.cmd # "none"
  BY <1>1, NoJobJob DEF Firm, Guarded
<1>3. \A stage \in {"next", "file", "switch"} : To(stage) \in Job
  BY <1>1 DEF To, Job
<1>4. CASE job.cmd \in {"upgrade", "auto"}
  BY <1>1, <1>3, <1>4, NoJobJob DEF After, To
<1>5. CASE job.cmd = "super"
  BY <1>1, <1>3, <1>5 DEF After, To
<1>6. CASE job.cmd \in {"repair", "reset"}
  BY <1>1, <1>3, <1>6 DEF After, To
<1>7. CASE job.cmd = "usb"
  BY <1>1, <1>3, <1>7, NoJobJob DEF After, To
<1> QED BY <1>1, <1>2, <1>4, <1>5, <1>6, <1>7 DEF Job

LEMMA AfterGuarded ==
  ASSUME Firm, Writing, NEW err \in BOOLEAN, job' = After(err),
         UNCHANGED machine
  PROVE  job' \in Job /\ Guarded'
PROOF
<1>1. job' \in Job
  BY AfterStage
<1>2. CASE job' = NoJob
  BY <1>1, <1>2, NoJobJob DEF Guarded
<1>3. ASSUME NEW stage \in {"next", "file", "switch"},
             job' = [job EXCEPT !.stage = stage]
      PROVE  Guarded'
  <2>1. job \in Job /\ job # NoJob /\ job.cmd # "none"
    BY NoJobJob DEF Firm, TypeInv, Writing, Guarded
  <2>2. /\ job'.cmd = job.cmd /\ job'.by = job.by /\ job'.dst = job.dst
        /\ job'.todo = job.todo /\ machine' = machine
    BY <1>3, <2>1 DEF Job
  <2>3. job.stage \in {"rootfs", "kernel", "file"}
    BY DEF Writing
  <2> QED BY <2>1, <2>2, <2>3 DEF Firm, Guarded
<1> QED BY <1>1, <1>2, <1>3, AfterStage

LEMMA FaultCounts ==
  ASSUME Firm, Fault
  PROVE  faults' \in 0 .. MaxFaults /\ commands' \in 0 .. MaxCommands
PROOF
  BY MaxFaultsAssumption DEF Fault, Firm, TypeInv

LEMMA WriteFirm ==
  ASSUME Firm, WriteOk \/ WriteFails \/ InitFails
  PROVE  Firm'
PROOF
<1>1. Writing
  BY DEF WriteOk, WriteFails, InitFails, Writing
<1>2. /\ job.dst \in Firmwares /\ job.stage \in Objs /\ job.source \in Contents
      /\ disk[job.dst][job.stage] \in Contents
  BY <1>1 DEF Firm, TypeInv, Job, Writing, Objs
<1>3. ASSUME NEW x \in Contents
      PROVE  [disk EXCEPT ![job.dst][job.stage] = x]
               \in [Firmwares -> [Objs -> Contents]]
  BY <1>2, <1>3 DEF Firm, TypeInv
<1>4. ASSUME NEW err \in BOOLEAN
      PROVE  Written(benv, job.dst, job.stage, err) \in Os
  BY <1>2, WrittenOs DEF Firm, TypeInv
<1>4a. Target \in SUBSET Parts
  BY <1>2 DEF Target, Parts
<1>5. CASE WriteOk
  <2>1. /\ disk' = [disk EXCEPT ![job.dst][job.stage] = job.source]
        /\ benv' = Written(benv, job.dst, job.stage, FALSE)
        /\ job' = After(FALSE)
        /\ UNCHANGED <<machine, commands, faults>>
    BY <1>5 DEF WriteOk
  <2>2. job' \in Job /\ Guarded'
    BY <1>1, <2>1, AfterGuarded
  <2>3. dirty' \subseteq Parts /\ spoilt' \subseteq Parts
    BY <1>4a, <1>5 DEF WriteOk, Firm, TypeInv
  <2> QED BY <1>2, <1>3, <1>4, <2>1, <2>2, <2>3 DEF Firm, TypeInv
<1>6. CASE WriteFails
  <2>1. PICK x \in {disk[job.dst][job.stage], Torn} :
               disk' = [disk EXCEPT ![job.dst][job.stage] = x]
    BY <1>6 DEF WriteFails
  <2>2. /\ benv' = Written(benv, job.dst, job.stage, TRUE)
        /\ job' = After(TRUE) /\ Fault /\ UNCHANGED machine
    BY <1>6 DEF WriteFails
  <2>3. job' \in Job /\ Guarded'
    BY <1>1, <2>2, AfterGuarded
  <2>4. x \in Contents
    BY <1>2 DEF Contents
  <2>5. disk' \in [Firmwares -> [Objs -> Contents]] /\ benv' \in Os
    BY <1>3, <1>4, <2>1, <2>2, <2>4
  <2>6. dirty' \subseteq Parts /\ spoilt' \subseteq Parts
    BY <1>6 DEF WriteFails, Firm, TypeInv
  <2> QED BY <2>2, <2>3, <2>5, <2>6, FaultCounts DEF Firm, TypeInv
<1>7. CASE InitFails
  <2>1. /\ job' = After(TRUE) /\ Fault
        /\ UNCHANGED <<benv, disk, dirty, spoilt, machine>>
    BY <1>7 DEF InitFails
  <2>2. job' \in Job /\ Guarded'
    BY <1>1, <2>1, AfterGuarded
  <2> QED BY <2>1, <2>2, FaultCounts DEF Firm, TypeInv
<1> QED BY <1>5, <1>6, <1>7

LEMMA SwitchFirm ==
  ASSUME Firm, Switch
  PROVE  Firm'
PROOF
<1>1. /\ machine.state = "up" /\ job.stage = "switch" /\ job \in Job
      /\ benv' = sys_switch_to(benv, job.dst) /\ job.dst \in Firmwares
      /\ UNCHANGED <<disk, spoilt, commands, faults>>
      /\ dirty' \subseteq Parts
  BY DEF Switch, Firm, TypeInv, Job
<1>2. benv' \in Os
  BY <1>1, SwitchTo DEF Firm, TypeInv
<1>3. job.cmd # "none"
  BY <1>1, NoJobJob DEF Firm, Guarded
<1>4. CASE job.cmd \in {"super", "reset"}
  <2>1. machine' = Off /\ job' = NoJob
    BY <1>4 DEF Switch
  <2>2. machine' \in Machine
    BY <2>1, Assumed DEF Off, Machine
  <2>3. Guarded'
    BY <2>1, NoJobJob DEF Guarded
  <2> QED BY <1>1, <1>2, <2>1, <2>2, <2>3, NoJobJob DEF Firm, TypeInv
<1>5. CASE job.cmd \notin {"super", "reset"}
  <2>1. job' = [job EXCEPT !.stage = "next"] /\ UNCHANGED machine
    BY <1>5 DEF Switch, To
  <2>2. /\ job' \in Job /\ job'.stage = "next" /\ job'.cmd = job.cmd
        /\ job'.todo = job.todo /\ job'.by = job.by
    BY <1>1, <2>1 DEF Job
  <2>3. Guarded'
    BY <1>1, <1>3, <1>5, <2>1, <2>2 DEF Firm, Guarded
  <2> QED BY <1>1, <1>2, <2>1, <2>2, <2>3 DEF Firm, TypeInv
<1> QED BY <1>4, <1>5

(* What the cache loses is torn, all else as it was.                       *)
LEMMA LeftDisk ==
  ASSUME Firm, NEW lost \in SUBSET dirty
  PROVE  /\ Left(lost) \in [Firmwares -> [Objs -> Contents]]
         /\ \A f \in Firmwares, obj \in Objs :
              Left(lost)[f][obj] = IF <<f, obj>> \in lost THEN Torn
                                   ELSE disk[f][obj]
PROOF
<1>1. \A f \in Firmwares, obj \in Objs : disk[f][obj] \in Contents
  BY DEF Firm, TypeInv
<1> QED BY <1>1 DEF Left, Contents

(* The device: nothing but a job that runs keeps it from going down.       *)
Device ==
  \/ Boot
  \/ Watchdog
  \/ sys_normal_startup
  \/ sys_fail_startup
  \/ Reboot
  \/ PowerCut

LEMMA DeviceFirm ==
  ASSUME Firm, Device
  PROVE  Firm' /\ job' = NoJob
PROOF
<1>0. ASSUME job' = NoJob PROVE job' \in Job /\ Guarded'
  BY <1>0, NoJobJob DEF Guarded
<1>1. CASE Boot
  <2>1. PICK f \in benv_select(benv) :
          /\ benv' = Counted(benv, f)
          /\ machine' = [state |-> IF Intact(f) THEN "up" ELSE "dead",
                         at |-> f, report |-> "none"]
    BY <1>1 DEF Boot
  <2>2. f \in Firmwares
    BY Selected DEF Firm, TypeInv
  <2>3. benv' \in Os
    BY <2>1, <2>2, CountedOs DEF Firm, TypeInv
  <2>4. machine' \in Machine
    BY <2>1, <2>2 DEF Machine
  <2>5. job = NoJob /\ UNCHANGED <<disk, dirty, spoilt, job, commands, faults>>
    BY <1>1 DEF Boot, Firm, Guarded
  <2> QED BY <1>0, <2>3, <2>4, <2>5 DEF Firm, TypeInv
<1>2. Off \in Machine
  BY Assumed DEF Off, Machine
<1>3. CASE Watchdog
  BY <1>0, <1>2, <1>3 DEF Watchdog, Firm, TypeInv, Guarded
<1>4. CASE Reboot
  BY <1>0, <1>2, <1>4 DEF Reboot, Firm, TypeInv
<1>5. CASE sys_normal_startup
  <2>1. /\ machine \in Machine /\ machine.at \in Firmwares
        /\ job = NoJob
        /\ benv' = normal_startup(benv, machine.at)
        /\ machine' = [machine EXCEPT !.report = "ok"]
        /\ UNCHANGED <<disk, dirty, spoilt, job, commands, faults>>
    BY <1>5 DEF sys_normal_startup, Commanded, Ready, Firm, TypeInv, Machine
  <2>2. benv' \in Os
    BY <2>1, NormalStartup DEF Firm, TypeInv
  <2>3. machine' \in Machine
    BY <2>1 DEF Machine
  <2> QED BY <1>0, <2>1, <2>2, <2>3 DEF Firm, TypeInv
<1>6. CASE sys_fail_startup
  <2>1. /\ machine \in Machine /\ machine.at \in Firmwares
        /\ job = NoJob /\ Fault
        /\ benv' = fail_startup(benv, machine.at)
        /\ machine' = [machine EXCEPT !.report = "fail"]
        /\ UNCHANGED <<disk, dirty, spoilt, job>>
    BY <1>6 DEF sys_fail_startup, Commanded, Ready, Firm, TypeInv, Machine
  <2>2. benv' \in Os
    BY <2>1, FailStartup DEF Firm, TypeInv
  <2>3. machine' \in Machine
    BY <2>1 DEF Machine
  <2> QED BY <1>0, <2>1, <2>2, <2>3, FaultCounts DEF Firm, TypeInv
<1>7. CASE PowerCut
  <2>1. /\ machine' = Off /\ job' = NoJob /\ Fault /\ UNCHANGED benv
        /\ dirty' = {}
    BY <1>7 DEF PowerCut
  <2>2. PICK lost \in SUBSET dirty :
          /\ IF Writing
               THEN \E x \in {Left(lost)[job.dst][job.stage], Torn, job.source} :
                      disk' = [Left(lost) EXCEPT ![job.dst][job.stage] = x]
               ELSE disk' = Left(lost)
          /\ spoilt' = (spoilt \cup lost) \ Target
    BY <1>7 DEF PowerCut
  <2>3. Left(lost) \in [Firmwares -> [Objs -> Contents]]
    BY LeftDisk
  <2>4. disk' \in [Firmwares -> [Objs -> Contents]]
    <3> DEFINE left == Left(lost)
    <3>1. CASE Writing
      <4>1. PICK x \in {left[job.dst][job.stage], Torn, job.source} :
                   disk' = [left EXCEPT ![job.dst][job.stage] = x]
        BY <2>2, <3>1
      <4>2. left \in [Firmwares -> [Objs -> Contents]]
        BY <2>3
      <4> HIDE DEF left
      <4>3. /\ job.dst \in Firmwares /\ job.stage \in Objs
            /\ x \in Contents
        BY <3>1, <4>2 DEF Firm, TypeInv, Job, Writing, Objs, Contents
      <4> QED BY <4>1, <4>2, <4>3
    <3>2. CASE ~ Writing
      BY <2>2, <2>3, <3>2
    <3> QED BY <3>1, <3>2
  <2>5. spoilt' \subseteq Parts
    BY <2>2 DEF Firm, TypeInv
  <2> QED BY <1>0, <1>2, <2>1, <2>4, <2>5, FaultCounts DEF Firm, TypeInv
<1> QED BY <1>1, <1>3, <1>4, <1>5, <1>6, <1>7 DEF Device

LEMMA PreparesFirm ==
  ASSUME Firm, Prepares
  PROVE  Firm'
PROOF
  BY DEF Firm, TypeInv, Prepares

(* The parts of Next, as they are treated here.                            *)
Step ==
  \/ Command
  \/ Preparation
  \/ WriteOk \/ WriteFails \/ InitFails
  \/ Switch
  \/ Device
  \/ UNCHANGED vars

LEMMA NextStep == [Next]_vars => Step
PROOF
  BY DEF Next, Proceed, Step, Preparation, Device

LEMMA FirmNext == Firm /\ [Next]_vars => Firm'
PROOF
<1> SUFFICES ASSUME Firm, Step PROVE Firm'
  BY NextStep
<1>1. Command => Commanded
  BY DEF Command, sys_cmd_upgrade, sys_cmd_repair, sys_cmd_reset, sys_usbupgrade
<1>2. CASE UNCHANGED vars
  BY <1>2 DEF vars, Firm, TypeInv, Guarded
<1> QED
  BY <1>1, <1>2, BeginFirm, PreparationPrepares, PreparesFirm, WriteFirm,
     SwitchFirm, DeviceFirm
  DEF Step

LEMMA SpecFirm == Spec => []Firm
PROOF
  BY InitFirm, FirmNext, PTL DEF Spec

(* Every state is typed, for any number of firmwares, versions and tries:  *)
(* the error counts do not pass what makes an object bad.                  *)
THEOREM SpecTypeOK == Spec => []TypeOK
PROOF
<1>1. Firm => TypeOK
  BY DEF Firm, TypeInv, TypeOK
<1> QED BY <1>1, SpecFirm, PTL

(* No command of sys ever writes the firmware it runs on, and none but the *)
(* usb upgrade writes firmware 0.                                          *)
THEOREM SpecRunningUntouched == Spec => []RunningUntouched
PROOF
<1>1. Firm => RunningUntouched
  BY DEF Firm, Guarded, RunningUntouched, Writing
<1> QED BY <1>1, SpecFirm, PTL

-----------------------------------------------------------------------------
(* What an upgrade has on disk at each of its stages.                      *)

Complete ==
  job.cmd \in {"upgrade", "auto"} =>
    /\ job.stage = "rootfs" => job.source = job.version
    /\ job.stage \in {"file", "kernel", "switch"} =>
         disk[job.dst]["rootfs"] = job.version
    /\ job.stage = "kernel" => job.source = job.version
    /\ job.stage = "switch" => disk[job.dst]["kernel"] = job.version

LEMMA WriteOkDisk ==
  ASSUME Firm, WriteOk
  PROVE  /\ disk'[job.dst][job.stage] = job.source
         /\ \A f \in Firmwares, obj \in Objs :
              f # job.dst \/ obj # job.stage => disk'[f][obj] = disk[f][obj]
PROOF
<1>1. /\ job.dst \in Firmwares /\ job.stage \in Objs
      /\ disk' = [disk EXCEPT ![job.dst][job.stage] = job.source]
  BY DEF WriteOk, Writing, Firm, TypeInv, Job, Objs
<1> QED BY <1>1 DEF Firm, TypeInv

LEMMA PreparesComplete ==
  ASSUME Firm, Complete, Prepares
  PROVE  Complete'
PROOF
<1>1. disk' = disk
  BY DEF Prepares
<1> SUFFICES ASSUME job'.cmd \in {"upgrade", "auto"}
             PROVE  /\ job'.stage = "rootfs" => job'.source = job'.version
                    /\ job'.stage \in {"file", "kernel", "switch"} =>
                         disk[job'.dst]["rootfs"] = job'.version
                    /\ job'.stage = "kernel" => job'.source = job'.version
                    /\ job'.stage = "switch" =>
                         disk[job'.dst]["kernel"] = job'.version
  BY <1>1 DEF Complete
<1>2. job'.cmd # "usb" /\ job'.cmd # "reset" /\ job'.cmd # "super"
      /\ job'.cmd # "repair"
  OBVIOUS
<1>3. job'.stage # "file" /\ job'.stage # "switch"
  BY <1>2 DEF Prepares
<1>4. job'.stage = "rootfs" => job'.source = job'.version
  BY <1>2 DEF Prepares
<1>5. ASSUME job'.stage = "kernel"
      PROVE  /\ disk[job'.dst]["rootfs"] = job'.version
             /\ job'.source = job'.version
  <2>1. /\ job.stage = "file" /\ job'.cmd = job.cmd /\ job'.dst = job.dst
        /\ job'.version = job.version
        /\ job'.source = disk[job.dst]["rootfs"]
    BY <1>2, <1>5 DEF Prepares
  <2> QED BY <2>1 DEF Complete
<1> QED BY <1>3, <1>4, <1>5

LEMMA WriteComplete ==
  ASSUME Firm, Complete, WriteOk \/ WriteFails \/ InitFails
  PROVE  Complete'
PROOF
<1>1. Writing /\ job \in Job
  BY DEF WriteOk, WriteFails, InitFails, Writing, Firm, TypeInv
<1>2. CASE WriteOk
  <2>1. job' = After(FALSE)
    BY <1>2 DEF WriteOk
  <2>2. CASE job' = NoJob
    BY <2>2, NoJobJob DEF Complete
  <2>3. ASSUME NEW stage \in {"next", "file", "switch"},
               job' = [job EXCEPT !.stage = stage],
               job.cmd \in {"upgrade", "auto"},
               stage = "file" => job.stage = "rootfs",
               stage = "switch" => job.stage = "kernel"
        PROVE  Complete'
    <3>1. /\ job'.stage = stage /\ job'.cmd = job.cmd /\ job'.dst = job.dst
          /\ job'.version = job.version /\ job.dst \in Firmwares
      BY <1>1, <2>3 DEF Job
    <3>2. disk'[job.dst][job.stage] = job.source /\ job.source = job.version
      BY <1>1, <1>2, <2>3, WriteOkDisk DEF Complete, Writing
    <3>3. CASE stage = "next"
      BY <3>1, <3>3 DEF Complete
    <3>4. CASE stage = "file"
      BY <2>3, <3>1, <3>2, <3>4 DEF Complete
    <3>5. CASE stage = "switch"
      <4>1. disk[job.dst]["rootfs"] = job.version
        BY <2>3, <3>5 DEF Complete
      <4>2. disk'[job.dst]["rootfs"] = disk[job.dst]["rootfs"]
        BY <1>2, <2>3, <3>1, <3>5, WriteOkDisk DEF Objs
      <4> QED BY <2>3, <3>1, <3>2, <3>5, <4>1, <4>2 DEF Complete
    <3> QED BY <3>3, <3>4, <3>5
  <2>4. CASE job'.cmd \notin {"upgrade", "auto"}
    BY <2>4 DEF Complete
  <2>5. ASSUME job'.cmd \in {"upgrade", "auto"}, job' # NoJob
        PROVE  Complete'
    <3>1. PICK stage \in {"next", "file", "switch"} :
            /\ job' = [job EXCEPT !.stage = stage]
            /\ stage = "file" =>
                 \/ job.cmd = "usb"
                 \/ job.stage = "rootfs"
            /\ stage = "switch" => job.stage = "kernel"
      BY <1>1, <2>1, <2>5, AfterStage
    <3>2. job.cmd = job'.cmd
      BY <1>1, <3>1 DEF Job
    <3>3. job.cmd # "usb"
      BY <2>5, <3>2
    <3> QED BY <2>3, <2>5, <3>1, <3>2, <3>3
  <2> QED BY <2>2, <2>4, <2>5
<1>3. CASE WriteFails \/ InitFails
  <2>1. job' = After(TRUE)
    BY <1>3 DEF WriteFails, InitFails
  <2>2. CASE job' = NoJob
    BY <2>2, NoJobJob DEF Complete
  <2>3. ASSUME job' # NoJob
        PROVE  Complete'
    <3>1. PICK stage \in {"next", "file", "switch"} :
            /\ job' = [job EXCEPT !.stage = stage]
            /\ stage = "file" => job.cmd = "usb" \/ job.cmd = "super"
            /\ stage = "switch" => job.cmd = "super"
      BY <1>1, <2>1, <2>3, AfterStage
    <3>2. job'.stage = stage /\ job'.cmd = job.cmd
      BY <1>1, <3>1 DEF Job
    <3>3. job'.cmd \in {"upgrade", "auto"} => job'.stage = "next"
      BY <3>1, <3>2
    <3> QED BY <3>3 DEF Complete
  <2> QED BY <2>2, <2>3
<1> QED BY <1>2, <1>3

LEMMA CompleteNext == Firm /\ Complete /\ [Next]_vars => Complete'
PROOF
<1> SUFFICES ASSUME Firm, Complete, Step PROVE Complete'
  BY NextStep
<1>1. Command => Commanded
  BY DEF Command, sys_cmd_upgrade, sys_cmd_repair, sys_cmd_reset, sys_usbupgrade
<1>2. CASE Command
  BY <1>1, <1>2, BeginFirm DEF Complete
<1>3. CASE Preparation
  BY <1>3, PreparationPrepares, PreparesComplete
<1>4. CASE WriteOk \/ WriteFails \/ InitFails
  BY <1>4, WriteComplete
<1>5. CASE Switch
  <2>1. job \in Job
    BY DEF Firm, TypeInv
  <2>2. job' = NoJob \/ job' = [job EXCEPT !.stage = "next"]
    BY <1>5 DEF Switch, To
  <2>3. job'.stage = "next"
    BY <2>1, <2>2, NoJobJob DEF Job
  <2> QED BY <2>3 DEF Complete
<1>6. CASE Device
  <2>1. job'.stage = "next"
    BY <1>6, DeviceFirm, NoJobJob
  <2> QED BY <2>1 DEF Complete
<1>7. CASE UNCHANGED vars
  BY <1>7 DEF vars, Complete
<1> QED BY <1>2, <1>3, <1>4, <1>5, <1>6, <1>7 DEF Step

LEMMA SpecComplete == Spec => [](Firm /\ Complete)
PROOF
<1>1. Init => Complete
  BY NoJobJob DEF Init, Complete
<1> QED BY <1>1, InitFirm, FirmNext, CompleteNext, PTL DEF Spec

(* An upgrade switches only to a firmware whose kernel and rootfs are both *)
(* completely written and of the version asked for.                        *)
THEOREM SpecSwitchComplete == Spec => []SwitchComplete
PROOF
<1>1. Firm /\ Complete => SwitchComplete
  BY DEF Complete, SwitchComplete, Objs
<1> QED BY <1>1, SpecComplete, PTL

-----------------------------------------------------------------------------
(* Who says that a torn object is good, when it is not spoilt: the firmware *)
(* super startup or reset have switched to, until it is booted in vain, and *)
(* then for as long as the loader counts, which it does for kernel and      *)
(* rootfs at once, so that both stop being good at once and the loader      *)
(* chooses another.                                                         *)

Twin(f) ==
  /\ benv.vcs[f]["rootfs"].upgrade = OK /\ benv.vcs[f]["kernel"].upgrade = OK
  /\ benv.vcs[f]["rootfs"].error = benv.vcs[f]["kernel"].error

Excused(f, obj) ==
  \/ <<f, obj>> \in spoilt
  \/ f = benv.current /\ machine.state # "up" /\ Twin(f)

Honest ==
  \A f \in Firmwares, obj \in Objs :
    disk[f][obj] = Torn /\ is_benv_good_obj(benv, obj, f) => Excused(f, obj)

(* Which command switches, and what is being written is marked so.         *)
Sources ==
  /\ job.stage = "switch" => job.cmd \in {"super", "reset", "upgrade", "auto"}
  /\ job.stage \in {"rootfs", "kernel"} =>
       benv.vcs[job.dst][job.stage].upgrade = UNKNOW

Sound ==
  /\ machine.state = "up" => Intact(machine.at)
  /\ Sources
  /\ Honest

LEMMA SourcesNoJob == job' = NoJob => Sources'
PROOF
  BY NoJobJob DEF Sources

LEMMA BeginSound ==
  ASSUME Firm, Sound, Command
  PROVE  Sound'
PROOF
<1>1. Commanded /\ UNCHANGED <<benv, disk, spoilt, machine>>
  BY DEF Command, sys_cmd_upgrade, sys_cmd_repair, sys_cmd_reset,
         sys_usbupgrade, Begin
<1>2. job'.stage = "next"
  BY <1>1, BeginFirm
<1>3. Sources'
  BY <1>2 DEF Sources
<1>4. Honest' /\ (machine.state = "up" => Intact(machine.at))'
  BY <1>1 DEF Sound, Honest, Excused, Twin, Intact
<1> QED BY <1>3, <1>4 DEF Sound

LEMMA PreparesSound ==
  ASSUME Firm, Sound, Preparation, Prepares
  PROVE  Sound'
PROOF
<1>1. machine.state = "up"
  BY DEF Preparation, sys_super_startup, Ready, Visit, sys_repair_kernel,
         UsbRootfs
<1>2. UNCHANGED <<disk, spoilt, machine>> /\ Worse(benv, benv')
  BY DEF Prepares
<1>3. (machine.state = "up" => Intact(machine.at))'
  BY <1>2 DEF Sound, Intact
<1>4. Honest'
  <2>1. \A f \in Firmwares, obj \in Objs :
          disk[f][obj] = Torn /\ is_benv_good_obj(benv', obj, f) =>
            <<f, obj>> \in spoilt
    BY <1>1, <1>2 DEF Sound, Honest, Excused, Worse
  <2> QED BY <1>2, <2>1 DEF Honest, Excused, is_benv_good_obj
<1>5. Sources'
  BY DEF Prepares, Sources
<1> QED BY <1>3, <1>4, <1>5 DEF Sound

(* A write leaves every other object as it is, the running firmware too.   *)
LEMMA Elsewhere ==
  ASSUME Firm, Sound, Writing, machine.state = "up", UNCHANGED machine,
         \A f \in Firmwares, obj \in Objs :
           f # job.dst \/ obj # job.stage => disk'[f][obj] = disk[f][obj]
  PROVE  (machine.state = "up" => Intact(machine.at))'
PROOF
<1>1. machine.at \in Firmwares /\ job.dst # machine.at
  BY DEF Firm, TypeInv, Machine, Guarded, Writing
<1>2. \A obj \in Objs : disk'[machine.at][obj] = disk[machine.at][obj]
  BY <1>1
<1> QED BY <1>2 DEF Sound, Intact

LEMMA AfterSources ==
  ASSUME Firm, Writing, NEW err \in BOOLEAN, job' = After(err)
  PROVE  Sources'
PROOF
<1>1. CASE job' = NoJob
  BY <1>1, SourcesNoJob
<1>2. CASE job' # NoJob
  <2>1. PICK stage \in {"next", "file", "switch"} :
          /\ job' = [job EXCEPT !.stage = stage]
          /\ stage = "switch" => job.cmd \in {"super", "upgrade", "auto"}
    BY <1>2, AfterStage
  <2>2. job'.stage = stage /\ job'.cmd = job.cmd
    BY <2>1 DEF Firm, TypeInv, Job
  <2> QED BY <2>1, <2>2 DEF Sources
<1> QED BY <1>1, <1>2

LEMMA WriteSound ==
  ASSUME Firm, Sound, WriteOk \/ WriteFails \/ InitFails
  PROVE  Sound'
PROOF
<1>1. /\ Writing /\ machine.state = "up" /\ UNCHANGED machine
      /\ job.dst \in Firmwares /\ job.stage \in Objs /\ benv \in Os
  BY DEF WriteOk, WriteFails, InitFails, Writing, Firm, TypeInv, Job, Objs
<1>2. Target = {<<job.dst, job.stage>>}
  BY <1>1 DEF Target
<1>3. CASE WriteOk
  <2>1. benv' = Written(benv, job.dst, job.stage, FALSE) /\ job' = After(FALSE)
    BY <1>3 DEF WriteOk
  <2>2. /\ disk'[job.dst][job.stage] = job.source
        /\ \A f \in Firmwares, obj \in Objs :
             f # job.dst \/ obj # job.stage => disk'[f][obj] = disk[f][obj]
    BY <1>3, WriteOkDisk
  <2>3. /\ job.source = Torn => <<job.dst, job.stage>> \in spoilt'
        /\ \A f \in Firmwares, obj \in Objs :
             (f # job.dst \/ obj # job.stage) /\ <<f, obj>> \in spoilt =>
               <<f, obj>> \in spoilt'
    BY <1>2, <1>3 DEF WriteOk
  <2>4. (machine.state = "up" => Intact(machine.at))'
    BY <1>1, <2>2, Elsewhere
  <2>5. Sources'
    BY <1>1, <2>1, AfterSources
  <2>6. ASSUME NEW f \in Firmwares, NEW obj \in Objs,
               disk'[f][obj] = Torn, is_benv_good_obj(benv', obj, f)
        PROVE  <<f, obj>> \in spoilt'
    <3>1. CASE is_benv_good_obj(benv, obj, f) /\ (f # job.dst \/ obj # job.stage)
      <4>1. disk[f][obj] = Torn
        BY <2>2, <2>6, <3>1
      <4>2. <<f, obj>> \in spoilt
        BY <1>1, <3>1, <4>1 DEF Sound, Honest, Excused
      <4> QED BY <2>3, <3>1, <4>2
    <3>2. CASE f = job.dst /\ obj = job.stage
      BY <2>2, <2>3, <2>6, <3>2
    <3>3. \/ is_benv_good_obj(benv, obj, f) /\ (f # job.dst \/ obj # job.stage)
          \/ f = job.dst /\ obj = job.stage
      <4>1. is_benv_good_obj(Written(benv, job.dst, job.stage, FALSE), obj, f)
        BY <2>1, <2>6 DEF is_benv_good_obj
      <4>2. \A err \in BOOLEAN : \A g \in Firmwares, o \in Objs :
              is_benv_good_obj(Written(benv, job.dst, job.stage, err), o, g) =>
                \/ is_benv_good_obj(benv, o, g) /\ (g # job.dst \/ o # job.stage)
                \/ g = job.dst /\ o = job.stage
        BY <1>1, WrittenOs
      <4> QED BY <4>1, <4>2
    <3> QED BY <3>1, <3>2, <3>3
  <2>7. Honest'
    BY <2>6 DEF Honest, Excused
  <2> QED BY <2>4, <2>5, <2>7 DEF Sound
<1>4. CASE WriteFails
  <2>1. benv' = Written(benv, job.dst, job.stage, TRUE) /\ job' = After(TRUE)
    BY <1>4 DEF WriteFails
  <2>2. PICK x \in {disk[job.dst][job.stage], Torn} :
               disk' = [disk EXCEPT ![job.dst][job.stage] = x]
    BY <1>4 DEF WriteFails
  <2>3. \A f \in Firmwares, obj \in Objs :
          f # job.dst \/ obj # job.stage => disk'[f][obj] = disk[f][obj]
    BY <2>2 DEF Firm, TypeInv
  <2>4. \A f \in Firmwares, obj \in Objs :
          (f # job.dst \/ obj # job.stage) /\ <<f, obj>> \in spoilt =>
            <<f, obj>> \in spoilt'
    BY <1>2, <1>4 DEF WriteFails
  <2>5. (machine.state = "up" => Intact(machine.at))'
    BY <1>1, <2>3, Elsewhere
  <2>6. Sources'
    BY <1>1, <2>1, AfterSources
  <2>7. ASSUME NEW f \in Firmwares, NEW obj \in Objs,
               disk'[f][obj] = Torn, is_benv_good_obj(benv', obj, f)
        PROVE  <<f, obj>> \in spoilt'
    <3>1. is_benv_good_obj(benv, obj, f) /\ (f # job.dst \/ obj # job.stage)
      BY <1>1, <2>1, <2>7, WrittenOs
    <3>2. disk[f][obj] = Torn
      BY <2>3, <2>7, <3>1
    <3>3. <<f, obj>> \in spoilt
      BY <1>1, <3>1, <3>2 DEF Sound, Honest, Excused
    <3> QED BY <2>4, <3>1, <3>3
  <2>8. Honest'
    BY <2>7 DEF Honest, Excused
  <2> QED BY <2>5, <2>6, <2>8 DEF Sound
<1>5. CASE InitFails
  <2>1. job' = After(TRUE) /\ UNCHANGED <<benv, disk, spoilt, machine>>
    BY <1>5 DEF InitFails
  <2>2. Sources'
    BY <1>1, <2>1, AfterSources
  <2>3. Honest' /\ (machine.state = "up" => Intact(machine.at))'
    BY <2>1 DEF Sound, Honest, Excused, Twin, Intact
  <2> QED BY <2>2, <2>3 DEF Sound
<1> QED BY <1>3, <1>4, <1>5

LEMMA SwitchSound ==
  ASSUME Firm, Complete, Sound, Switch
  PROVE  Sound'
PROOF
<1>1. /\ machine.state = "up" /\ job.stage = "switch" /\ job \in Job
      /\ benv' = sys_switch_to(benv, job.dst) /\ job.dst \in Firmwares
      /\ disk' = disk /\ spoilt' = spoilt /\ benv \in Os
  BY DEF Switch, Firm, TypeInv, Job
<1>2. /\ benv'.current = job.dst
      /\ \A obj \in Objs : /\ benv'.vcs[job.dst][obj].upgrade = OK
                           /\ benv'.vcs[job.dst][obj].error = 0
      /\ \A f \in Firmwares \ {job.dst} : benv'.vcs[f] = benv.vcs[f]
  BY <1>1, SwitchTo
<1>3. ASSUME NEW f \in Firmwares, NEW obj \in Objs, f # job.dst,
             disk'[f][obj] = Torn, is_benv_good_obj(benv', obj, f)
      PROVE  Excused(f, obj)'
  <2>1. is_benv_good_obj(benv, obj, f)
    BY <1>2, <1>3 DEF is_benv_good_obj
  <2> QED BY <1>1, <1>3, <2>1 DEF Sound, Honest, Excused
<1>4. CASE job.cmd \in {"super", "reset"}
  <2>1. machine' = Off /\ job' = NoJob
    BY <1>4 DEF Switch
  <2>2. machine'.state = "off"
    BY <2>1 DEF Off
  <2>3. ASSUME NEW f \in Firmwares, NEW obj \in Objs, f = job.dst
        PROVE  Excused(f, obj)'
    BY <1>2, <2>2, <2>3 DEF Excused, Twin, Objs
  <2>4. Honest'
    BY <1>3, <2>3 DEF Honest
  <2> QED BY <2>1, <2>2, <2>4, SourcesNoJob DEF Sound
<1>5. CASE job.cmd \in {"upgrade", "auto"}
  <2>1. job' = [job EXCEPT !.stage = "next"] /\ UNCHANGED machine
    BY <1>5 DEF Switch, To
  <2>2. job'.stage = "next" /\ job'.cmd = job.cmd
    BY <1>1, <2>1 DEF Job
  <2>3. Sources'
    BY <1>5, <2>2 DEF Sources
  <2>4. \A obj \in Objs : disk[job.dst][obj] # Torn
    BY <1>1, <1>5, Assumed DEF Complete, Objs, Job
  <2>5. Honest'
    BY <1>1, <1>3, <2>4 DEF Honest
  <2> QED BY <1>1, <2>1, <2>3, <2>5 DEF Sound, Intact
<1> QED BY <1>1, <1>4, <1>5 DEF Sound, Sources

LEMMA BootSound ==
  ASSUME Firm, Sound, Boot
  PROVE  Sound'
PROOF
<1>1. PICK f \in benv_select(benv) :
        /\ benv' = Counted(benv, f)
        /\ machine' = [state |-> IF Intact(f) THEN "up" ELSE "dead",
                       at |-> f, report |-> "none"]
  BY DEF Boot
<1>2. /\ machine.state = "off" /\ disk' = disk /\ spoilt' = spoilt /\ job' = job
      /\ benv \in Os /\ f \in Firmwares /\ benv.current \in Firmwares
  BY Selected DEF Boot, Firm, TypeInv, Os
<1>3. /\ benv'.current = f
      /\ \A obj \in Objs : benv'.vcs[f][obj] = Tried(benv.vcs[f][obj])
      /\ \A g \in Firmwares \ {f} : benv'.vcs[g] = benv.vcs[g]
  BY <1>1, <1>2, CountedOs
<1>4. job' = NoJob
  BY <1>2 DEF Firm, Guarded
<1>5. ASSUME NEW g \in Firmwares, NEW obj \in Objs,
             is_benv_good_obj(benv', obj, g)
      PROVE  is_benv_good_obj(benv, obj, g)
  <2>1. CASE g # f
    BY <1>3, <1>5, <2>1 DEF is_benv_good_obj
  <2>2. CASE g = f
    <3> DEFINE x == benv.vcs[f][obj]
    <3>1. x \in Vcs /\ x.error \in 0 .. Trys /\ Trys \in Nat
      BY <1>2, VcsFields, Assumed
    <3>2. is_benv_good_vcs(Tried(x))
      BY <1>3, <1>5, <2>2 DEF is_benv_good_obj
    <3> HIDE DEF x
    <3>3. /\ Tried(x).upgrade = x.upgrade
          /\ Tried(x).error = IF x.error < Trys THEN x.error + 1 ELSE x.error
      BY <3>1 DEF Tried, Vcs
    <3>4. is_benv_good_vcs(x)
      BY <3>1, <3>2, <3>3 DEF is_benv_good_vcs
    <3> QED BY <2>2, <3>4 DEF is_benv_good_obj, x
  <2> QED BY <2>1, <2>2
<1>6. Twin(f) => Twin(f)'
  <2>1. benv.vcs[f]["rootfs"] \in Vcs /\ benv.vcs[f]["kernel"] \in Vcs
    BY <1>2, VcsFields DEF Objs
  <2>2. /\ benv'.vcs[f]["rootfs"] = Tried(benv.vcs[f]["rootfs"])
        /\ benv'.vcs[f]["kernel"] = Tried(benv.vcs[f]["kernel"])
    BY <1>3 DEF Objs
  <2> QED BY <2>1, <2>2 DEF Twin, Tried, Vcs
<1>7. ASSUME NEW g \in Firmwares, NEW obj \in Objs,
             disk[g][obj] = Torn, is_benv_good_obj(benv', obj, g)
      PROVE  Excused(g, obj)'
  <2>1. is_benv_good_obj(benv, obj, g)
    BY <1>5, <1>7
  <2>2. CASE <<g, obj>> \in spoilt
    BY <1>2, <2>2 DEF Excused
  <2>3. CASE g = benv.current /\ Twin(g)
    <3>1. is_benv_good_firmware(benv, g)
      BY <2>1, <2>3
      DEF Twin, is_benv_good_firmware, is_benv_good_obj, is_benv_good_vcs, Objs
    <3>2. f = g
      BY <1>2, <2>3, <3>1, Selected
    <3>3. ~ Intact(f)
      BY <1>7, <3>2 DEF Intact
    <3>4. machine'.state # "up"
      BY <1>1, <3>3
    <3> QED BY <1>3, <1>6, <2>3, <3>2, <3>4 DEF Excused
  <2> QED BY <1>2, <1>7, <2>1, <2>2, <2>3 DEF Sound, Honest, Excused
<1>8. Honest'
  BY <1>2, <1>7 DEF Honest
<1>9. (machine.state = "up" => Intact(machine.at))'
  BY <1>1, <1>2 DEF Intact
<1> QED BY <1>4, <1>8, <1>9, SourcesNoJob DEF Sound

LEMMA DeviceSound ==
  ASSUME Firm, Sound, Device
  PROVE  Sound'
PROOF
<1>1. Sources'
  BY DeviceFirm, SourcesNoJob
<1>2. CASE Watchdog \/ Reboot
  <2>1. /\ UNCHANGED <<benv, disk, spoilt>> /\ machine'.state = "off"
    BY <1>2 DEF Watchdog, Reboot, Off
  <2>2. Honest'
    BY <2>1 DEF Sound, Honest, Excused, Twin
  <2> QED BY <1>1, <2>1, <2>2 DEF Sound
<1>3. CASE sys_normal_startup
  <2>1. /\ machine \in Machine /\ machine.at \in Firmwares
        /\ machine.state = "up" /\ benv \in Os
        /\ disk' = disk /\ spoilt' = spoilt
        /\ benv' = normal_startup(benv, machine.at)
        /\ machine' = [machine EXCEPT !.report = "ok"]
    BY <1>3 DEF sys_normal_startup, Commanded, Ready, Firm, TypeInv, Machine
  <2>2. machine'.state = "up" /\ machine'.at = machine.at
    BY <2>1 DEF Machine
  <2>3. \A f \in Firmwares \ {machine.at}, obj \in Objs :
          is_benv_good_obj(benv', obj, f) => is_benv_good_obj(benv, obj, f)
    BY <2>1, NormalStartup
  <2>4. \A obj \in Objs : disk[machine.at][obj] # Torn
    BY <2>1 DEF Sound, Intact
  <2>5. Honest'
    BY <2>1, <2>3, <2>4 DEF Sound, Honest, Excused
  <2> QED BY <1>1, <2>1, <2>2, <2>4, <2>5 DEF Sound, Intact
<1>4. CASE sys_fail_startup
  <2>1. /\ machine \in Machine /\ machine.at \in Firmwares
        /\ machine.state = "up" /\ benv \in Os
        /\ disk' = disk /\ spoilt' = spoilt
        /\ benv' = fail_startup(benv, machine.at)
        /\ machine' = [machine EXCEPT !.report = "fail"]
    BY <1>4 DEF sys_fail_startup, Commanded, Ready, Firm, TypeInv, Machine
  <2>2. machine'.state = "up" /\ machine'.at = machine.at
    BY <2>1 DEF Machine
  <2>3. Worse(benv, benv')
    BY <2>1, FailStartup
  <2>4. Honest'
    BY <2>1, <2>3 DEF Sound, Honest, Excused, Worse
  <2> QED BY <1>1, <2>1, <2>2, <2>4 DEF Sound, Intact
<1>5. CASE PowerCut
  <2>1. machine'.state = "off" /\ benv' = benv
    BY <1>5 DEF PowerCut, Off
  <2>2. PICK lost \in SUBSET dirty :
          /\ IF Writing
               THEN \E x \in {Left(lost)[job.dst][job.stage], Torn, job.source} :
                      disk' = [Left(lost) EXCEPT ![job.dst][job.stage] = x]
               ELSE disk' = Left(lost)
          /\ spoilt' = (spoilt \cup lost) \ Target
    BY <1>5 DEF PowerCut
  <2> DEFINE left == Left(lost)
  <2>3. /\ left \in [Firmwares -> [Objs -> Contents]]
        /\ \A f \in Firmwares, obj \in Objs :
             left[f][obj] = IF <<f, obj>> \in lost THEN Torn ELSE disk[f][obj]
    BY LeftDisk
  <2>4. IF Writing
          THEN \E x : disk' = [left EXCEPT ![job.dst][job.stage] = x]
          ELSE disk' = left
    BY <2>2
  <2> HIDE DEF left
  <2>5. ASSUME NEW f \in Firmwares, NEW obj \in Objs,
               is_benv_good_obj(benv, obj, f)
        PROVE  <<f, obj>> \notin Target /\ disk'[f][obj] = left[f][obj]
    <3>1. CASE Writing
      <4>1. /\ job.dst \in Firmwares /\ job.stage \in Objs
            /\ ~ is_benv_good_obj(benv, job.stage, job.dst)
        BY <3>1
        DEF Firm, TypeInv, Job, Writing, Objs, Sound, Sources,
            is_benv_good_obj, is_benv_good_vcs, UNKNOW, OK
      <4>2. f # job.dst \/ obj # job.stage
        BY <2>5, <4>1
      <4>3. Target = {<<job.dst, job.stage>>}
        BY <3>1 DEF Target
      <4>4. PICK x : disk' = [left EXCEPT ![job.dst][job.stage] = x]
        BY <2>4, <3>1
      <4>5. disk'[f][obj] = left[f][obj]
        BY <2>3, <4>1, <4>2, <4>4
      <4> QED BY <4>2, <4>3, <4>5
    <3>2. CASE ~ Writing
      BY <2>4, <3>2 DEF Target
    <3> QED BY <3>1, <3>2
  <2>6. ASSUME NEW f \in Firmwares, NEW obj \in Objs,
               disk'[f][obj] = Torn, is_benv_good_obj(benv, obj, f)
        PROVE  Excused(f, obj)'
    <3>1. CASE <<f, obj>> \in lost
      BY <2>2, <2>5, <2>6, <3>1 DEF Excused
    <3>2. CASE <<f, obj>> \notin lost
      <4>1. disk[f][obj] = Torn
        BY <2>3, <2>5, <2>6, <3>2
      <4>2. \/ <<f, obj>> \in spoilt'
            \/ f = benv.current /\ Twin(f)
        BY <2>2, <2>5, <2>6, <4>1 DEF Sound, Honest, Excused
      <4> QED BY <2>1, <4>2 DEF Excused, Twin
    <3> QED BY <3>1, <3>2
  <2>7. Honest'
    BY <2>1, <2>6 DEF Honest
  <2> QED BY <1>1, <2>1, <2>7 DEF Sound
<1> QED BY <1>2, <1>3, <1>4, <1>5, BootSound DEF Device

LEMMA SoundNext == Firm /\ Complete /\ Sound /\ [Next]_vars => Sound'
PROOF
<1> SUFFICES ASSUME Firm, Complete, Sound, Step PROVE Sound'
  BY NextStep
<1>1. CASE UNCHANGED vars
  <2>1. UNCHANGED <<benv, disk, spoilt, machine, job>>
    BY <1>1 DEF vars
  <2>2. Sources'
    BY <2>1 DEF Sound, Sources
  <2>3. Honest' /\ (machine.state = "up" => Intact(machine.at))'
    BY <2>1 DEF Sound, Honest, Excused, Twin, Intact
  <2> QED BY <2>2, <2>3 DEF Sound
<1> QED
  BY <1>1, BeginSound, PreparationPrepares, PreparesSound, WriteSound,
     SwitchSound, DeviceSound
  DEF Step

LEMMA InitSound == Init => Sound
PROOF
<1> SUFFICES ASSUME Init PROVE Sound
  OBVIOUS
<1>1. job = NoJob /\ machine.state = "off"
  BY DEF Init, Off
<1>2. Sources
  BY <1>1, NoJobJob DEF Sources
<1>3. \A f \in Firmwares, obj \in Objs : disk[f][obj] # Torn
  BY Assumed DEF Init
<1> QED BY <1>1, <1>2, <1>3 DEF Sound, Honest

(* Wherever the power is cut and a write fails, and whatever commands are  *)
(* given, a firmware that is not the current one and whose kernel or       *)
(* rootfs is torn is marked good only if a power cut took it from the cache *)
(* or it was copied from what was torn.                                    *)
THEOREM SpecTornIsBad == Spec => []TornIsBad
PROOF
<1>1. Firm /\ Complete /\ Sound /\ [Next]_vars => Sound'
  BY SoundNext
<1>2. Sound => TornIsBad
  BY DEF Sound, Honest, Excused, TornIsBad, is_benv_good_firmware
<1> QED BY <1>1, <1>2, InitSound, SpecComplete, PTL DEF Spec
=============================================================================
