-------------------------------- MODULE Sys --------------------------------
(***************************************************************************)
(* The firmwares of the device over upgrades, failures and power cuts: the *)
(* boot loader (src/app/benv), which selects the firmware to boot, and the *)
(* tool sys (src/app/sys), which writes firmwares that do not run, switches *)
(* to them and reports that the running one has started.                   *)
(*                                                                         *)
(* Commands of sys exclude each other by a file lock.  The power may be    *)
(* cut at any time; what a write that is cut short leaves may be torn.  So *)
(* may what has been written and marked: sys opens the environment O_SYNC  *)
(* and writes the rest through the cache, which nothing it does empties    *)
(* before the mark.                                                        *)
(***************************************************************************)
EXTENDS Benv, FiniteSets

CONSTANTS Current,     \* PRODUCT_FIRMWARE_CURRENT
          Factory,     \* the version the device leaves the factory with
          MaxUpgrades, \* bound: how many firmwares one command upgrades
          MaxCommands, \* bound: commands given
          MaxFaults    \* bound: power cuts, failing writes, failing starts

ASSUME CurrentAssumption == Current \in Firmwares
ASSUME FactoryAssumption == Factory \in Versions
ASSUME MaxUpgradesAssumption == MaxUpgrades \in Nat
ASSUME MaxCommandsAssumption == MaxCommands \in Nat
ASSUME MaxFaultsAssumption == MaxFaults \in Nat

VARIABLES benv,     \* the block of the boot environment, as it is saved
          disk,     \* what is really on the kernels and rootfses
          dirty,    \* what of it may be in the cache only
          spoilt,   \* history: what was lost from the cache, or copied from
                    \* what is torn
          machine,  \* what runs
          job,      \* the command of sys that holds the lock
          commands, \* how many commands have been given
          faults    \* how much has gone wrong

vars == <<benv, disk, dirty, spoilt, machine, job, commands, faults>>

-----------------------------------------------------------------------------
(* State.                                                                  *)

Torn == 0
Contents == Versions \cup {Torn}

Parts == Firmwares \X Objs

Intact(f) == \A obj \in Objs : disk[f][obj] # Torn

(* dead: a firmware that is torn has been booted.                          *)
Machine == [state : {"off", "dead", "up"}, at : Firmwares,
            report : {"none", "ok", "fail"}]

Off == [state |-> "off", at |-> 0, report |-> "none"]

(* todo: the firmwares the command still has to visit, left: how many of   *)
(* them it may take; dst: the one it writes, with what source holds.       *)
Job == [cmd : {"none", "upgrade", "auto", "repair", "reset", "usb", "super"},
        stage : {"next", "rootfs", "kernel", "file", "switch"},
        todo : SUBSET Firmwares, left : 0 .. MaxUpgrades,
        version : Versions, by : Firmwares, force : BOOLEAN,
        kernel : BOOLEAN, first : Firmwares,
        dst : Firmwares, source : Contents]

NoJob == [cmd |-> "none", stage |-> "next", todo |-> {}, left |-> 0,
          version |-> Factory, by |-> 0, force |-> FALSE, kernel |-> FALSE,
          first |-> 0, dst |-> 0, source |-> Torn]

Writing == job.stage \in {"rootfs", "kernel"}

Target == IF Writing THEN {<<job.dst, job.stage>>} ELSE {}

Init ==
  /\ benv = [current |-> Current,
             vcs |-> [f \in Firmwares |-> [obj \in Objs |->
                        [upgrade |-> OK, other |-> UNKNOW, self |-> UNKNOW,
                         error |-> 0, version |-> Factory]]]]
  /\ disk = [f \in Firmwares |-> [obj \in Objs |-> Factory]]
  /\ dirty = {}
  /\ spoilt = {}
  /\ machine = Off
  /\ job = NoJob
  /\ commands = 0
  /\ faults = 0

Fault == faults < MaxFaults /\ faults' = faults + 1 /\ UNCHANGED commands

-----------------------------------------------------------------------------
(* The device.                                                             *)

(* The loader saves its choice and the boots it counts.                    *)
Boot ==
  /\ machine.state = "off"
  /\ \E f \in benv_select(benv) :
       /\ benv' = Counted(benv, f)
       /\ machine' = [state |-> IF Intact(f) THEN "up" ELSE "dead",
                      at |-> f, report |-> "none"]
  /\ UNCHANGED <<disk, dirty, spoilt, job, commands, faults>>

(* The watchdog resets what does not run.                                  *)
Watchdog ==
  /\ machine.state = "dead"
  /\ machine' = Off
  /\ UNCHANGED <<benv, disk, dirty, spoilt, job, commands, faults>>

(* The scripts that reboot the device empty the cache.                     *)
Reboot ==
  /\ machine.state = "up" /\ job = NoJob /\ machine.report # "none"
  /\ machine' = Off
  /\ dirty' = {}
  /\ UNCHANGED <<benv, disk, spoilt, job, commands, faults>>

(* The disk without what is lost from the cache.                           *)
Left(lost) ==
  [f \in Firmwares |-> [obj \in Objs |->
     IF <<f, obj>> \in lost THEN Torn ELSE disk[f][obj]]]

(* What is being written is still as it was, torn, or complete.            *)
PowerCut ==
  /\ machine.state # "off" /\ Fault
  /\ machine' = Off
  /\ job' = NoJob
  /\ dirty' = {}
  /\ \E lost \in SUBSET dirty :
       /\ IF Writing
            THEN \E x \in {Left(lost)[job.dst][job.stage], Torn, job.source} :
                   disk' = [Left(lost) EXCEPT ![job.dst][job.stage] = x]
            ELSE disk' = Left(lost)
       /\ spoilt' = (spoilt \cup lost) \ Target
  /\ UNCHANGED benv

-----------------------------------------------------------------------------
(* Commands of sys.                                                        *)

Ready == machine.state = "up" /\ job = NoJob

(* Firmware 0 takes no command but startup and startfail.                  *)
Commanded == Ready /\ machine.at # 0

sys_normal_startup ==
  /\ Commanded /\ machine.report = "none"
  /\ benv' = normal_startup(benv, machine.at)
  /\ machine' = [machine EXCEPT !.report = "ok"]
  /\ UNCHANGED <<disk, dirty, spoilt, job, commands, faults>>

sys_fail_startup ==
  /\ Commanded /\ machine.report = "none" /\ Fault
  /\ benv' = fail_startup(benv, machine.at)
  /\ machine' = [machine EXCEPT !.report = "fail"]
  /\ UNCHANGED <<disk, dirty, spoilt, job>>

(* A command begins.                                                       *)
Begin(j) ==
  /\ commands < MaxCommands /\ commands' = commands + 1
  /\ job' = j
  /\ UNCHANGED <<benv, disk, dirty, spoilt, machine, faults>>

__skips(f) == benv_skips(benv, machine.at) \cup {f}

(* ROOTFS names a firmware, all of them (-1), or is not set.               *)
sys_cmd_upgrade ==
  /\ Commanded
  /\ \E v \in Versions, force \in BOOLEAN :
       LET upgrade == [NoJob EXCEPT !.cmd = "upgrade", !.version = v,
                                    !.force = force]
       IN  \/ \E f \in Normals \ {machine.at} :
                Begin([upgrade EXCEPT !.todo = {f}])
           \/ Begin([upgrade EXCEPT !.todo = Normals \ {machine.at}])
           \/ \E n \in 1 .. MaxUpgrades :
                Begin([upgrade EXCEPT !.cmd = "auto", !.left = n,
                                      !.todo = Normals \ __skips(0)])

\* Mutant: what is repaired may be running.
ZoneWithRunning(zone) == zone \ benv_skips(benv, 0)

(* What repair visits of the firmware named, or of all.                    *)
RepairZone(zone) == zone \ __skips(0)

sys_cmd_repair ==
  /\ Commanded
  /\ \E zone \in {Firmwares} \cup {{f} : f \in Normals \ {machine.at}} :
       Begin([NoJob EXCEPT !.cmd = "repair", !.todo = RepairZone(zone)])

(* By any rootfs, whatever its mark.                                       *)
sys_cmd_reset ==
  /\ Commanded
  /\ \E by \in Firmwares \ {machine.at} :
       LET todo == Normals \ __skips(by)
       IN  \E f \in First(todo) :
             Begin([NoJob EXCEPT !.cmd = "reset", !.by = by,
                                 !.todo = todo, !.first = f])

sys_usbupgrade ==
  /\ Commanded
  /\ \E v \in Versions, force \in BOOLEAN, kernel \in BOOLEAN,
        zone \in {Firmwares} \cup {{f} : f \in Normals \ {machine.at}} :
       /\ force \/ benv.vcs[0]["rootfs"].version # v
       /\ Begin([NoJob EXCEPT !.cmd = "usb", !.version = v,
                              !.kernel = kernel,
                              !.todo = zone \ {machine.at}])

-----------------------------------------------------------------------------
(* Writing a rootfs or a kernel: mark it, write it, mark how that went.    *)

Rootfs(j, f, source) ==
  [j EXCEPT !.stage = "rootfs", !.dst = f, !.source = source]

Begun(j, os) ==
  /\ job' = j
  /\ benv' = os
  /\ UNCHANGED <<disk, dirty, spoilt, machine, commands, faults>>

(* The running firmware is 0: the best of the others is repaired, if none  *)
(* is good 1 is made from 0.                                               *)
sys_super_startup ==
  /\ Ready /\ machine.at = 0
  /\ LET best == BestRootfs(benv, {0})
         j == [NoJob EXCEPT !.cmd = "super"]
     IN  \/ \E f \in best :
              Begun([j EXCEPT !.stage = "file", !.dst = f], benv)
         \/ /\ best = {}
            /\ Begun(Rootfs(j, 1, disk[0]["rootfs"]),
                     upgrade_init(benv, 1, "rootfs",
                                  benv.vcs[0]["rootfs"].version))

(* One with the version asked for, the worst, or if all are taken 1 or 2.  *)
sys_get_upgrade(v, todo) ==
  LET skips == Firmwares \ todo
      good == benv_find_first_good_byversion(benv, v, skips)
      any == benv_find_first_byversion(benv, v, skips)
  IN  IF good # {} THEN good
      ELSE IF any # {} THEN any
      ELSE IF todo # {} THEN WorstRootfs(benv, skips)
      ELSE {IF machine.at = 1 THEN 2 ELSE 1}

UpToDate(j, f) ==
  /\ ~ j.force
  /\ is_benv_good_firmware(benv, f)
  /\ \A obj \in Objs : HasVersion(benv, obj, f, j.version)

sys_upgrade(j, f) ==
  \/ UpToDate(j, f) /\ Begun(j, benv)
  \/ ~ UpToDate(j, f) /\ Begun(Rootfs(j, f, j.version),
                               sys_upgrade_init(benv, f, j.version))

UpgradeNext ==
  \/ /\ job.cmd = "upgrade"
     /\ \E f \in First(job.todo) :
          sys_upgrade([job EXCEPT !.todo = @ \ {f}], f)
  \/ /\ job.cmd = "auto" /\ job.left > 0
     /\ \E f \in sys_get_upgrade(job.version, job.todo) :
          sys_upgrade([job EXCEPT !.todo = @ \ {f}, !.left = @ - 1], f)

(* The check of a firmware that is marked good is a script of the product. *)
sys_repair_rootfs(j, f) ==
  LET v == benv.vcs[f]["rootfs"].version
      buddy == benv_find_first_good_byversion(benv, v, __skips(f))
      sources == IF buddy # {} THEN {disk[b]["rootfs"] : b \in buddy} ELSE {v}
  IN  \/ is_benv_good_obj(benv, "rootfs", f) /\ Begun(j, benv)
      \/ \E source \in sources :
           Begun(Rootfs([j EXCEPT !.version = v], f, source),
                 sys_upgrade_init(benv, f, v))

RepairNext ==
  /\ job.cmd = "repair"
  /\ \E f \in First(job.todo) :
       sys_repair_rootfs([job EXCEPT !.todo = @ \ {f}], f)

ResetNext ==
  /\ job.cmd = "reset"
  /\ LET v == benv.vcs[job.by]["rootfs"].version
     IN  \/ \E f \in First(job.todo) :
              Begun(Rootfs([job EXCEPT !.todo = @ \ {f}], f,
                           disk[job.by]["rootfs"]),
                    upgrade_init(benv, f, "rootfs", v))
         \/ /\ job.todo = {}
            /\ Begun([job EXCEPT !.stage = "switch", !.dst = job.first],
                     sys_upgrade_init(benv, machine.at, v))

(* The stick may hold a kernel; that is written first.                     *)
UsbNext ==
  /\ job.cmd = "usb"
  /\ \E f \in First(job.todo) :
       LET obj == IF job.kernel THEN "kernel" ELSE "rootfs"
       IN  Begun([job EXCEPT !.todo = @ \ {f}, !.stage = obj, !.dst = f,
                             !.source = job.version],
                 upgrade_init(benv, f, obj, job.version))

Done ==
  /\ \/ job.cmd \in {"upgrade", "repair", "usb"} /\ job.todo = {}
     \/ job.cmd = "auto" /\ job.left = 0
  /\ Begun(NoJob, benv)

Visit ==
  /\ machine.state = "up" /\ job.stage = "next"
  /\ UpgradeNext \/ RepairNext \/ ResetNext \/ UsbNext \/ Done

(* The version the kernel is said to have.  Reset says that of the kernel  *)
(* it replaces.                                                            *)
KernelVersion ==
  CASE job.cmd = "super" -> benv.vcs[job.dst]["rootfs"].version
    [] job.cmd = "reset" -> benv.vcs[job.dst]["kernel"].version
    [] OTHER -> job.version

(* The kernel is written from a file of the new rootfs.                    *)
sys_repair_kernel ==
  /\ machine.state = "up" /\ job.stage = "file" /\ job.cmd # "usb"
  /\ Begun([job EXCEPT !.stage = "kernel",
                       !.source = disk[job.dst]["rootfs"]],
           upgrade_init(benv, job.dst, "kernel", KernelVersion))

UsbRootfs ==
  /\ machine.state = "up" /\ job.stage = "file" /\ job.cmd = "usb"
  /\ Begun(Rootfs(job, job.dst, job.version),
           upgrade_init(benv, job.dst, "rootfs", job.version))

(* What the command does when a write has ended, with an error or without. *)
To(stage) == [job EXCEPT !.stage = stage]

\* Mutant: an upgrade does not look at the error of a write.
GoOn(err) ==
  CASE job.cmd \in {"upgrade", "auto", "super"} ->
         To(IF job.stage = "rootfs" THEN "file" ELSE "switch")
    [] job.cmd \in {"repair", "reset"} ->
         To(IF job.stage = "rootfs" /\ ~ err THEN "file" ELSE "next")
    [] job.cmd = "usb" ->
         IF err THEN NoJob
         ELSE To(IF job.stage = "kernel" THEN "file" ELSE "next")
    [] OTHER -> job

After(err) ==
  CASE job.cmd \in {"upgrade", "auto"} ->
         IF err THEN NoJob
         ELSE To(IF job.stage = "rootfs" THEN "file" ELSE "switch")
    [] job.cmd = "super" ->
         To(IF job.stage = "rootfs" THEN "file" ELSE "switch")
    [] job.cmd \in {"repair", "reset"} ->
         To(IF job.stage = "rootfs" /\ ~ err THEN "file" ELSE "next")
    [] job.cmd = "usb" ->
         IF err THEN NoJob
         ELSE To(IF job.stage = "kernel" THEN "file" ELSE "next")
    [] OTHER -> job

(* The mark is on the disk, what was written may not be.                   *)
WriteOk ==
  /\ machine.state = "up" /\ Writing
  /\ disk' = [disk EXCEPT ![job.dst][job.stage] = job.source]
  /\ dirty' = dirty \cup Target
  /\ spoilt' = IF job.source = Torn THEN spoilt \cup Target ELSE spoilt \ Target
  /\ benv' = Written(benv, job.dst, job.stage, FALSE)
  /\ job' = After(FALSE)
  /\ UNCHANGED <<machine, commands, faults>>

WriteFails ==
  /\ machine.state = "up" /\ Writing /\ Fault
  /\ \E x \in {disk[job.dst][job.stage], Torn} :
       disk' = [disk EXCEPT ![job.dst][job.stage] = x]
  /\ spoilt' = spoilt \ Target
  /\ benv' = Written(benv, job.dst, job.stage, TRUE)
  /\ job' = After(TRUE)
  /\ UNCHANGED <<dirty, machine>>

(* The rootfs cannot be mounted for writing, or the password is not found: *)
(* nothing is written.                                                     *)
InitFails ==
  /\ machine.state = "up" /\ job.stage = "rootfs" /\ job.cmd # "super" /\ Fault
  /\ job' = After(TRUE)
  /\ UNCHANGED <<benv, disk, dirty, spoilt, machine>>

(* Super startup and reset reboot the device.                              *)
Switch ==
  /\ machine.state = "up" /\ job.stage = "switch"
  /\ benv' = sys_switch_to(benv, job.dst)
  /\ IF job.cmd \in {"super", "reset"}
       THEN machine' = Off /\ job' = NoJob /\ dirty' = {}
       ELSE job' = To("next") /\ UNCHANGED <<machine, dirty>>
  /\ UNCHANGED <<disk, spoilt, commands, faults>>

-----------------------------------------------------------------------------
Command ==
  \/ sys_cmd_upgrade
  \/ sys_cmd_repair
  \/ sys_cmd_reset
  \/ sys_usbupgrade

(* What the device does by itself, a command once begun included.          *)
Proceed ==
  \/ Boot
  \/ Watchdog
  \/ sys_super_startup
  \/ Visit
  \/ sys_repair_kernel
  \/ UsbRootfs
  \/ WriteOk
  \/ Switch

Next ==
  \/ Proceed
  \/ sys_normal_startup
  \/ sys_fail_startup
  \/ Command
  \/ WriteFails
  \/ InitFails
  \/ Reboot
  \/ PowerCut

Spec == Init /\ [][Next]_vars

(* The device goes on, its scripts report each start, and one that failed  *)
(* is followed by a reboot.                                                *)
FairSpec ==
  /\ Spec
  /\ WF_vars(Proceed)
  /\ WF_vars(sys_normal_startup)
  /\ WF_vars(Reboot /\ machine.report = "fail")

-----------------------------------------------------------------------------
(* Properties.                                                             *)

(* The environment, the disks, the device and the command stay in the      *)
(* types the block of the environment and sys have (benv.h:248, sys.c:99). *)
TypeOK ==
  /\ benv \in Os
  /\ disk \in [Firmwares -> [Objs -> Contents]]
  /\ dirty \subseteq Parts /\ spoilt \subseteq Parts
  /\ machine \in Machine
  /\ job \in Job
  /\ commands \in 0 .. MaxCommands
  /\ faults \in 0 .. MaxFaults

(* A firmware whose kernel or rootfs is torn is not marked good, wherever  *)
(* the power was cut and a write failed, but for three ways in which the   *)
(* code lets it happen: the power was cut before the cache was on the disk *)
(* (sys.c:759); what was copied was torn itself, as nobody looks at what   *)
(* reset and super startup copy (sys.c:1160, 1402); and the current one,   *)
(* as these two switch to what they have written whether or not that went  *)
(* well (sys.c:1409, 1763).                                                *)
TornIsBad ==
  \A f \in Firmwares :
    is_benv_good_firmware(benv, f) /\ f # benv.current =>
      \A obj \in Objs : disk[f][obj] = Torn => <<f, obj>> \in spoilt

(* No command writes the running firmware, and none but the usb upgrade    *)
(* writes the one that repairs the others.                                 *)
RunningUntouched ==
  Writing => /\ job.dst # machine.at
             /\ job.dst = 0 => job.cmd = "usb"

(* An upgrade comes to its switch only when kernel and rootfs are both     *)
(* complete, be it in the cache, and of the version asked for.             *)
SwitchComplete ==
  job.cmd \in {"upgrade", "auto"} /\ job.stage = "switch" =>
    \A obj \in Objs : disk[job.dst][obj] = job.version

(* Whatever was torn, a firmware starts in the end, unless what a usb      *)
(* upgrade wrote to the firmware that repairs the others was cut short or  *)
(* lost.                                                                   *)
ComesUp == []<>(machine.report = "ok" \/ ~ Intact(0))
=============================================================================
