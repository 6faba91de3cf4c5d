-------------------------------- MODULE Benv --------------------------------
(***************************************************************************)
(* The block of the boot environment (src/lib/benv, src/lib/weos/boot)     *)
(* that describes the firmwares of the device, and how the boot loader and *)
(* the tool sys choose among them.  A firmware is a kernel and a rootfs;   *)
(* firmware 0 is the one that repairs the others.                          *)
(***************************************************************************)
EXTENDS Integers

CONSTANTS Count,    \* PRODUCT_FIRMWARE_COUNT
          Trys,     \* BENV_TRYS: boots in vain that make an object bad
          Versions  \* versions of kernels and rootfses, as ordered as numbers

ASSUME CountAssumption == Count \in Nat /\ Count > 2
ASSUME TrysAssumption == Trys \in Nat \ {0}
ASSUME VersionsAssumption == Versions \subseteq Nat \ {0}

Firmwares == 0 .. Count - 1
Normals == Firmwares \ {0}
Objs == {"rootfs", "kernel"}

-----------------------------------------------------------------------------
(* The states of a benv_vcs_t are ordered: fail < unknow < ok.             *)

FAIL == 0
UNKNOW == 1
OK == 2
Fsm == {FAIL, UNKNOW, OK}

(* error counts to Trys: what it counts beyond makes no difference.        *)
Vcs == [upgrade : Fsm, other : Fsm, self : Fsm,
        error : 0 .. Trys, version : Versions]

Os == [current : Firmwares, vcs : [Firmwares -> [Objs -> Vcs]]]

(* A failed self is traced, and makes nothing bad.                         *)
is_benv_good_vcs(x) == x.error < Trys /\ x.upgrade = OK

is_benv_good_obj(os, obj, f) == is_benv_good_vcs(os.vcs[f][obj])

is_benv_good_firmware(os, f) == \A obj \in Objs : is_benv_good_obj(os, obj, f)

(* An object is compared by these, the first that differs decides.         *)
Rank(x) == <<IF is_benv_good_vcs(x) THEN 1 ELSE 0, x.version,
             IF x.error < Trys THEN 1 ELSE 0, x.upgrade, x.other, x.self>>

Before(k, l) ==
  \E i \in DOMAIN k : k[i] < l[i] /\ \A j \in 1 .. i - 1 : k[j] = l[j]

benv_vcs_less(x, y) == Before(Rank(x), Rank(y))

benv_rootfs_less(os, f, g) ==
  benv_vcs_less(os.vcs[f]["rootfs"], os.vcs[g]["rootfs"])

(* A firmware is compared by its rootfs first.                             *)
benv_firmware_less(os, f, g) ==
  \/ benv_rootfs_less(os, f, g)
  \/ /\ ~ benv_rootfs_less(os, g, f)
     /\ benv_vcs_less(os.vcs[f]["kernel"], os.vcs[g]["kernel"])

-----------------------------------------------------------------------------
(* Choices: the set of what may be chosen, empty for -ENOEXIST.  Firmware  *)
(* 0 is never a candidate.  Which of several equal ones comes first in the *)
(* sort depends on its exchanges: any of them may.                         *)

benv_skips(os, f) == {0, os.current, f}

GoodRootfs(os, skips) ==
  {f \in Normals \ skips : is_benv_good_obj(os, "rootfs", f)}

GoodFirmware(os, skips) ==
  {f \in Normals \ skips : is_benv_good_firmware(os, f)}

BestRootfs(os, skips) ==
  {f \in GoodRootfs(os, skips) :
     \A g \in GoodRootfs(os, skips) : ~ benv_rootfs_less(os, f, g)}

BestFirmware(os, skips) ==
  {f \in GoodFirmware(os, skips) :
     \A g \in GoodFirmware(os, skips) : ~ benv_firmware_less(os, f, g)}

WorstRootfs(os, skips) ==
  {f \in Normals \ skips :
     \A g \in Normals \ skips : ~ benv_rootfs_less(os, g, f)}

First(S) == {f \in S : \A g \in S : f <= g}

HasVersion(os, obj, f, v) == os.vcs[f][obj].version = v

benv_find_first_good_byversion(os, v, skips) ==
  First({f \in GoodRootfs(os, skips) : HasVersion(os, "rootfs", f, v)})

benv_find_first_byversion(os, v, skips) ==
  First({f \in Normals \ skips : HasVersion(os, "rootfs", f, v)})

(* The version of a firmware is that of its rootfs.                        *)
benv_find_first_good_buddy(os, f, skips) ==
  First({g \in GoodFirmware(os, skips \cup {f}) :
           HasVersion(os, "rootfs", g, os.vcs[f]["rootfs"].version)})

-----------------------------------------------------------------------------
(* Changes.                                                                *)

Set(os, f, obj, x) == [os EXCEPT !.vcs[f][obj] = x]

\* Mutant: the mark of the last write is kept.
InitKeepUpgrade(os, f, obj, v) ==
  Set(os, f, obj, [os.vcs[f][obj] EXCEPT !.error = 0, !.version = v])

(* What is about to be written is not known to be good.                    *)
upgrade_init(os, f, obj, v) ==
  Set(os, f, obj, [upgrade |-> UNKNOW, other |-> UNKNOW, self |-> UNKNOW,
                   error |-> 0, version |-> v])

sys_upgrade_init(os, f, v) ==
  upgrade_init(upgrade_init(os, f, "rootfs", v), f, "kernel", v)

efsm(err) == IF err THEN FAIL ELSE OK

Written(os, f, obj, err) ==
  [os EXCEPT !.vcs[f][obj].upgrade = efsm(err)]

sys_switch_to(os, f) ==
  [os EXCEPT !.current = f,
             !.vcs[f] = [obj \in Objs |->
                           [os.vcs[f][obj] EXCEPT !.error = 0,
                                                  !.upgrade = OK,
                                                  !.self = UNKNOW]]]

\* Mutant: the loader counts no boot.
NotCounted(os, f) == [os EXCEPT !.current = f]

(* The loader counts a boot until the firmware reports that it has started. *)
Tried(x) == [x EXCEPT !.error = IF x.error < Trys THEN x.error + 1 ELSE x.error]

Counted(os, f) ==
  [os EXCEPT !.current = f,
             !.vcs[f] = [obj \in Objs |-> Tried(os.vcs[f][obj])]]

(* The current firmware, or one with its version, or the best, or 0.       *)
benv_select(os) ==
  LET skips == benv_skips(os, 0)
      buddy == benv_find_first_good_buddy(os, os.current, skips)
      best == BestFirmware(os, skips)
  IN  IF is_benv_good_firmware(os, os.current) THEN {os.current}
      ELSE IF buddy # {} THEN buddy
      ELSE IF best # {} THEN best
      ELSE {0}

(* An object of the firmware that has started; others of its version are   *)
(* told so, unless it said so before.                                      *)
OtherOk(os, f, obj, g) ==
  /\ os.vcs[f][obj].self = UNKNOW
  /\ g \in Normals \ benv_skips(os, f)
  /\ is_benv_good_obj(os, obj, g)
  /\ HasVersion(os, obj, g, os.vcs[f][obj].version)

normal_startup(os, f) ==
  [os EXCEPT !.vcs =
     [g \in Firmwares |->
        [obj \in Objs |->
           IF g = f THEN [os.vcs[g][obj] EXCEPT !.error = 0, !.self = OK]
           ELSE IF OtherOk(os, f, obj, g)
             THEN [os.vcs[g][obj] EXCEPT !.other = OK]
           ELSE os.vcs[g][obj]]]]

(* error = 3, which is BENV_TRYS.                                          *)
fail_startup(os, f) ==
  [os EXCEPT !.vcs[f] = [obj \in Objs |->
                           [os.vcs[f][obj] EXCEPT !.error = Trys,
                                                  !.self = UNKNOW]]]
=============================================================================
