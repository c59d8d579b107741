----------------------------- MODULE BootControl -----------------------------
(***************************************************************************)
(* The A/B slot metadata of boot_control/boot_control.cpp and its users:   *)
(* update_verifier, which marks the slot it runs from when its blocks can  *)
(* be read, Set_Active_Slot and Repack_Images of the recovery, and, both   *)
(* external, the bootloader that chooses a slot and the engine that writes *)
(* an update to a slot that is not running.                                *)
(*                                                                         *)
(* A call of the HAL loads the block of the misc partition, changes it and *)
(* writes it back.  The service runs one call at a time (its binder pool   *)
(* has one thread), but power may go at any time, a write may stop after   *)
(* any prefix of the block, and only the first load of a process looks at  *)
(* the checksum.                                                           *)
(***************************************************************************)
EXTENDS Integers, FiniteSets, FiniteSetsExt

CONSTANTS
  Existing,    \* the slots for which a "boot" partition exists
  Pairs,       \* partition/range pairs of a care map
  Groups,      \* threads read_blocks starts for a partition
  kDefaultBootAttempts, kActiveTries, \* 7 and 6 in the code
  Avb,         \* BOARD_AVB_ENABLE
  Flaws,       \* the sets of unreadable cells an image may have
  Modes,       \* values of ro.boot.veritymode
  CareMaps,    \* care maps an update may come with
  MaxMishaps,  \* bound on power losses and failed reads
  MaxTorn      \* bound on writes of the block that fail

kMaxNumSlots == 4
AllSlots == 0..(kMaxNumSlots - 1)

ASSUME SlotsAssumption == Existing \subseteq AllSlots /\ Existing # {}
Cells == (1..Pairs) \X (1..Groups)

ASSUME BoundsAssumption ==
  /\ Pairs \in 1..3 /\ Groups \in Nat \ {0} /\ Avb \in BOOLEAN
  /\ kDefaultBootAttempts \in 1..7 /\ kActiveTries \in 1..7
  /\ {} \in Flaws /\ Flaws \subseteq SUBSET Cells
  /\ Modes \subseteq {"enforcing", "eio", "disabled", "", "logging"}
  /\ "missing" \in CareMaps
  /\ CareMaps \subseteq {"missing", "unreadable", "invalid", "legacy", "ranges"}
  /\ MaxMishaps \in Nat /\ MaxTorn \in Nat

VARIABLES
  misc,        \* the block on disk: checksum right?, slot_info
  image,       \* unreadable cells of each slot's partitions
  waived,      \* slots the code marks successful without reading them
  verity_mode, care_map,
  phase,       \* where the boot is
  cur,         \* ro.boot.slot_suffix of this boot
  num_slots,   \* of this process's HAL module; 0 until it is initialized
  pair, reads, \* update_verifier: pair being read, result of each thread
  engine, target, \* external: the engine's step and the slot it writes
  display,     \* Active_Slot_Display
  want, repack,\* argument of Set_Active_Slot; the slot Repack_Images returns to
  shown,       \* whether the recovery's last switch of slots took effect
  settled,     \* slot marked since the metadata was last changed otherwise
  mishaps, torn

verifier == <<pair, reads>>
recovery == <<display, want, repack, shown>>
disk     == <<misc, image, waived, care_map>>
vars == <<disk, verity_mode, phase, cur, num_slots, verifier, engine, target, recovery, settled,
          mishaps, torn>>

NoSlot == -1
Damaged == -2   \* a write failed since a slot was last activated
slot_metadata == [priority : 0..15, tries : 0..7, successful : BOOLEAN]

Phases == {"off", "init", "ask", "open", "read", "mark", "skip", "reboot", "up",
           "recovery", "switch", "set"}

TypeOK ==
  /\ misc \in [crc : BOOLEAN, slot_info : [AllSlots -> slot_metadata]]
  /\ image \in [Existing -> Flaws] /\ waived \subseteq Existing
  /\ verity_mode \in Modes /\ care_map \in CareMaps
  /\ phase \in Phases /\ cur \in Existing
  /\ num_slots \in 0..kMaxNumSlots
  /\ pair \in 1..Pairs /\ reads \in [1..Groups -> {"running", "ok", "failed"}]
  /\ engine \in {"idle", "unbootable", "write", "activate"} /\ target \in Existing
  /\ display \in Existing /\ want \in Existing /\ repack \in Existing \cup {NoSlot}
  /\ shown \in {"asbooted", "ok", "failed"}
  /\ settled \in Existing \cup {NoSlot, Damaged}
  /\ mishaps \in 0..MaxMishaps /\ torn \in 0..MaxTorn

-----------------------------------------------------------------------------
(* The metadata                                                            *)

\* The number of slots is believed only when the existing ones are 0..n-1;
\* otherwise it is the maximum the header supports.
NbSlot ==
  IF \E n \in 1..kMaxNumSlots : Existing = 0..(n - 1)
    THEN Cardinality(Existing) ELSE kMaxNumSlots

\* Mutant: the tries are left at zero.
InitDefaultBootloaderControl_NoTries(c) ==
  [s \in AllSlots |-> [priority |-> IF s < NbSlot THEN 7 ELSE 0, tries |-> 0, successful |-> s = c]]

InitDefaultBootloaderControl(c) ==
  [s \in AllSlots |-> [priority |-> IF s < NbSlot THEN 7 ELSE 0,
                       tries |-> IF s < NbSlot THEN kDefaultBootAttempts ELSE 0,
                       successful |-> s = c]]

\* Mutant: a slot that succeeds in its last attempt keeps no try.
MarkBootSuccessful_NoTry(info) == [info EXCEPT ![cur].successful = TRUE]

MarkBootSuccessful(info) ==
  [info EXCEPT ![cur].successful = TRUE, ![cur].tries = 1]

kActivePriority == 15

\* Mutant: the other slots keep their priority.
SetActiveBootSlot_NoLower(info, slot) ==
  [info EXCEPT ![slot].priority = kActivePriority, ![slot].tries = kActiveTries]

SetActiveBootSlot(info, slot) ==
  [s \in AllSlots |->
     IF s = slot
       THEN [info[s] EXCEPT !.priority = kActivePriority, !.tries = kActiveTries]
     ELSE IF s < num_slots /\ info[s].priority >= kActivePriority
       THEN [info[s] EXCEPT !.priority = kActivePriority - 1]
     ELSE info[s]]

SetSlotAsUnbootable(info, slot) ==
  [info EXCEPT ![slot].successful = FALSE, ![slot].tries = 0]

IsSlotMarkedSuccessful(s) == misc.slot_info[s].successful /\ misc.slot_info[s].tries > 0

Mishap == mishaps < MaxMishaps /\ mishaps' = mishaps + 1 /\ UNCHANGED torn
NoMishap == UNCHANGED <<mishaps, torn>>

\* UpdateAndSaveBootloaderControl succeeds.
Saved(new) == misc' = [crc |-> TRUE, slot_info |-> new] /\ NoMishap

\* LoadBootloaderControl fails (nothing is written), or the write stops after
\* the entries below k, under a checksum that no longer fits.
NotSaved(new) ==
  /\ torn < MaxTorn /\ torn' = torn + 1 /\ UNCHANGED mishaps
  /\ settled' = Damaged
  /\ \E k \in 0..kMaxNumSlots :
       LET mixed == [s \in AllSlots |-> IF s < k THEN new[s] ELSE misc.slot_info[s]]
       IN  misc' = [crc |-> misc.crc /\ mixed = misc.slot_info, slot_info |-> mixed]

\* The slot that runs gets its mark without having been read.
Waive == IF misc'.slot_info[cur].successful /\ ~misc.slot_info[cur].successful
           THEN waived \cup {cur} ELSE waived

-----------------------------------------------------------------------------
(* External: the bootloader                                                *)

Bootable == {s \in Existing : misc.slot_info[s].priority > 0 /\ misc.slot_info[s].tries > 0}

\* The bootable slots of the highest priority; any slot when the block is corrupt.
Choice ==
  IF misc.crc
    THEN {s \in Bootable : \A t \in Bootable :
            misc.slot_info[t].priority <= misc.slot_info[s].priority}
    ELSE Existing

Init ==
  /\ \E c \in Existing :
       /\ cur = c /\ display = c /\ want = c /\ settled = c /\ target = c
       /\ misc = [crc |-> TRUE,
                  slot_info |-> [InitDefaultBootloaderControl(c) EXCEPT
                                   ![c].priority = kActivePriority, ![c].tries = 1]]
       /\ image \in {f \in [Existing -> Flaws] : f[c] = {}}
  /\ waived = {}
  /\ verity_mode \in Modes /\ care_map = "missing"
  /\ phase = "off" /\ num_slots = 0
  /\ pair = 1 /\ reads = [g \in 1..Groups |-> "running"]
  /\ engine = "idle" /\ repack = NoSlot /\ shown = "asbooted"
  /\ mishaps = 0 /\ torn = 0

\* A slot that has not been marked uses up one try with each boot.
BootSystem ==
  /\ phase = "off" /\ phase' = "init"
  /\ \E s \in Choice :
       /\ cur' = s
       /\ misc' = IF misc.crc /\ ~misc.slot_info[s].successful
                    THEN [misc EXCEPT !.slot_info[s].tries = @ - 1] ELSE misc
  /\ UNCHANGED <<image, waived, care_map, verity_mode, num_slots, verifier, engine, target,
                 recovery, settled, mishaps, torn>>

\* The recovery's partition manager takes the slot from ro.boot.slot_suffix.
BootRecovery ==
  /\ phase = "off" /\ phase' = "recovery"
  /\ \E s \in Choice : cur' = s /\ display' = s /\ want' = s
  /\ UNCHANGED <<disk, verity_mode, num_slots, verifier, engine, target, repack, shown, settled,
                 mishaps, torn>>

-----------------------------------------------------------------------------
(* BootControl_init                                                        *)

\* Once per process.  A block with a wrong checksum is replaced, and the slot
\* that runs is then assumed to be successful; the result of that write is
\* ignored.
LazyInitialization(next) ==
  /\ phase' = next
  /\ \/ /\ num_slots # 0
        /\ UNCHANGED <<misc, waived, num_slots, settled, mishaps, torn>>
     \/ /\ num_slots = 0 /\ Mishap
        /\ UNCHANGED <<misc, waived, num_slots, settled>>
     \/ /\ num_slots = 0 /\ num_slots' = NbSlot
        /\ IF misc.crc
             THEN UNCHANGED <<misc, waived, settled, mishaps, torn>>
             ELSE LET new == InitDefaultBootloaderControl(cur) IN
                  /\ (Saved(new) /\ UNCHANGED settled) \/ NotSaved(new)
                  /\ waived' = Waive

HalStarts ==
  /\ phase = "init"
  /\ LazyInitialization("ask")
  /\ UNCHANGED <<image, care_map, verity_mode, cur, verifier, engine, target, recovery>>

-----------------------------------------------------------------------------
(* update_verifier                                                         *)

StartReads == reads' = [g \in 1..Groups |-> "running"]

\* Mutant: a slot that is marked is verified again.
AskSuccessful_Always ==
  /\ phase = "ask" /\ NoMishap
  /\ phase' = CASE verity_mode = "disabled" -> "skip"
                [] verity_mode = "" -> IF Avb THEN "skip" ELSE "reboot"
                [] verity_mode \in {"eio", "enforcing"} -> "open"
                [] OTHER -> "reboot"
  /\ UNCHANGED <<disk, verity_mode, cur, num_slots, verifier, engine, target, recovery, settled>>

\* BoolResult::FALSE is the only answer that makes it verify; an error (the
\* slot number is out of range of an uninitialized module, or the load fails)
\* is answered INVALID_SLOT.
AskSuccessful ==
  /\ phase = "ask"
  /\ \/ /\ num_slots # 0 /\ ~IsSlotMarkedSuccessful(cur) /\ NoMishap
        /\ phase' = CASE verity_mode = "disabled" -> "skip"
                      [] verity_mode = "" -> IF Avb THEN "skip" ELSE "reboot"
                      [] verity_mode \in {"eio", "enforcing"} -> "open"
                      [] OTHER -> "reboot"
     \/ /\ num_slots # 0 /\ IsSlotMarkedSuccessful(cur) /\ NoMishap
        /\ phase' = "up"
     \/ /\ IF num_slots = 0 THEN NoMishap ELSE Mishap
        /\ phase' = "up"
  /\ UNCHANGED <<disk, verity_mode, cur, num_slots, verifier, engine, target, recovery, settled>>

\* verify_image: without a care map, or with one of an old release, the slot
\* passes unread.
OpenCareMap ==
  /\ phase = "open"
  /\ phase' = CASE care_map \in {"missing", "legacy"} -> "skip"
                [] care_map = "ranges" -> "read"
                [] OTHER -> "reboot"
  /\ pair' = 1 /\ StartReads
  /\ UNCHANGED <<disk, verity_mode, cur, num_slots, engine, target, recovery, settled, mishaps, torn>>

\* A thread of read_blocks reads its group of blocks.
ReadGroup(g) ==
  /\ phase = "read" /\ reads[g] = "running"
  /\ \/ /\ <<pair, g>> \notin image[cur] /\ NoMishap
        /\ reads' = [reads EXCEPT ![g] = "ok"]
     \/ /\ IF <<pair, g>> \in image[cur] THEN NoMishap ELSE Mishap
        /\ reads' = [reads EXCEPT ![g] = "failed"]
  /\ UNCHANGED <<disk, verity_mode, phase, cur, num_slots, pair, engine, target, recovery, settled>>

\* Mutant: only the first thread's result counts.
ReadOk_First == reads[1] = "ok"

\* ret = t.get() && ret, over all threads.
ReadOk == \A g \in 1..Groups : reads[g] = "ok"

\* Mutant: one pair too many.
JoinReaders_Off ==
  /\ phase = "read" /\ \A g \in 1..Groups : reads[g] # "running"
  /\ IF ReadOk /\ pair <= Pairs
       THEN pair' = pair + 1 /\ StartReads /\ UNCHANGED phase
       ELSE phase' = (IF ReadOk THEN "mark" ELSE "reboot") /\ UNCHANGED verifier
  /\ UNCHANGED <<disk, verity_mode, cur, num_slots, engine, target, recovery, settled, mishaps, torn>>

JoinReaders ==
  /\ phase = "read" /\ \A g \in 1..Groups : reads[g] # "running"
  /\ IF ReadOk /\ pair < Pairs
       THEN pair' = pair + 1 /\ StartReads /\ UNCHANGED phase
       ELSE phase' = (IF ReadOk THEN "mark" ELSE "reboot") /\ UNCHANGED verifier
  /\ UNCHANGED <<disk, verity_mode, cur, num_slots, engine, target, recovery, settled, mishaps, torn>>

MarkSuccessful ==
  /\ phase \in {"mark", "skip"}
  /\ LET new == MarkBootSuccessful(misc.slot_info) IN
       \/ Saved(new) /\ phase' = "up" /\ settled' = IF settled = Damaged THEN Damaged ELSE cur
       \/ NotSaved(new) /\ phase' = "reboot"
  /\ waived' = IF phase = "skip" THEN Waive ELSE waived
  /\ UNCHANGED <<image, care_map, verity_mode, cur, num_slots, verifier, engine, target, recovery>>

-----------------------------------------------------------------------------
(* External: the update engine.  It starts only from a slot that is marked *)
(* and takes the target out of use before it writes to it.                 *)

EngineStarts ==
  /\ phase = "up" /\ engine = "idle" /\ num_slots # 0 /\ IsSlotMarkedSuccessful(cur)
  /\ \E t \in Existing \ {cur} : target' = t
  /\ engine' = "unbootable"
  /\ UNCHANGED <<disk, verity_mode, phase, cur, num_slots, verifier, recovery, settled, mishaps, torn>>

EngineUnbootable ==
  /\ phase = "up" /\ engine = "unbootable"
  /\ LET new == SetSlotAsUnbootable(misc.slot_info, target) IN
       \/ Saved(new) /\ engine' = "write" /\ settled' = IF settled = target THEN NoSlot ELSE settled
       \/ NotSaved(new) /\ engine' = "idle"
  /\ UNCHANGED <<image, waived, care_map, verity_mode, phase, cur, num_slots, verifier, target,
                 recovery>>

EngineWrites ==
  /\ phase = "up" /\ engine = "write"
  /\ \E f \in Flaws : image' = [image EXCEPT ![target] = f]
  /\ care_map' \in CareMaps
  /\ waived' = waived \ {target}
  /\ engine' \in {"write", "activate"}
  /\ UNCHANGED <<misc, verity_mode, phase, cur, num_slots, verifier, target, recovery, settled,
                 mishaps, torn>>

EngineActivates ==
  /\ phase = "up" /\ engine = "activate"
  /\ LET new == SetActiveBootSlot(misc.slot_info, target) IN
       (Saved(new) /\ settled' = NoSlot) \/ NotSaved(new)
  /\ engine' = "idle"
  /\ UNCHANGED <<image, waived, care_map, verity_mode, phase, cur, num_slots, verifier, target,
                 recovery>>

-----------------------------------------------------------------------------
(* The recovery: Set_Active_Slot and its callers                           *)

\* Names other than A and B are refused; the slot shown is not set again.
Switch(s) ==
  /\ s \in {0, 1} /\ display # s
  /\ want' = s /\ phase' = "switch"

UserSwitches ==
  /\ phase = "recovery" /\ repack = NoSlot
  /\ \E s \in Existing : Switch(s)
  /\ UNCHANGED <<disk, verity_mode, cur, num_slots, verifier, engine, target, display, repack,
                 shown, settled, mishaps, torn>>

\* Repack_Images flashes the other slot's boot partition too.
RepackSwitches ==
  /\ phase = "recovery" /\ repack = NoSlot
  /\ repack' = display
  /\ \E s \in Existing : Switch(s)
  /\ UNCHANGED <<disk, verity_mode, cur, num_slots, verifier, engine, target, display, shown,
                 settled, mishaps, torn>>

\* It returns to Current_Slot at its end, but not on its error returns.
RepackEnds ==
  /\ phase = "recovery" /\ repack # NoSlot
  /\ repack' = NoSlot
  /\ \/ Switch(repack)
     \/ UNCHANGED <<want, phase>>
  /\ UNCHANGED <<disk, verity_mode, cur, num_slots, verifier, engine, target, display, shown,
                 settled, mishaps, torn>>

SwitchInit ==
  /\ phase = "switch"
  /\ LazyInitialization("set")
  /\ UNCHANGED <<image, care_map, verity_mode, cur, verifier, engine, target, recovery>>

\* The slot is shown as active even when the HAL refuses it.
SwitchSet ==
  /\ phase = "set" /\ phase' = "recovery"
  /\ display' = want
  /\ \/ /\ want >= num_slots
        /\ shown' = "failed" /\ UNCHANGED <<misc, settled, mishaps, torn>>
     \/ /\ want < num_slots
        /\ LET new == SetActiveBootSlot(misc.slot_info, want) IN
             \/ Saved(new) /\ shown' = "ok" /\ settled' = NoSlot
             \/ NotSaved(new) /\ shown' = "failed"
  /\ UNCHANGED <<image, waived, care_map, verity_mode, cur, num_slots, verifier, engine, target,
                 want, repack>>

-----------------------------------------------------------------------------
\* The processes are gone with their memory.
Off ==
  /\ phase' = "off" /\ num_slots' = 0 /\ pair' = 1 /\ StartReads
  /\ engine' = "idle" /\ target' = cur
  /\ display' = cur /\ want' = cur /\ repack' = NoSlot /\ shown' = "asbooted"
  /\ UNCHANGED <<disk, verity_mode, cur, settled>>

\* reboot_device of update_verifier.
RebootDevice == phase = "reboot" /\ Off /\ NoMishap

UserReboots == phase \in {"up", "recovery"} /\ Off /\ NoMishap

PowerLoss == phase # "off" /\ Off /\ Mishap

BootStep == \/ BootSystem \/ HalStarts \/ AskSuccessful \/ OpenCareMap
            \/ (\E g \in 1..Groups : ReadGroup(g)) \/ JoinReaders \/ MarkSuccessful
            \/ RebootDevice

Next == \/ BootStep \/ BootRecovery
        \/ EngineStarts \/ EngineUnbootable \/ EngineWrites \/ EngineActivates
        \/ UserSwitches \/ RepackSwitches \/ RepackEnds \/ SwitchInit \/ SwitchSet
        \/ UserReboots \/ PowerLoss

\* Every step of a boot that has begun is taken; users, the engine and power
\* losses owe nothing.
Spec == Init /\ [][Next]_vars /\ WF_vars(BootStep)

-----------------------------------------------------------------------------
\* A slot that counts as successful was read without error by update_verifier
\* since its image was written, or the code says why it need not be: whatever
\* is torn, lost or re-initialized, no update inherits its predecessor's mark.
SuccessfulIsChecked ==
  \A s \in Existing : IsSlotMarkedSuccessful(s) => image[s] = {} \/ s \in waived

\* As long as the block is not corrupt, the bootloader has a slot to boot whose
\* image is good (or was waived): failed updates use up the tries of the new
\* slot and never those of the old one.
NeverStranded ==
  misc.crc => \E s \in Bootable : image[s] = {} \/ s \in waived

\* The slot update_verifier has marked is the one the next boot starts from,
\* even if it was marked in its last attempt, until someone activates a slot,
\* takes this one out of use or a torn write damages the block (then nothing is
\* promised until a slot is activated).
MarkedIsNext ==
  phase = "off" /\ settled \in Existing => settled \in Choice

\* After a successful Set_Active_Slot the recovery shows the slot that the
\* bootloader will choose, and it can choose no other.
SlotShownIsNext ==
  phase = "recovery" /\ shown = "ok" => Choice = {display}

\* A device that is switched on comes up (or is in the recovery), however bad
\* the images: a slot that fails is given up after its tries.
ComesUp == phase = "off" ~> phase \in {"up", "recovery"}
=============================================================================
