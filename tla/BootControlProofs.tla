-------------------------- MODULE BootControlProofs --------------------------
(***************************************************************************)
(* Proofs about BootControl, for any slots the device has, any number of   *)
(* partitions and readers and any images: the types, that a mark of success*)
(* is never inherited, that a marked slot is the next one, that the        *)
(* recovery shows the slot that will boot, and that, after at most one torn*)
(* write, there is always a slot to boot.                                  *)
(***************************************************************************)
EXTENDS BootControl, FiniteSetTheorems, TLAPS

-----------------------------------------------------------------------------
(* The slots                                                               *)

LEMMA SlotNumbers == AllSlots = {0, 1, 2, 3} /\ \A s \in Existing : s \in AllSlots
  BY SlotsAssumption DEF AllSlots, kMaxNumSlots

LEMMA Tries == kDefaultBootAttempts \in 1..7 /\ kActiveTries \in 1..7
  BY BoundsAssumption

LEMMA PairNumbers == Pairs \in 1..3
  BY BoundsAssumption

LEMMA MishapBounds == MaxMishaps \in Nat /\ MaxTorn \in Nat
  BY BoundsAssumption

LEMMA NoCareMap == "missing" \in CareMaps
  BY BoundsAssumption

\* Every slot that exists has a number the HAL accepts.
LEMMA SlotsAreNumbered == NbSlot \in 1..kMaxNumSlots /\ \A s \in Existing : s < NbSlot
<1>1. ASSUME NEW n \in 1..kMaxNumSlots, Existing = 0..(n - 1)
      PROVE  NbSlot = n /\ \A s \in Existing : s < n
  <2>1. n \in 1..4
    BY DEF kMaxNumSlots
  <2>2. n - 1 \in Int /\ 0 \in Int /\ ~(0 > n - 1)
    BY <2>1
  <2>3. Cardinality(0..(n - 1)) = (n - 1) - 0 + 1
    BY <2>2, FS_Interval
  <2>4. Cardinality(Existing) = n
    BY <1>1, <2>1, <2>3
  <2> QED BY <1>1, <2>1, <2>4 DEF NbSlot
<1>2. ASSUME ~\E n \in 1..kMaxNumSlots : Existing = 0..(n - 1)
      PROVE  NbSlot = 4 /\ \A s \in Existing : s < 4
  BY <1>2, SlotNumbers DEF NbSlot, kMaxNumSlots
<1> QED BY <1>1, <1>2 DEF kMaxNumSlots

-----------------------------------------------------------------------------
(* What the calls of the HAL do to the metadata                            *)

Metadata == [AllSlots -> slot_metadata]

LEMMA SlotRecord ==
  ASSUME NEW p \in 0..15, NEW t \in 0..7, NEW b \in BOOLEAN
  PROVE  [priority |-> p, tries |-> t, successful |-> b] \in slot_metadata
  BY DEF slot_metadata

LEMMA InfoUpdates ==
  ASSUME NEW info \in Metadata, NEW slot \in AllSlots, NEW t \in 0..7, NEW b \in BOOLEAN
  PROVE  [info EXCEPT ![slot].successful = b, ![slot].tries = t] \in Metadata
  BY DEF Metadata, slot_metadata

LEMMA InfoActive ==
  ASSUME NEW info \in Metadata, NEW slot \in AllSlots, NEW p \in 0..15, NEW t \in 0..7
  PROVE  [info EXCEPT ![slot].priority = p, ![slot].tries = t] \in Metadata
  BY DEF Metadata, slot_metadata

LEMMA InitDefaultFacts ==
  ASSUME NEW c \in Existing
  PROVE  /\ InitDefaultBootloaderControl(c) \in Metadata
         /\ \A s \in AllSlots : InitDefaultBootloaderControl(c)[s].successful <=> s = c
         /\ \A s \in Existing : /\ InitDefaultBootloaderControl(c)[s].priority = 7
                                /\ InitDefaultBootloaderControl(c)[s].tries > 0
<1> DEFINE I == InitDefaultBootloaderControl(c)
<1>1. \A s \in AllSlots :
         [priority |-> IF s < NbSlot THEN 7 ELSE 0, tries |-> IF s < NbSlot THEN kDefaultBootAttempts ELSE 0,
          successful |-> s = c] \in slot_metadata
  <2> TAKE s \in AllSlots
  <2>1. (IF s < NbSlot THEN 7 ELSE 0) \in 0..15
    OBVIOUS
  <2>2. (IF s < NbSlot THEN kDefaultBootAttempts ELSE 0) \in 0..7
    BY Tries
  <2>3. (s = c) \in BOOLEAN
    BY Zenon
  <2> QED BY <2>1, <2>2, <2>3, SlotRecord, Zenon
<1>2. I \in Metadata
  BY <1>1, Zenon DEF InitDefaultBootloaderControl, Metadata
<1>3. \A s \in AllSlots : I[s].successful = (s = c)
  BY Zenon DEF InitDefaultBootloaderControl
<1>4. \A s \in Existing : I[s].priority = 7 /\ I[s].tries > 0
  BY SlotsAreNumbered, SlotNumbers, Tries DEF InitDefaultBootloaderControl
<1> QED BY <1>2, <1>3, <1>4

LEMMA MarkFacts ==
  ASSUME NEW info \in Metadata, cur \in AllSlots
  PROVE  /\ MarkBootSuccessful(info) \in Metadata
         /\ \A s \in AllSlots : s # cur => MarkBootSuccessful(info)[s] = info[s]
         /\ MarkBootSuccessful(info)[cur].successful
         /\ MarkBootSuccessful(info)[cur].tries = 1
         /\ MarkBootSuccessful(info)[cur].priority = info[cur].priority
<1>1. TRUE \in BOOLEAN /\ 1 \in 0..7
  OBVIOUS
<1>2. MarkBootSuccessful(info) \in Metadata
  BY <1>1, InfoUpdates, Zenon DEF MarkBootSuccessful
<1> QED BY <1>2 DEF MarkBootSuccessful, Metadata, slot_metadata

LEMMA UnbootableFacts ==
  ASSUME NEW info \in Metadata, NEW slot \in AllSlots
  PROVE  /\ SetSlotAsUnbootable(info, slot) \in Metadata
         /\ \A s \in AllSlots : s # slot => SetSlotAsUnbootable(info, slot)[s] = info[s]
         /\ ~SetSlotAsUnbootable(info, slot)[slot].successful
         /\ SetSlotAsUnbootable(info, slot)[slot].tries = 0
         /\ SetSlotAsUnbootable(info, slot)[slot].priority = info[slot].priority
<1>1. FALSE \in BOOLEAN /\ 0 \in 0..7
  OBVIOUS
<1>2. SetSlotAsUnbootable(info, slot) \in Metadata
  BY <1>1, InfoUpdates, Zenon DEF SetSlotAsUnbootable
<1> QED BY <1>2 DEF SetSlotAsUnbootable, Metadata, slot_metadata

LEMMA ActiveFacts ==
  ASSUME NEW info \in Metadata, NEW slot \in AllSlots
  PROVE  /\ SetActiveBootSlot(info, slot) \in Metadata
         /\ \A s \in AllSlots :
              SetActiveBootSlot(info, slot)[s].successful = info[s].successful
         /\ SetActiveBootSlot(info, slot)[slot].priority = 15
         /\ SetActiveBootSlot(info, slot)[slot].tries = kActiveTries
         /\ \A s \in AllSlots : s # slot =>
              /\ SetActiveBootSlot(info, slot)[s].tries = info[s].tries
              /\ info[s].priority > 0 => SetActiveBootSlot(info, slot)[s].priority > 0
              /\ s < num_slots => SetActiveBootSlot(info, slot)[s].priority <= 14
<1> DEFINE A == SetActiveBootSlot(info, slot)
<1>1. \A s \in AllSlots : info[s] \in slot_metadata
  BY DEF Metadata
<1>2. A[slot] = [info[slot] EXCEPT !.priority = 15, !.tries = kActiveTries]
  BY DEF SetActiveBootSlot, kActivePriority
<1>3. \A s \in AllSlots : s # slot =>
         A[s] = IF s < num_slots /\ info[s].priority >= 15 THEN [info[s] EXCEPT !.priority = 14] ELSE info[s]
  BY DEF SetActiveBootSlot, kActivePriority
<1>4. /\ A[slot] \in slot_metadata /\ A[slot].priority = 15 /\ A[slot].tries = kActiveTries
      /\ A[slot].successful = info[slot].successful
  <2>1. PICK p \in 0..15, t \in 0..7 : p = 15 /\ t = kActiveTries
    BY Tries
  <2>2. PICK r \in slot_metadata : r = info[slot]
    BY <1>1
  <2>3. A[slot] = [r EXCEPT !.priority = p, !.tries = t]
    BY <1>2, <2>1, <2>2
  <2> HIDE DEF A
  <2> QED BY <2>1, <2>2, <2>3 DEF slot_metadata
<1>5. ASSUME NEW s \in AllSlots, s # slot
      PROVE  /\ A[s] \in slot_metadata
             /\ A[s].tries = info[s].tries /\ A[s].successful = info[s].successful
             /\ info[s].priority > 0 => A[s].priority > 0
             /\ s < num_slots => A[s].priority <= 14
  <2>1. CASE s < num_slots /\ info[s].priority >= 15
    <3>1. A[s] = [info[s] EXCEPT !.priority = 14]
      BY <1>3, <1>5, <2>1
    <3>2. PICK p \in 0..15, t \in 0..7 : p = 14
      OBVIOUS
    <3>3. PICK r \in slot_metadata : r = info[s]
      BY <1>1
    <3>4. A[s] = [r EXCEPT !.priority = p]
      BY <3>1, <3>2, <3>3
    <3> HIDE DEF A
    <3> QED BY <3>2, <3>3, <3>4 DEF slot_metadata
  <2>2. CASE ~(s < num_slots /\ info[s].priority >= 15)
    <3>1. A[s] = info[s]
      BY <1>3, <1>5, <2>2
    <3>2. info[s].priority \in 0..15
      BY <1>1 DEF slot_metadata
    <3> QED BY <1>1, <2>2, <3>1, <3>2
  <2> QED BY <2>1, <2>2
<1>6. A \in Metadata
  BY <1>4, <1>5 DEF SetActiveBootSlot, Metadata
<1> QED BY <1>4, <1>5, <1>6

-----------------------------------------------------------------------------
(* Types                                                                   *)

\* The types, apart from the checksum and the counters of mishaps.
Types0 ==
  /\ misc.slot_info \in Metadata
  /\ image \in [Existing -> Flaws] /\ waived \subseteq Existing
  /\ verity_mode \in Modes /\ care_map \in CareMaps
  /\ phase \in Phases /\ cur \in Existing
  /\ num_slots \in {0, NbSlot}
  /\ pair \in 1..Pairs /\ reads \in [1..Groups -> {"running", "ok", "failed"}]
  /\ engine \in {"idle", "unbootable", "write", "activate"} /\ target \in Existing
  /\ display \in Existing /\ want \in Existing /\ repack \in Existing \cup {NoSlot}
  /\ shown \in {"asbooted", "ok", "failed"}
  /\ settled \in Existing \cup {NoSlot, Damaged}

\* The block on disk is a record of a checksum and the metadata.
BlockType == misc = [crc |-> misc.crc, slot_info |-> misc.slot_info] /\ misc.crc \in BOOLEAN

Counters == mishaps \in 0..MaxMishaps /\ torn \in 0..MaxTorn

\* A call that succeeds leaves what it has computed.
LEMMA SavedFacts ==
  ASSUME NEW new, Saved(new)
  PROVE  misc'.crc /\ misc'.slot_info = new /\ UNCHANGED <<mishaps, torn>>
  BY DEF Saved, NoMishap

\* One that fails leaves each slot as it was or as it was to be.
LEMMA NotSavedFacts ==
  ASSUME misc.slot_info \in Metadata, NEW new \in Metadata, NotSaved(new)
  PROVE  /\ misc'.slot_info \in Metadata
         /\ \A s \in AllSlots : misc'.slot_info[s] \in {new[s], misc.slot_info[s]}
         /\ settled' = Damaged /\ torn < MaxTorn /\ torn' = torn + 1 /\ mishaps' = mishaps
<1>1. PICK k \in 0..kMaxNumSlots :
         LET mixed == [s \in AllSlots |-> IF s < k THEN new[s] ELSE misc.slot_info[s]]
         IN  misc' = [crc |-> misc.crc /\ mixed = misc.slot_info, slot_info |-> mixed]
  BY DEF NotSaved
<1>2. misc'.slot_info = [s \in AllSlots |-> IF s < k THEN new[s] ELSE misc.slot_info[s]]
  BY <1>1
<1>3. misc'.slot_info \in Metadata
  BY <1>2 DEF Metadata
<1>4. \A s \in AllSlots : misc'.slot_info[s] \in {new[s], misc.slot_info[s]}
  BY <1>2
<1> QED BY <1>3, <1>4 DEF NotSaved

\* What a step may do to the block.
LEMMA BlockWritten ==
  ASSUME BlockType,
         \/ misc' = misc
         \/ \E new : Saved(new) \/ NotSaved(new)
         \/ \E s : misc' = [misc EXCEPT !.slot_info[s].tries = @ - 1]
  PROVE  BlockType'
<1>1. CASE misc' = misc
  BY <1>1 DEF BlockType
<1>2. ASSUME NEW new, Saved(new) PROVE BlockType'
  <2>1. misc' = [crc |-> TRUE, slot_info |-> new]
    BY <1>2 DEF Saved
  <2>2. misc'.crc = TRUE /\ misc'.slot_info = new
    BY <2>1, Zenon
  <2> QED BY <2>1, <2>2, Zenon DEF BlockType
<1>3. ASSUME NEW new, NotSaved(new) PROVE BlockType'
  <2>1. PICK mixed : misc' = [crc |-> misc.crc /\ mixed = misc.slot_info, slot_info |-> mixed]
    BY <1>3, Zenon DEF NotSaved
  <2>2. (misc.crc /\ mixed = misc.slot_info) \in BOOLEAN
    BY Zenon
  <2>3. PICK b \in BOOLEAN : misc' = [crc |-> b, slot_info |-> mixed]
    BY <2>1, <2>2, Zenon
  <2>4. misc'.crc = b /\ misc'.slot_info = mixed
    BY <2>3, Zenon
  <2> QED BY <2>3, <2>4, Zenon DEF BlockType
<1>4. ASSUME NEW s, misc' = [misc EXCEPT !.slot_info[s].tries = @ - 1] PROVE BlockType'
  <2>1. PICK c \in BOOLEAN : \E f : misc = [crc |-> c, slot_info |-> f]
    BY Zenon DEF BlockType
  <2>2. PICK g : misc' = [misc EXCEPT !.slot_info = g]
    BY <1>4
  <2>3. misc' = [crc |-> c, slot_info |-> g]
    BY <2>1, <2>2
  <2>4. misc'.crc = c /\ misc'.slot_info = g
    BY <2>3, Zenon
  <2> QED BY <2>3, <2>4, Zenon DEF BlockType
<1> QED BY <1>1, <1>2, <1>3, <1>4

\* A boot uses up a try of the slot and changes nothing else.
LEMMA TryFacts ==
  ASSUME BlockType, misc.slot_info \in Metadata, NEW s \in AllSlots,
         misc.slot_info[s].tries > 0, misc' = [misc EXCEPT !.slot_info[s].tries = @ - 1]
  PROVE  /\ misc'.slot_info \in Metadata /\ misc'.crc = misc.crc
         /\ \A t \in AllSlots : t # s => misc'.slot_info[t] = misc.slot_info[t]
         /\ misc'.slot_info[s].tries = misc.slot_info[s].tries - 1
         /\ misc'.slot_info[s].priority = misc.slot_info[s].priority
         /\ misc'.slot_info[s].successful = misc.slot_info[s].successful
<1>1. PICK c, f : misc = [crc |-> c, slot_info |-> f] /\ f \in Metadata /\ f[s].tries > 0
  BY DEF BlockType
<1>2. misc' = [crc |-> c, slot_info |-> [f EXCEPT ![s].tries = @ - 1]]
  BY <1>1
<1>3. misc'.slot_info = [f EXCEPT ![s].tries = @ - 1] /\ misc'.crc = c
  <2>1. PICK g : g = [f EXCEPT ![s].tries = @ - 1]
    OBVIOUS
  <2>2. misc' = [crc |-> c, slot_info |-> g]
    BY <1>2, <2>1
  <2>3. misc'.slot_info = g /\ misc'.crc = c
    BY ONLY <2>2, Zenon
  <2> QED BY <2>1, <2>3
<1>4. f[s] \in slot_metadata
  BY <1>1 DEF Metadata
<1>5. PICK r \in slot_metadata : r = [f[s] EXCEPT !.tries = @ - 1]
  <2>1. PICK q \in slot_metadata : q = f[s] /\ q.tries > 0
    BY <1>1, <1>4
  <2>2. q.tries - 1 \in 0..7
    BY <2>1 DEF slot_metadata
  <2>3. [q EXCEPT !.tries = @ - 1] \in slot_metadata
    BY <2>2 DEF slot_metadata
  <2> QED BY <2>1, <2>3
<1>6. misc'.slot_info = [f EXCEPT ![s] = r]
  BY <1>3, <1>5
<1>7. /\ misc'.slot_info \in Metadata /\ misc'.slot_info[s] = r
      /\ \A t \in AllSlots : t # s => misc'.slot_info[t] = f[t]
  BY <1>1, <1>6 DEF Metadata
<1>8. r.tries = f[s].tries - 1 /\ r.priority = f[s].priority /\ r.successful = f[s].successful
  BY <1>4, <1>5 DEF slot_metadata
<1> QED BY <1>1, <1>3, <1>7, <1>8

\* What a step of the initialization may do.
LEMMA InitializationFacts ==
  ASSUME Types0, NEW next, LazyInitialization(next)
  PROVE  /\ misc'.slot_info \in Metadata /\ phase' = next
         /\ waived' \subseteq Existing
         /\ num_slots' \in {0, NbSlot} /\ settled' \in {settled, Damaged}
         /\ \/ misc' = misc /\ UNCHANGED <<waived, settled>>
            \/ /\ ~misc.crc /\ num_slots = 0 /\ num_slots' = NbSlot /\ waived' = Waive
               /\ \/ Saved(InitDefaultBootloaderControl(cur)) /\ settled' = settled
                  \/ NotSaved(InitDefaultBootloaderControl(cur))
<1> DEFINE new == InitDefaultBootloaderControl(cur)
<1>1. new \in Metadata /\ misc.slot_info \in Metadata /\ cur \in Existing
  BY InitDefaultFacts DEF Types0
<1>2. CASE UNCHANGED <<misc, waived, num_slots, settled>> /\ phase' = next
  BY <1>2 DEF Types0
<1>3. CASE num_slots = 0 /\ num_slots' = NbSlot /\ misc.crc /\ UNCHANGED <<misc, waived, settled>> /\ phase' = next
  BY <1>3 DEF Types0
<1>4. CASE /\ num_slots = 0 /\ num_slots' = NbSlot /\ ~misc.crc /\ phase' = next
           /\ (Saved(new) /\ UNCHANGED settled) \/ NotSaved(new)
           /\ waived' = Waive
  <2>1. misc'.slot_info \in Metadata /\ settled' \in {settled, Damaged}
    BY <1>1, <1>4, SavedFacts, NotSavedFacts
  <2>2. waived' \subseteq Existing
    BY <1>1, <1>4 DEF Waive, Types0
  <2> QED BY <1>4, <2>1, <2>2
<1> QED BY <1>2, <1>3, <1>4, Zenon DEF LazyInitialization

LEMMA ChoiceExists == \A s \in Choice : s \in Existing /\ (misc.crc => s \in Bootable)
  BY DEF Choice, Bootable

\* Switching off leaves the disk.
LEMMA OffTypes ==
  ASSUME Types0, Off
  PROVE  Types0'
<1>1. pair' \in 1..Pairs /\ reads' \in [1..Groups -> {"running", "ok", "failed"}]
  BY PairNumbers DEF Off, StartReads
<1> QED BY <1>1 DEF Off, Types0, disk, Phases

\* Every step keeps the types.
LEMMA StepTypes == Types0 /\ BlockType /\ [Next]_vars => Types0'
<1> SUFFICES ASSUME Types0, BlockType, [Next]_vars PROVE Types0'
  OBVIOUS
<1>0. /\ misc.slot_info \in Metadata /\ cur \in Existing /\ target \in Existing /\ want \in Existing
      /\ cur \in AllSlots /\ target \in AllSlots /\ want \in AllSlots
  BY SlotNumbers DEF Types0
<1>1. CASE UNCHANGED vars
  BY <1>1 DEF vars, disk, verifier, recovery, Types0
<1>2. CASE BootSystem
  <2>1. PICK s \in Choice : /\ cur' = s
           /\ misc' = IF misc.crc /\ ~misc.slot_info[s].successful
                        THEN [misc EXCEPT !.slot_info[s].tries = @ - 1] ELSE misc
    BY <1>2 DEF BootSystem
  <2>2. s \in Existing /\ s \in AllSlots /\ (misc.crc => misc.slot_info[s].tries > 0)
    BY ChoiceExists, SlotNumbers DEF Bootable
  <2>3. misc'.slot_info \in Metadata
    BY <1>0, <2>1, <2>2, TryFacts
  <2> QED BY <1>2, <2>1, <2>2, <2>3 DEF BootSystem, Types0, verifier, recovery, Phases
<1>3. CASE HalStarts
  <2>1. LazyInitialization("ask")
        /\ UNCHANGED <<image, care_map, verity_mode, cur, verifier, engine, target, recovery>>
    BY <1>3 DEF HalStarts
  <2>2. /\ misc'.slot_info \in Metadata /\ phase' = "ask" /\ waived' \subseteq Existing
        /\ num_slots' \in {0, NbSlot} /\ settled' \in {settled, Damaged}
    BY <2>1, InitializationFacts
  <2> QED BY <2>1, <2>2 DEF Types0, verifier, recovery, Phases
<1>4. CASE AskSuccessful
  <2>1. phase' \in Phases
    BY <1>4 DEF AskSuccessful, Phases
  <2> QED BY <1>4, <2>1 DEF AskSuccessful, Types0, disk, verifier, recovery
<1>5. CASE OpenCareMap
  <2>1. phase' \in Phases /\ pair' \in 1..Pairs
    BY <1>5, PairNumbers DEF OpenCareMap, Phases
  <2> QED BY <1>5, <2>1 DEF OpenCareMap, Types0, disk, recovery, StartReads
<1>6. ASSUME NEW g \in 1..Groups, ReadGroup(g) PROVE Types0'
  BY <1>6 DEF ReadGroup, Types0, disk, recovery
<1>7. CASE JoinReaders
  <2>1. phase' \in Phases /\ pair' \in 1..Pairs
    BY <1>7, PairNumbers DEF JoinReaders, Phases, verifier, Types0
  <2>2. reads' \in [1..Groups -> {"running", "ok", "failed"}]
    BY <1>7 DEF JoinReaders, verifier, Types0, StartReads
  <2> QED BY <1>7, <2>1, <2>2 DEF JoinReaders, Types0, disk, recovery
<1>8. CASE MarkSuccessful
  <2>1. misc'.slot_info \in Metadata /\ settled' \in {Damaged, cur} /\ phase' \in {"up", "reboot"}
    BY <1>0, <1>8, MarkFacts, SavedFacts, NotSavedFacts DEF MarkSuccessful
  <2>2. waived' \subseteq Existing
    BY <1>8 DEF MarkSuccessful, Waive, Types0
  <2> QED BY <1>8, <2>1, <2>2 DEF MarkSuccessful, Types0, verifier, recovery, Phases
<1>9. CASE RebootDevice \/ UserReboots \/ PowerLoss
  BY <1>9, OffTypes DEF RebootDevice, UserReboots, PowerLoss
<1>10. CASE BootRecovery
  <2>1. PICK s \in Choice : cur' = s /\ display' = s /\ want' = s
    BY <1>10 DEF BootRecovery
  <2> QED BY <1>10, <2>1, ChoiceExists DEF BootRecovery, Types0, disk, verifier, Phases
<1>11. CASE EngineStarts
  BY <1>11 DEF EngineStarts, Types0, disk, verifier, recovery
<1>12. CASE EngineUnbootable
  <2>1. /\ misc'.slot_info \in Metadata /\ settled' \in {settled, NoSlot, Damaged}
        /\ engine' \in {"write", "idle"}
    BY <1>0, <1>12, UnbootableFacts, SavedFacts, NotSavedFacts DEF EngineUnbootable
  <2> QED BY <1>12, <2>1 DEF EngineUnbootable, Types0, verifier, recovery
<1>13. CASE EngineWrites
  BY <1>13 DEF EngineWrites, Types0, verifier, recovery
<1>14. CASE EngineActivates
  <2>1. misc'.slot_info \in Metadata /\ settled' \in {NoSlot, Damaged}
    BY <1>0, <1>14, ActiveFacts, SavedFacts, NotSavedFacts DEF EngineActivates
  <2> QED BY <1>14, <2>1 DEF EngineActivates, Types0, verifier, recovery
<1>15. CASE UserSwitches \/ RepackSwitches \/ RepackEnds
  BY <1>15 DEF UserSwitches, RepackSwitches, RepackEnds, Switch, Types0, disk, verifier, recovery, Phases
<1>16. CASE SwitchInit
  <2>1. LazyInitialization("set")
        /\ UNCHANGED <<image, care_map, verity_mode, cur, verifier, engine, target, recovery>>
    BY <1>16 DEF SwitchInit
  <2>2. /\ misc'.slot_info \in Metadata /\ phase' = "set" /\ waived' \subseteq Existing
        /\ num_slots' \in {0, NbSlot} /\ settled' \in {settled, Damaged}
    BY <2>1, InitializationFacts
  <2> QED BY <2>1, <2>2 DEF Types0, verifier, recovery, Phases
<1>17. CASE SwitchSet
  <2>1. /\ misc'.slot_info \in Metadata /\ settled' \in {settled, NoSlot, Damaged}
        /\ shown' \in {"ok", "failed"}
    BY <1>0, <1>17, ActiveFacts, SavedFacts, NotSavedFacts DEF SwitchSet
  <2> QED BY <1>17, <2>1 DEF SwitchSet, Types0, verifier, recovery, Phases
<1> QED BY <1>1, <1>2, <1>3, <1>4, <1>5, <1>6, <1>7, <1>8, <1>9, <1>10, <1>11, <1>12, <1>13, <1>14,
           <1>15, <1>16, <1>17 DEF Next, BootStep

\* Every step counts mishaps and torn writes within their bounds.
LEMMA StepCounters == Counters /\ [Next]_vars => Counters'
<1> SUFFICES ASSUME Counters, [Next]_vars PROVE Counters'
  OBVIOUS
<1>1. ASSUME UNCHANGED <<mishaps, torn>> \/ NoMishap \/ Mishap \/ (\E new : Saved(new) \/ NotSaved(new))
      PROVE  Counters'
  BY <1>1, MishapBounds DEF Counters, NoMishap, Mishap, Saved, NotSaved
<1>2. UNCHANGED <<mishaps, torn>> \/ NoMishap \/ Mishap \/ (\E new : Saved(new) \/ NotSaved(new))
  BY Zenon DEF Next, BootStep, vars, BootSystem, HalStarts, LazyInitialization, AskSuccessful, OpenCareMap,
     ReadGroup, JoinReaders, MarkSuccessful, RebootDevice, BootRecovery, EngineStarts,
     EngineUnbootable, EngineWrites, EngineActivates, UserSwitches, RepackSwitches, RepackEnds,
     SwitchInit, SwitchSet, UserReboots, PowerLoss
<1> QED BY <1>1, <1>2

\* The block is always a checksum and metadata.
LEMMA StepBlock == BlockType /\ [Next]_vars => BlockType'
<1> SUFFICES ASSUME BlockType, [Next]_vars PROVE BlockType'
  OBVIOUS
<1>1. \/ misc' = misc
      \/ \E new : Saved(new) \/ NotSaved(new)
      \/ \E s : misc' = [misc EXCEPT !.slot_info[s].tries = @ - 1]
  <2>1. CASE BootSystem
    BY <2>1, Zenon DEF BootSystem
  <2>2. CASE UNCHANGED vars \/ BootRecovery \/ HalStarts \/ SwitchInit
    BY <2>2, Zenon DEF vars, disk, BootRecovery, HalStarts, SwitchInit, LazyInitialization
  <2>3. CASE AskSuccessful \/ OpenCareMap \/ (\E g \in 1..Groups : ReadGroup(g)) \/ JoinReaders
               \/ RebootDevice \/ UserReboots \/ PowerLoss
    BY <2>3, Zenon DEF AskSuccessful, OpenCareMap, ReadGroup, JoinReaders, RebootDevice,
       UserReboots, PowerLoss, Off, disk
  <2>4. CASE MarkSuccessful \/ EngineUnbootable \/ EngineActivates \/ SwitchSet
    BY <2>4, Zenon DEF MarkSuccessful, EngineUnbootable, EngineActivates, SwitchSet
  <2>5. CASE EngineStarts \/ EngineWrites \/ UserSwitches \/ RepackSwitches \/ RepackEnds
    BY <2>5, Zenon DEF EngineStarts, EngineWrites, UserSwitches, RepackSwitches, RepackEnds, disk
  <2> QED BY <2>1, <2>2, <2>3, <2>4, <2>5 DEF Next, BootStep
<1> QED BY <1>1, BlockWritten

BaseInv == Types0 /\ BlockType /\ Counters

LEMMA InitFacts ==
  ASSUME Init
  PROVE  /\ BlockType /\ misc.crc /\ misc.slot_info \in Metadata
         /\ \A s \in AllSlots : misc.slot_info[s].successful <=> s = cur
         /\ misc.slot_info[cur].priority = 15 /\ misc.slot_info[cur].tries = 1
         /\ \A s \in Existing \ {cur} : misc.slot_info[s].priority = 7
         /\ cur \in Existing /\ settled = cur /\ image[cur] = {}
<1>1. PICK c \in Existing :
         /\ cur = c /\ display = c /\ want = c /\ settled = c /\ target = c
         /\ misc = [crc |-> TRUE,
                    slot_info |-> [InitDefaultBootloaderControl(c) EXCEPT
                                     ![c].priority = kActivePriority, ![c].tries = 1]]
         /\ image \in {f \in [Existing -> Flaws] : f[c] = {}}
  BY DEF Init
<1>2. PICK d \in Metadata :
         /\ d = InitDefaultBootloaderControl(c)
         /\ \A s \in AllSlots : d[s].successful <=> s = c
         /\ \A s \in Existing : d[s].priority = 7
  BY InitDefaultFacts
<1>3. PICK i : i = [d EXCEPT ![c].priority = 15, ![c].tries = 1]
  OBVIOUS
<1>4. misc = [crc |-> TRUE, slot_info |-> i]
  BY <1>1, <1>2, <1>3 DEF kActivePriority
<1>5. misc.crc = TRUE /\ misc.slot_info = i
  BY <1>4, Zenon
<1>6. BlockType
  BY <1>4, <1>5, Zenon DEF BlockType
<1>7. c \in AllSlots
  BY SlotNumbers
<1>8. i \in Metadata
  <2>1. 15 \in 0..15 /\ 1 \in 0..7
    OBVIOUS
  <2> QED BY <1>2, <1>3, <1>7, <2>1, InfoActive, Zenon
<1>9. /\ i[c].priority = 15 /\ i[c].tries = 1 /\ i[c].successful = d[c].successful
      /\ \A s \in AllSlots : s # c => i[s] = d[s]
  BY <1>2, <1>3, <1>7 DEF Metadata, slot_metadata
<1>10. \A s \in AllSlots : i[s].successful <=> s = c
  BY <1>2, <1>7, <1>9
<1>11. \A s \in Existing \ {c} : i[s].priority = 7
  BY <1>2, <1>9, SlotNumbers
<1> QED BY <1>1, <1>5, <1>6, <1>8, <1>9, <1>10, <1>11

LEMMA InitBase == Init => BaseInv
<1> SUFFICES ASSUME Init PROVE BaseInv
  OBVIOUS
<1>1. BlockType /\ misc.slot_info \in Metadata
  BY InitFacts
<1>2. /\ image \in [Existing -> Flaws] /\ cur \in Existing /\ display \in Existing /\ want \in Existing
      /\ settled \in Existing /\ target \in Existing
  BY DEF Init
<1>3. pair \in 1..Pairs /\ reads \in [1..Groups -> {"running", "ok", "failed"}]
  BY PairNumbers DEF Init
<1>4. verity_mode \in Modes /\ care_map \in CareMaps /\ Counters
  BY MishapBounds, NoCareMap DEF Init, Counters
<1>5. Types0
  BY <1>1, <1>2, <1>3, <1>4 DEF Init, Types0, Phases
<1> QED BY <1>1, <1>4, <1>5 DEF BaseInv

LEMMA StepBase == BaseInv /\ [Next]_vars => BaseInv'
  BY StepTypes, StepBlock, StepCounters DEF BaseInv

\* The block of the misc partition and every process's variables keep their
\* types: no call, torn write or re-initialization takes a priority out of its
\* four bits or a try counter out of its three.
THEOREM Types == Spec => []TypeOK
<1>1. BaseInv => TypeOK
  <2> SUFFICES ASSUME BaseInv PROVE TypeOK
    OBVIOUS
  <2>1. num_slots \in 0..kMaxNumSlots
    BY SlotsAreNumbered DEF BaseInv, Types0, kMaxNumSlots
  <2>2. misc \in [crc : BOOLEAN, slot_info : [AllSlots -> slot_metadata]]
    BY Zenon DEF BaseInv, Types0, BlockType, Metadata
  <2> QED BY <2>1, <2>2 DEF BaseInv, Types0, Counters, TypeOK
<1> QED BY <1>1, InitBase, StepBase, PTL DEF Spec

-----------------------------------------------------------------------------
(* A mark of success is never inherited                                    *)

\* The engine runs in a marked slot, writes to another one, and writes only
\* after that one has lost its mark.
EngineInv ==
  /\ engine # "idle" => /\ phase = "up" /\ target # cur /\ num_slots # 0
                        /\ misc.slot_info[cur].successful /\ misc.slot_info[cur].tries > 0
  /\ engine \in {"write", "activate"} => ~misc.slot_info[target].successful

\* A mark means a good image or a reason; and while update_verifier reads, what
\* it has read is good.
CheckedInv ==
  /\ \A s \in Existing : misc.slot_info[s].successful => image[s] = {} \/ s \in waived
  /\ phase = "read" => \A c \in image[cur] : c[1] >= pair /\ (c[1] = pair => reads[c[2]] # "ok")
  /\ phase = "mark" => image[cur] = {}

\* Every step keeps the engine away from what is marked.
LEMMA StepEngine == BaseInv /\ EngineInv /\ [Next]_vars => EngineInv'
<1> SUFFICES ASSUME BaseInv, EngineInv, [Next]_vars PROVE EngineInv'
  OBVIOUS
<1>0. /\ misc.slot_info \in Metadata /\ cur \in AllSlots /\ target \in AllSlots
      /\ cur \in Existing /\ target \in Existing
  BY SlotNumbers DEF BaseInv, Types0
<1>1. CASE UNCHANGED vars
  BY <1>1 DEF vars, disk, EngineInv
<1>2. ASSUME phase # "up", engine' = engine PROVE EngineInv'
  BY <1>2 DEF EngineInv
<1>3. CASE BootSystem \/ HalStarts \/ AskSuccessful \/ OpenCareMap \/ JoinReaders \/ MarkSuccessful
           \/ (\E g \in 1..Groups : ReadGroup(g)) \/ BootRecovery \/ UserSwitches \/ RepackSwitches
           \/ RepackEnds \/ SwitchInit \/ SwitchSet
  BY <1>2, <1>3 DEF BootSystem, HalStarts, AskSuccessful, OpenCareMap, JoinReaders, MarkSuccessful,
     ReadGroup, BootRecovery, UserSwitches, RepackSwitches, RepackEnds, SwitchInit, SwitchSet
<1>4. CASE RebootDevice \/ UserReboots \/ PowerLoss
  BY <1>4 DEF RebootDevice, UserReboots, PowerLoss, Off, EngineInv
<1>5. CASE EngineStarts
  BY <1>5 DEF EngineStarts, disk, IsSlotMarkedSuccessful, EngineInv
<1>6. CASE EngineUnbootable
  <2>1. CASE NotSaved(SetSlotAsUnbootable(misc.slot_info, target)) /\ engine' = "idle"
    BY <2>1 DEF EngineInv
  <2>2. CASE Saved(SetSlotAsUnbootable(misc.slot_info, target)) /\ engine' = "write"
    <3>1. misc'.slot_info = SetSlotAsUnbootable(misc.slot_info, target)
      BY <2>2, SavedFacts
    <3>2. /\ UNCHANGED <<phase, cur, num_slots, target>> /\ engine # "idle"
      BY <1>6 DEF EngineUnbootable
    <3>3. target # cur
      BY <3>2 DEF EngineInv
    <3>4. misc'.slot_info[cur] = misc.slot_info[cur] /\ ~misc'.slot_info[target].successful
      BY <1>0, <3>1, <3>3, UnbootableFacts
    <3> QED BY <3>2, <3>4 DEF EngineInv
  <2> QED BY <1>6, <2>1, <2>2 DEF EngineUnbootable
<1>7. CASE EngineWrites
  BY <1>7 DEF EngineWrites, EngineInv
<1>8. CASE EngineActivates
  BY <1>8 DEF EngineActivates, EngineInv
<1> QED BY <1>1, <1>3, <1>4, <1>5, <1>6, <1>7, <1>8 DEF Next, BootStep

\* What an image lacks is in a group of one of the pairs.
LEMMA CellNumbers ==
  ASSUME BaseInv, NEW c \in image[cur]
  PROVE  c[1] \in 1..Pairs /\ c[2] \in 1..Groups /\ c = <<c[1], c[2]>>
<1>1. image[cur] \in Flaws
  BY DEF BaseInv, Types0
<1>2. Flaws \subseteq SUBSET Cells
  BY BoundsAssumption
<1>3. c \in Cells
  BY <1>1, <1>2, Zenon
<1> QED BY <1>3 DEF Cells

\* The first initialization marks the slot that runs, and nothing else.
LEMMA InitializationChecked ==
  ASSUME BaseInv, CheckedInv, NEW next, LazyInitialization(next), UNCHANGED <<image, cur>>
  PROVE  \A s \in Existing : misc'.slot_info[s].successful => image'[s] = {} \/ s \in waived'
<1> DEFINE new == InitDefaultBootloaderControl(cur)
<1>1. CASE misc' = misc /\ UNCHANGED <<waived, settled>>
  BY <1>1 DEF CheckedInv
<1>2. CASE waived' = Waive /\ (Saved(new) \/ NotSaved(new))
  <2>1. misc.slot_info \in Metadata /\ cur \in Existing
    BY DEF BaseInv, Types0
  <2>2. new \in Metadata /\ \A s \in Existing : s # cur => ~new[s].successful
    BY <2>1, InitDefaultFacts, SlotNumbers
  <2>3. \A s \in Existing : misc'.slot_info[s] \in {new[s], misc.slot_info[s]}
    BY <1>2, <2>1, <2>2, SavedFacts, NotSavedFacts, SlotNumbers
  <2>4. ASSUME NEW s \in Existing, misc'.slot_info[s].successful
        PROVE  image'[s] = {} \/ s \in waived'
    <3>1. CASE misc.slot_info[s].successful
      BY <1>2, <2>4, <3>1 DEF CheckedInv, Waive
    <3>2. CASE ~misc.slot_info[s].successful
      <4>1. s = cur
        BY <2>2, <2>3, <2>4, <3>2
      <4> QED BY <1>2, <2>4, <3>2, <4>1 DEF Waive
    <3> QED BY <3>1, <3>2
  <2> QED BY <2>4
<1> QED BY <1>1, <1>2, InitializationFacts DEF BaseInv

\* Every step keeps every mark checked.
LEMMA StepChecked == BaseInv /\ EngineInv /\ CheckedInv /\ [Next]_vars => CheckedInv'
<1> SUFFICES ASSUME BaseInv, EngineInv, CheckedInv, [Next]_vars PROVE CheckedInv'
  OBVIOUS
<1>0. /\ misc.slot_info \in Metadata /\ cur \in AllSlots /\ target \in AllSlots /\ want \in AllSlots
      /\ cur \in Existing /\ target \in Existing /\ want \in Existing
      /\ image \in [Existing -> Flaws]
  BY SlotNumbers DEF BaseInv, Types0
<1> DEFINE Marks == \A s \in Existing : misc.slot_info[s].successful => image[s] = {} \/ s \in waived
<1>1. CASE UNCHANGED vars
  BY <1>1 DEF vars, disk, verifier, CheckedInv
<1>2. ASSUME Marks', phase' \notin {"read", "mark"} PROVE CheckedInv'
  BY <1>2 DEF CheckedInv
<1>3. ASSUME UNCHANGED <<misc, image, waived>> PROVE Marks'
  BY <1>3 DEF CheckedInv
<1>4. CASE BootSystem
  <2>1. PICK s \in Choice :
           misc' = IF misc.crc /\ ~misc.slot_info[s].successful
                     THEN [misc EXCEPT !.slot_info[s].tries = @ - 1] ELSE misc
    BY <1>4 DEF BootSystem
  <2>2. s \in Existing /\ s \in AllSlots /\ (misc.crc => misc.slot_info[s].tries > 0)
    BY ChoiceExists, SlotNumbers DEF Bootable
  <2>3. \A t \in Existing : misc'.slot_info[t].successful = misc.slot_info[t].successful
    BY <1>0, <2>1, <2>2, TryFacts, SlotNumbers DEF BaseInv
  <2>4. Marks'
    BY <1>4, <2>3 DEF BootSystem, CheckedInv
  <2> QED BY <1>2, <1>4, <2>4 DEF BootSystem
<1>5. CASE HalStarts
  BY <1>2, <1>5, InitializationChecked, InitializationFacts DEF HalStarts, BaseInv
<1>6. CASE SwitchInit
  BY <1>2, <1>6, InitializationChecked, InitializationFacts DEF SwitchInit, BaseInv
<1>7. CASE AskSuccessful
  <2>1. phase' \in {"skip", "reboot", "open", "up"}
    BY <1>7 DEF AskSuccessful
  <2> QED BY <1>2, <1>3, <1>7, <2>1 DEF AskSuccessful, disk
<1>8. CASE OpenCareMap
  <2>1. Marks'
    BY <1>3, <1>8 DEF OpenCareMap, disk
  <2>2. /\ phase' # "mark" /\ pair' = 1 /\ reads' = [g \in 1..Groups |-> "running"]
        /\ UNCHANGED <<image, cur>>
    BY <1>8 DEF OpenCareMap, StartReads, disk
  <2>3. \A c \in image[cur] : c[1] \in Nat /\ c[1] >= 1 /\ c[2] \in 1..Groups
    BY CellNumbers, PairNumbers
  <2> QED BY <2>1, <2>2, <2>3 DEF CheckedInv
<1>9. ASSUME NEW g \in 1..Groups, ReadGroup(g) PROVE CheckedInv'
  <2>1. Marks'
    BY <1>3, <1>9 DEF ReadGroup, disk
  <2>2. /\ phase = "read" /\ phase' = "read" /\ UNCHANGED <<image, cur, pair>>
        /\ \/ <<pair, g>> \notin image[cur] /\ reads' = [reads EXCEPT ![g] = "ok"]
           \/ reads' = [reads EXCEPT ![g] = "failed"]
    BY <1>9 DEF ReadGroup, disk
  <2>3. ASSUME NEW c \in image[cur] PROVE c[1] >= pair /\ (c[1] = pair => reads'[c[2]] # "ok")
    <3>1. c[1] >= pair /\ (c[1] = pair => reads[c[2]] # "ok") /\ c = <<c[1], c[2]>> /\ c[2] \in 1..Groups
      BY <2>2, CellNumbers DEF CheckedInv
    <3> QED BY <2>2, <3>1 DEF BaseInv, Types0
  <2> QED BY <2>1, <2>2, <2>3 DEF CheckedInv
<1>10. CASE JoinReaders
  <2>1. Marks'
    BY <1>3, <1>10 DEF JoinReaders, disk
  <2>2. phase = "read" /\ UNCHANGED <<image, cur>>
    BY <1>10 DEF JoinReaders, disk
  <2>3. \A c \in image[cur] : /\ c[1] \in 1..Pairs /\ c[2] \in 1..Groups
                              /\ c[1] >= pair /\ (c[1] = pair => reads[c[2]] # "ok")
    BY <2>2, CellNumbers DEF CheckedInv
  <2>4. pair \in 1..Pairs
    BY DEF BaseInv, Types0
  <2>5. ASSUME ReadOk PROVE \A c \in image[cur] : c[1] >= pair + 1
    BY <2>3, <2>4, <2>5, PairNumbers DEF ReadOk
  <2>6. CASE ReadOk /\ pair < Pairs
    <3>1. pair' = pair + 1 /\ reads' = [g \in 1..Groups |-> "running"] /\ phase' = phase
      BY <1>10, <2>6 DEF JoinReaders, StartReads
    <3> QED BY <2>1, <2>2, <2>3, <2>5, <2>6, <3>1 DEF CheckedInv
  <2>7. CASE ReadOk /\ ~(pair < Pairs)
    <3>1. phase' = "mark"
      BY <1>10, <2>7 DEF JoinReaders
    <3>2. image[cur] = {}
      BY <2>3, <2>4, <2>5, <2>7, PairNumbers
    <3> QED BY <2>1, <2>2, <3>1, <3>2 DEF CheckedInv
  <2>8. CASE ~ReadOk
    <3>1. phase' = "reboot"
      BY <1>10, <2>8 DEF JoinReaders
    <3> QED BY <1>2, <2>1, <3>1
  <2> QED BY <2>6, <2>7, <2>8
<1>11. CASE MarkSuccessful
  <2> DEFINE new == MarkBootSuccessful(misc.slot_info)
  <2>1. /\ Saved(new) \/ NotSaved(new)
        /\ phase \in {"mark", "skip"} /\ phase' \in {"up", "reboot"} /\ image' = image /\ cur' = cur
        /\ waived' = IF phase = "skip" THEN Waive ELSE waived
    BY <1>11 DEF MarkSuccessful
  <2>2. /\ new \in Metadata /\ \A s \in AllSlots : s # cur => new[s] = misc.slot_info[s]
    BY <1>0, MarkFacts
  <2>3. \A s \in Existing : misc'.slot_info[s] \in {new[s], misc.slot_info[s]}
    BY <1>0, <2>1, <2>2, SavedFacts, NotSavedFacts, SlotNumbers
  <2>4. ASSUME NEW s \in Existing, misc'.slot_info[s].successful
        PROVE  image'[s] = {} \/ s \in waived'
    <3>1. CASE misc.slot_info[s].successful
      BY <2>1, <3>1 DEF CheckedInv, Waive
    <3>2. CASE ~misc.slot_info[s].successful
      <4>1. s = cur
        BY <2>2, <2>3, <2>4, <3>2, SlotNumbers
      <4> QED BY <2>1, <2>4, <3>2, <4>1 DEF Waive, CheckedInv
    <3> QED BY <3>1, <3>2
  <2> QED BY <1>2, <2>1, <2>4
<1>12. CASE RebootDevice \/ UserReboots \/ PowerLoss
  <2>1. phase' = "off" /\ UNCHANGED <<misc, image, waived>>
    BY <1>12 DEF RebootDevice, UserReboots, PowerLoss, Off, disk
  <2> QED BY <1>2, <1>3, <2>1
<1>13. CASE BootRecovery \/ EngineStarts \/ UserSwitches \/ RepackSwitches \/ RepackEnds
  <2>1. phase' \in {"recovery", "up", "switch"} /\ UNCHANGED <<misc, image, waived>>
    BY <1>13 DEF BootRecovery, EngineStarts, UserSwitches, RepackSwitches, RepackEnds, Switch, disk
  <2> QED BY <1>2, <1>3, <2>1
<1>14. CASE EngineUnbootable
  <2> DEFINE new == SetSlotAsUnbootable(misc.slot_info, target)
  <2>1. (Saved(new) \/ NotSaved(new)) /\ phase = "up" /\ UNCHANGED <<phase, image, waived>>
    BY <1>14 DEF EngineUnbootable
  <2>2. /\ new \in Metadata /\ \A s \in AllSlots : s # target => new[s] = misc.slot_info[s]
        /\ ~new[target].successful
    BY <1>0, UnbootableFacts
  <2>3. \A s \in Existing : misc'.slot_info[s] \in {new[s], misc.slot_info[s]}
    BY <1>0, <2>1, <2>2, SavedFacts, NotSavedFacts, SlotNumbers
  <2>4. Marks'
    BY <2>1, <2>2, <2>3, SlotNumbers DEF CheckedInv
  <2> QED BY <1>2, <2>1, <2>4
<1>15. CASE EngineWrites
  <2>1. /\ phase = "up" /\ UNCHANGED <<phase, misc>> /\ waived' = waived \ {target}
        /\ \E f \in Flaws : image' = [image EXCEPT ![target] = f]
        /\ ~misc.slot_info[target].successful
    BY <1>15 DEF EngineWrites, EngineInv
  <2>2. \A s \in Existing : s # target => image'[s] = image[s]
    BY <1>0, <2>1
  <2>3. Marks'
    BY <2>1, <2>2 DEF CheckedInv
  <2> QED BY <1>2, <2>1, <2>3
<1>16. CASE EngineActivates
  <2> DEFINE new == SetActiveBootSlot(misc.slot_info, target)
  <2>1. (Saved(new) \/ NotSaved(new)) /\ phase = "up" /\ UNCHANGED <<phase, image, waived>>
    BY <1>16 DEF EngineActivates
  <2>2. new \in Metadata /\ \A s \in AllSlots : new[s].successful = misc.slot_info[s].successful
    BY <1>0, ActiveFacts
  <2>3. \A s \in Existing : misc'.slot_info[s] \in {new[s], misc.slot_info[s]}
    BY <1>0, <2>1, <2>2, SavedFacts, NotSavedFacts, SlotNumbers
  <2>4. Marks'
    BY <2>1, <2>2, <2>3, SlotNumbers DEF CheckedInv
  <2> QED BY <1>2, <2>1, <2>4
<1>17. CASE SwitchSet
  <2> DEFINE new == SetActiveBootSlot(misc.slot_info, want)
  <2>1. (misc' = misc \/ Saved(new) \/ NotSaved(new)) /\ phase' = "recovery" /\ UNCHANGED <<image, waived>>
    BY <1>17 DEF SwitchSet
  <2>2. new \in Metadata /\ \A s \in AllSlots : new[s].successful = misc.slot_info[s].successful
    BY <1>0, ActiveFacts
  <2>3. \A s \in Existing : misc'.slot_info[s] \in {new[s], misc.slot_info[s]}
    BY <1>0, <2>1, <2>2, SavedFacts, NotSavedFacts, SlotNumbers
  <2>4. Marks'
    BY <2>1, <2>2, <2>3, SlotNumbers DEF CheckedInv
  <2> QED BY <1>2, <2>1, <2>4
<1> QED BY <1>1, <1>4, <1>5, <1>6, <1>7, <1>8, <1>9, <1>10, <1>11, <1>12, <1>13, <1>14, <1>15, <1>16,
           <1>17 DEF Next, BootStep

\* A slot that counts as successful was read without error since its image was
\* written, or was marked for a reason the code states; for any number of slots,
\* partitions and readers, and however many writes of the block are torn.
THEOREM MarksAreChecked == Spec => []SuccessfulIsChecked
<1>1. Init => EngineInv /\ CheckedInv
  <2> SUFFICES ASSUME Init PROVE EngineInv /\ CheckedInv
    OBVIOUS
  <2>1. EngineInv
    BY DEF Init, EngineInv
  <2>2. CheckedInv
    BY InitFacts, SlotNumbers DEF Init, CheckedInv
  <2> QED BY <2>1, <2>2
<1>2. CheckedInv => SuccessfulIsChecked
  BY DEF CheckedInv, SuccessfulIsChecked, IsSlotMarkedSuccessful
<1> QED BY <1>1, <1>2, InitBase, StepBase, StepEngine, StepChecked, PTL DEF Spec

-----------------------------------------------------------------------------
(* The marked slot is the next one                                         *)

\* No bootable slot has a higher priority.
Top(s) ==
  /\ misc.slot_info[s].priority > 0
  /\ \A t \in Bootable : misc.slot_info[t].priority <= misc.slot_info[s].priority

Booting == {"init", "ask", "open", "read", "mark", "skip"}

\* Unless a write was torn, the slot that is being booted was chosen by its
\* priority, and the slot that was marked last still has the highest.
SettledInv ==
  /\ settled # Damaged => misc.crc
  /\ settled \in Existing =>
       misc.slot_info[settled].successful /\ misc.slot_info[settled].tries > 0 /\ Top(settled)
  /\ phase \in Booting /\ settled # Damaged => Top(cur)

LEMMA NoSuchSlot == NoSlot \notin Existing /\ Damaged \notin Existing /\ NoSlot # Damaged
  BY SlotNumbers DEF NoSlot, Damaged

\* What a boot changes.
LEMMA BootFacts ==
  ASSUME BaseInv, BootSystem
  PROVE  /\ cur' \in Choice /\ misc'.crc = misc.crc /\ misc'.slot_info \in Metadata
         /\ \A t \in Existing :
              /\ misc'.slot_info[t].priority = misc.slot_info[t].priority
              /\ misc'.slot_info[t].successful = misc.slot_info[t].successful
              /\ misc'.slot_info[t].tries <= misc.slot_info[t].tries
              /\ misc.slot_info[t].successful => misc'.slot_info[t].tries = misc.slot_info[t].tries
<1>1. PICK s \in Choice : /\ cur' = s
         /\ misc' = IF misc.crc /\ ~misc.slot_info[s].successful
                      THEN [misc EXCEPT !.slot_info[s].tries = @ - 1] ELSE misc
  BY DEF BootSystem
<1>2. s \in Existing /\ s \in AllSlots /\ (misc.crc => misc.slot_info[s].tries > 0)
  BY ChoiceExists, SlotNumbers DEF Bootable
<1>3. misc.slot_info \in Metadata /\ BlockType
  BY DEF BaseInv, Types0
<1>4. \A t \in Existing : misc.slot_info[t].tries \in 0..7
  BY <1>3, SlotNumbers DEF Metadata, slot_metadata
<1> DEFINE Less(t) ==
           /\ misc'.slot_info[t].priority = misc.slot_info[t].priority
           /\ misc'.slot_info[t].successful = misc.slot_info[t].successful
           /\ misc'.slot_info[t].tries <= misc.slot_info[t].tries
           /\ misc.slot_info[t].successful => misc'.slot_info[t].tries = misc.slot_info[t].tries
<1>5. CASE misc' = misc
  <2>1. misc'.crc = misc.crc /\ misc'.slot_info \in Metadata
    BY <1>3, <1>5, Zenon
  <2>2. ASSUME NEW t \in Existing PROVE Less(t)
    <3>1. misc'.slot_info[t] = misc.slot_info[t]
      BY <1>5, Zenon
    <3> QED BY <1>4, <3>1
  <2> QED BY <1>1, <2>1, <2>2
<1>6. CASE /\ misc.crc /\ ~misc.slot_info[s].successful
           /\ misc' = [misc EXCEPT !.slot_info[s].tries = @ - 1]
  <2>1. /\ misc'.slot_info \in Metadata /\ misc'.crc = misc.crc
        /\ \A t \in AllSlots : t # s => misc'.slot_info[t] = misc.slot_info[t]
        /\ misc'.slot_info[s].tries = misc.slot_info[s].tries - 1
        /\ misc'.slot_info[s].priority = misc.slot_info[s].priority
        /\ misc'.slot_info[s].successful = misc.slot_info[s].successful
    BY <1>2, <1>3, <1>6, TryFacts
  <2>2. ASSUME NEW t \in Existing PROVE Less(t)
    <3>1. CASE t = s
      BY <1>4, <1>6, <2>1, <3>1
    <3>2. CASE t # s
      <4>1. misc'.slot_info[t] = misc.slot_info[t]
        BY <2>1, <3>2, SlotNumbers
      <4> QED BY <1>4, <4>1
    <3> QED BY <3>1, <3>2
  <2> QED BY <1>1, <2>1, <2>2
<1> QED BY <1>1, <1>5, <1>6

\* Every step keeps it.
LEMMA StepSettled == BaseInv /\ SettledInv /\ [Next]_vars => SettledInv'
<1> SUFFICES ASSUME BaseInv, SettledInv, [Next]_vars PROVE SettledInv'
  OBVIOUS
<1>0. /\ misc.slot_info \in Metadata /\ cur \in AllSlots /\ target \in AllSlots /\ want \in AllSlots
      /\ cur \in Existing /\ target \in Existing /\ want \in Existing
  BY SlotNumbers DEF BaseInv, Types0
<1>1. ASSUME UNCHANGED <<misc, settled>>, phase' \in Booting => phase \in Booting /\ cur' = cur
      PROVE  SettledInv'
  BY <1>1 DEF SettledInv, Top, Bootable
<1>2. ASSUME settled' = Damaged PROVE SettledInv'
  BY <1>2, NoSuchSlot DEF SettledInv
<1>3. ASSUME settled' = NoSlot, misc'.crc, phase' \notin Booting PROVE SettledInv'
  BY <1>3, NoSuchSlot DEF SettledInv
<1>4. ASSUME NEW new \in Metadata, NotSaved(new) PROVE SettledInv'
  BY <1>0, <1>2, <1>4, NotSavedFacts
<1>5. CASE UNCHANGED vars
  BY <1>1, <1>5 DEF vars, disk
<1>6. CASE BootSystem
  <2>1. /\ cur' \in Choice /\ misc'.crc = misc.crc
        /\ \A t \in Existing :
              /\ misc'.slot_info[t].priority = misc.slot_info[t].priority
              /\ misc'.slot_info[t].successful = misc.slot_info[t].successful
              /\ misc'.slot_info[t].tries <= misc.slot_info[t].tries
              /\ misc.slot_info[t].successful => misc'.slot_info[t].tries = misc.slot_info[t].tries
    BY <1>6, BootFacts
  <2>2. settled' = settled
    BY <1>6 DEF BootSystem
  <2>3. \A t \in Existing : misc.slot_info[t].tries \in Nat /\ misc'.slot_info[t].tries \in Nat
    BY <1>0, <1>6, BootFacts, SlotNumbers DEF Metadata, slot_metadata
  <2>4. Bootable' \subseteq Bootable
    BY <2>1, <2>3 DEF Bootable
  <2>5. ASSUME NEW s \in Existing, Top(s) PROVE Top(s)'
    BY <2>1, <2>4, <2>5 DEF Top, Bootable
  <2>6. ASSUME settled # Damaged PROVE Top(cur)'
    <3>1. PICK s \in Existing : s = cur' /\ s \in Choice /\ misc.crc
      BY <2>1, <2>6, ChoiceExists DEF SettledInv
    <3>2. Top(s)
      BY <3>1 DEF Choice, Top, Bootable
    <3>3. Top(s)'
      BY <2>5, <3>2
    <3> QED BY <3>1, <3>3 DEF Top
  <2>7. ASSUME settled \in Existing
        PROVE  (misc.slot_info[settled].successful /\ misc.slot_info[settled].tries > 0 /\ Top(settled))'
    <3>1. PICK s \in Existing : s = settled /\ s = settled'
      BY <2>2, <2>7
    <3>2. misc.slot_info[s].successful /\ misc.slot_info[s].tries > 0 /\ Top(s)
      BY <3>1 DEF SettledInv
    <3>3. misc'.slot_info[s].successful /\ misc'.slot_info[s].tries > 0 /\ Top(s)'
      BY <2>1, <2>5, <3>2
    <3> QED BY <3>1, <3>3 DEF Top
  <2> QED BY <2>1, <2>2, <2>6, <2>7 DEF SettledInv
<1>7. CASE HalStarts \/ SwitchInit
  <2>1. PICK next \in {"ask", "set"} : LazyInitialization(next)
    BY <1>7 DEF HalStarts, SwitchInit
  <2>2. CASE misc' = misc /\ settled' = settled
    <3>1. phase' \in Booting => phase \in Booting /\ cur' = cur
      BY <1>7, InitializationFacts DEF HalStarts, SwitchInit, Booting, BaseInv
    <3> QED BY <1>1, <2>2, <3>1
  <2>3. CASE ~misc.crc /\ settled' \in {settled, Damaged}
    BY <1>2, <2>3 DEF SettledInv
  <2> QED BY <2>1, <2>2, <2>3, InitializationFacts DEF BaseInv
<1>8. CASE AskSuccessful \/ OpenCareMap \/ (\E g \in 1..Groups : ReadGroup(g)) \/ JoinReaders
  <2>1. UNCHANGED <<misc, settled, cur>> /\ phase \in Booting
    BY <1>8 DEF AskSuccessful, OpenCareMap, ReadGroup, JoinReaders, disk, Booting
  <2> QED BY <1>1, <2>1
<1>9. CASE MarkSuccessful
  <2> DEFINE new == MarkBootSuccessful(misc.slot_info)
  <2>1. /\ new \in Metadata
        /\ \A s \in AllSlots : s # cur => new[s] = misc.slot_info[s]
        /\ new[cur].successful /\ new[cur].tries = 1 /\ new[cur].priority = misc.slot_info[cur].priority
    BY <1>0, MarkFacts
  <2>2. CASE NotSaved(new)
    BY <1>4, <2>1, <2>2
  <2>3. CASE Saved(new) /\ phase' = "up" /\ settled' = IF settled = Damaged THEN Damaged ELSE cur
    <3>1. misc'.crc /\ misc'.slot_info = new /\ cur' = cur /\ phase \in Booting
      BY <1>9, <2>3, SavedFacts DEF MarkSuccessful, Booting
    <3>2. CASE settled = Damaged
      BY <1>2, <2>3, <3>2
    <3>3. CASE settled # Damaged
      <4>1. Top(cur)
        BY <3>1, <3>3 DEF SettledInv
      <4>2. \A t \in Bootable' : t = cur \/ t \in Bootable
        BY <2>1, <3>1, SlotNumbers DEF Bootable
      <4>3. misc.slot_info[cur].priority \in 0..15
        BY <1>0 DEF Metadata, slot_metadata
      <4>4. \A t \in Bootable' : misc'.slot_info[t].priority <= misc'.slot_info[cur].priority
        BY <2>1, <3>1, <4>1, <4>2, <4>3, SlotNumbers DEF Top, Bootable
      <4>5. settled' = cur /\ phase' \notin Booting
        BY <2>3, <3>3 DEF Booting
      <4> QED BY <1>0, <2>1, <3>1, <4>1, <4>4, <4>5 DEF SettledInv, Top
    <3> QED BY <3>2, <3>3
  <2> QED BY <1>9, <2>2, <2>3 DEF MarkSuccessful
<1>10. CASE RebootDevice \/ UserReboots \/ PowerLoss
  <2>1. UNCHANGED <<misc, settled>> /\ phase' = "off"
    BY <1>10 DEF RebootDevice, UserReboots, PowerLoss, Off, disk
  <2> QED BY <1>1, <2>1 DEF Booting
<1>11. CASE BootRecovery \/ EngineStarts \/ EngineWrites \/ UserSwitches \/ RepackSwitches \/ RepackEnds
  <2>1. UNCHANGED <<misc, settled>> /\ phase' \in {"recovery", "up", "switch"}
    BY <1>11 DEF BootRecovery, EngineStarts, EngineWrites, UserSwitches, RepackSwitches, RepackEnds,
       Switch, disk
  <2> QED BY <1>1, <2>1 DEF Booting
<1>12. CASE EngineUnbootable
  <2> DEFINE new == SetSlotAsUnbootable(misc.slot_info, target)
  <2>1. /\ new \in Metadata
        /\ \A s \in AllSlots : s # target => new[s] = misc.slot_info[s]
        /\ new[target].tries = 0
    BY <1>0, UnbootableFacts
  <2>2. CASE NotSaved(new)
    BY <1>4, <2>1, <2>2
  <2>3. CASE Saved(new) /\ settled' = IF settled = target THEN NoSlot ELSE settled
    <3>1. misc'.crc /\ misc'.slot_info = new /\ phase' = "up"
      BY <1>12, <2>3, SavedFacts DEF EngineUnbootable
    <3>2. CASE settled = target
      BY <1>3, <2>3, <3>1, <3>2 DEF Booting
    <3>3. CASE settled # target
      <4>1. Bootable' \subseteq Bootable \ {target}
        BY <2>1, <3>1, SlotNumbers DEF Bootable
      <4>2. ASSUME NEW s \in Existing, s # target, Top(s) PROVE Top(s)'
        BY <2>1, <3>1, <4>1, <4>2, SlotNumbers DEF Top, Bootable
      <4>3. ASSUME NEW s \in Existing, s = settled, s = settled'
            PROVE  misc'.slot_info[s].successful /\ misc'.slot_info[s].tries > 0 /\ Top(s)'
        BY <2>1, <3>1, <3>3, <4>2, <4>3, SlotNumbers DEF SettledInv
      <4> QED BY <2>3, <3>1, <3>3, <4>3 DEF SettledInv, Booting, Top
    <3> QED BY <3>2, <3>3
  <2> QED BY <1>12, <2>2, <2>3 DEF EngineUnbootable
<1>13. CASE EngineActivates
  <2> DEFINE new == SetActiveBootSlot(misc.slot_info, target)
  <2>1. new \in Metadata
    BY <1>0, ActiveFacts
  <2>2. CASE NotSaved(new)
    BY <1>4, <2>1, <2>2
  <2>3. CASE Saved(new) /\ settled' = NoSlot
    BY <1>3, <1>13, <2>3, SavedFacts DEF EngineActivates, Booting
  <2> QED BY <1>13, <2>2, <2>3 DEF EngineActivates
<1>14. CASE SwitchSet
  <2> DEFINE new == SetActiveBootSlot(misc.slot_info, want)
  <2>1. new \in Metadata
    BY <1>0, ActiveFacts
  <2>2. CASE NotSaved(new)
    BY <1>4, <2>1, <2>2
  <2>3. CASE Saved(new) /\ settled' = NoSlot
    BY <1>3, <1>14, <2>3, SavedFacts DEF SwitchSet, Booting
  <2>4. CASE UNCHANGED <<misc, settled>>
    BY <1>1, <1>14, <2>4 DEF SwitchSet, Booting
  <2> QED BY <1>14, <2>2, <2>3, <2>4 DEF SwitchSet
<1> QED BY <1>5, <1>6, <1>7, <1>8, <1>9, <1>10, <1>11, <1>12, <1>13, <1>14 DEF Next, BootStep

\* The slot update_verifier has marked is among those the bootloader chooses
\* from at the next boot, for any slots the device has, until someone activates
\* a slot, takes this one out of use or a write is torn.
THEOREM MarkedSlotIsNext == Spec => []MarkedIsNext
<1>1. Init => SettledInv
  <2> SUFFICES ASSUME Init PROVE SettledInv
    OBVIOUS
  <2>1. /\ misc.crc /\ \A s \in AllSlots : misc.slot_info[s].successful <=> s = cur
        /\ misc.slot_info[cur].priority = 15 /\ misc.slot_info[cur].tries = 1
        /\ \A s \in Existing \ {cur} : misc.slot_info[s].priority = 7
        /\ cur \in Existing /\ settled = cur
    BY InitFacts
  <2>2. Top(cur)
    BY <2>1 DEF Top, Bootable
  <2>3. phase \notin Booting
    BY DEF Init, Booting
  <2> QED BY <2>1, <2>2, <2>3, SlotNumbers DEF SettledInv
<1>2. SettledInv => MarkedIsNext
  BY NoSuchSlot DEF SettledInv, MarkedIsNext, Choice, Top, Bootable
<1> QED BY <1>1, <1>2, InitBase, StepBase, StepSettled, PTL DEF Spec

-----------------------------------------------------------------------------
(* The recovery shows the slot that will boot                              *)

\* A switch that took effect holds until the next one or the reboot.
ShownInv ==
  shown = "ok" => phase \in {"recovery", "switch", "set"} /\ num_slots # 0 /\ Choice = {display}

\* Every step keeps it.
LEMMA StepShown == BaseInv /\ ShownInv /\ [Next]_vars => ShownInv'
<1> SUFFICES ASSUME BaseInv, ShownInv, [Next]_vars PROVE ShownInv'
  OBVIOUS
<1>0. misc.slot_info \in Metadata /\ want \in Existing /\ want \in AllSlots /\ num_slots \in {0, NbSlot}
  BY SlotNumbers DEF BaseInv, Types0
<1>1. ASSUME UNCHANGED <<misc, shown, display, num_slots>>, phase' \in {phase, "recovery", "switch", "set"}
      PROVE  ShownInv'
  BY <1>1 DEF ShownInv, Choice, Bootable
<1>2. ASSUME phase \notin {"recovery", "switch", "set"}, shown' = shown PROVE ShownInv'
  BY <1>2 DEF ShownInv
<1>3. ASSUME shown' # "ok" PROVE ShownInv'
  BY <1>3 DEF ShownInv
<1>4. CASE UNCHANGED vars
  BY <1>1, <1>4 DEF vars, disk, recovery
<1>5. CASE BootSystem \/ HalStarts \/ AskSuccessful \/ OpenCareMap \/ (\E g \in 1..Groups : ReadGroup(g))
             \/ JoinReaders \/ MarkSuccessful \/ BootRecovery
             \/ EngineStarts \/ EngineUnbootable \/ EngineWrites \/ EngineActivates
  BY <1>2, <1>5 DEF BootSystem, HalStarts, AskSuccessful, OpenCareMap, ReadGroup, JoinReaders,
     MarkSuccessful, BootRecovery, EngineStarts, EngineUnbootable, EngineWrites, EngineActivates, recovery
<1>6. CASE RebootDevice \/ UserReboots \/ PowerLoss
  BY <1>3, <1>6 DEF RebootDevice, UserReboots, PowerLoss, Off
<1>7. CASE UserSwitches \/ RepackSwitches \/ RepackEnds
  BY <1>1, <1>7 DEF UserSwitches, RepackSwitches, RepackEnds, Switch, disk
<1>8. CASE SwitchInit
  <2>1. LazyInitialization("set") /\ UNCHANGED <<shown, display>>
    BY <1>8 DEF SwitchInit, recovery
  <2>2. CASE num_slots # 0
    <3>1. UNCHANGED <<misc, num_slots>> /\ phase' = "set"
      BY <2>1, <2>2 DEF LazyInitialization
    <3> QED BY <1>1, <2>1, <3>1
  <2>3. CASE num_slots = 0
    BY <1>3, <2>1, <2>3 DEF ShownInv
  <2> QED BY <2>2, <2>3
<1>9. CASE SwitchSet
  <2> DEFINE new == SetActiveBootSlot(misc.slot_info, want)
  <2>1. CASE shown' = "failed"
    BY <1>3, <2>1
  <2>2. CASE want < num_slots /\ Saved(new) /\ shown' = "ok"
    <3>1. /\ new \in Metadata /\ new[want].priority = 15 /\ new[want].tries = kActiveTries
          /\ \A s \in AllSlots : s # want /\ s < num_slots => new[s].priority <= 14
      BY <1>0, ActiveFacts
    <3>2. misc'.crc /\ misc'.slot_info = new
      BY <2>2, SavedFacts
    <3>3. num_slots = NbSlot /\ num_slots # 0
      BY <1>0, <2>2, SlotNumbers
    <3>4. \A s \in Existing : s # want => new[s].priority <= 14
      BY <3>1, <3>3, SlotsAreNumbered, SlotNumbers
    <3>5. want \in Bootable'
      BY <1>0, <3>1, <3>2, Tries DEF Bootable
    <3>6. \A t \in Bootable' : misc'.slot_info[t].priority <= 15
      <4>1. \A t \in AllSlots : new[t].priority \in 0..15
        BY <3>1 DEF Metadata, slot_metadata
      <4> QED BY <3>2, <4>1, SlotNumbers DEF Bootable
    <3>7. \A s : s \in Choice' <=> /\ s \in Bootable'
                                   /\ \A t \in Bootable' :
                                        misc'.slot_info[t].priority <= misc'.slot_info[s].priority
      BY <3>2, Zenon DEF Choice
    <3>8. ASSUME NEW s \in Choice' PROVE s = want
      <4>1. s \in Existing /\ 15 <= new[s].priority
        BY <3>1, <3>2, <3>5, <3>7 DEF Bootable
      <4>2. new[s].priority \in 0..15
        BY <3>1, <4>1, SlotNumbers DEF Metadata, slot_metadata
      <4> QED BY <3>4, <4>1, <4>2
    <3>9. want \in Choice'
      BY <3>1, <3>2, <3>5, <3>6, <3>7
    <3>10. Choice' = {want}
      BY <3>8, <3>9
    <3> QED BY <1>9, <3>3, <3>10 DEF ShownInv, SwitchSet
  <2> QED BY <1>9, <2>1, <2>2 DEF SwitchSet
<1> QED BY <1>4, <1>5, <1>6, <1>7, <1>8, <1>9 DEF Next, BootStep

\* After a successful Set_Active_Slot the recovery shows the one slot the
\* bootloader can choose, for any slots the device has, until it switches again.
THEOREM ShownSlotIsNext == Spec => []SlotShownIsNext
<1>1. Init => ShownInv
  BY DEF Init, ShownInv
<1>2. ShownInv => SlotShownIsNext
  BY DEF ShownInv, SlotShownIsNext
<1> QED BY <1>1, <1>2, InitBase, StepBase, StepShown, PTL DEF Spec

-----------------------------------------------------------------------------
(* There is always a slot to boot                                          *)

Good(s) == /\ misc.slot_info[s].successful /\ misc.slot_info[s].tries > 0
           /\ misc.slot_info[s].priority > 0

Running == {"ask", "open", "read", "mark", "skip", "reboot", "up"}

\* One slot keeps its mark, a try and a priority, in a corrupt block too; and the
\* slot that runs has a priority unless the block was corrupt and could not be
\* replaced.
GoodInv ==
  /\ \E s \in Existing : Good(s)
  /\ ~misc.crc => torn >= 1
  /\ phase \in {"off", "init"} => num_slots = 0
  /\ phase = "init" /\ misc.crc => misc.slot_info[cur].priority > 0
  /\ phase \in Running /\ num_slots # 0 => misc.slot_info[cur].priority > 0

\* A write that leaves a good slot good, whether it is torn or not, and that is
\* torn only if it may be.
LEMMA WrittenGood ==
  ASSUME BaseInv, NEW new \in Metadata, Saved(new) \/ NotSaved(new),
         NEW g \in Existing, Good(g), new[g].successful, new[g].tries > 0, new[g].priority > 0
  PROVE  (\E s \in Existing : Good(s))' /\ (~misc'.crc => torn' >= 1)
<1>1. misc.slot_info \in Metadata /\ g \in AllSlots /\ torn \in Nat
  BY SlotNumbers, MishapBounds DEF BaseInv, Types0, Counters
<1>2. misc'.slot_info[g] \in {new[g], misc.slot_info[g]}
  BY <1>1, SavedFacts, NotSavedFacts
<1>3. Good(g)'
  BY <1>2 DEF Good
<1>4. ~misc'.crc => torn' >= 1
  BY <1>1, SavedFacts, NotSavedFacts
<1> QED BY <1>3, <1>4

\* The initialization leaves a good slot: it replaces a corrupt block by one in
\* which the running slot is good.
LEMMA InitializationGood ==
  ASSUME MaxTorn <= 1, BaseInv, GoodInv, NEW next, LazyInitialization(next), cur' = cur
  PROVE  /\ (\E s \in Existing : Good(s))' /\ (~misc'.crc => torn' >= 1)
         /\ \/ misc' = misc /\ (~misc.crc => num_slots' = num_slots)
            \/ misc'.slot_info[cur].priority > 0
<1> DEFINE new == InitDefaultBootloaderControl(cur)
<1>1. torn \in Nat /\ torn <= MaxTorn /\ MaxTorn \in Nat /\ cur \in Existing /\ misc.slot_info \in Metadata
  BY MishapBounds DEF BaseInv, Types0, Counters
<1>2. CASE misc' = misc /\ torn' = torn /\ (misc.crc \/ num_slots' = num_slots)
  BY <1>2 DEF GoodInv, Good
<1>3. CASE ~misc.crc /\ (Saved(new) \/ NotSaved(new))
  <2>1. ~NotSaved(new)
    BY <1>1, <1>3 DEF GoodInv, NotSaved
  <2>2. misc'.slot_info = new /\ misc'.crc
    BY <1>3, <2>1, SavedFacts
  <2>3. new[cur].successful /\ new[cur].priority = 7 /\ new[cur].tries > 0
    BY <1>1, InitDefaultFacts, SlotNumbers
  <2>4. PICK s \in Existing : s = cur /\ Good(s)'
    BY <1>1, <2>2, <2>3 DEF Good
  <2> QED BY <2>2, <2>3, <2>4
<1> QED BY <1>2, <1>3, Zenon DEF LazyInitialization, Mishap

\* Every step leaves a good slot, if at most one write is torn.
LEMMA StepGood ==
  ASSUME MaxTorn <= 1
  PROVE  BaseInv /\ EngineInv /\ GoodInv /\ [Next]_vars => GoodInv'
<1> SUFFICES ASSUME BaseInv, EngineInv, GoodInv, [Next]_vars PROVE GoodInv'
  OBVIOUS
<1>0. /\ misc.slot_info \in Metadata /\ cur \in AllSlots /\ target \in AllSlots /\ want \in AllSlots
      /\ cur \in Existing /\ target \in Existing /\ want \in Existing
  BY SlotNumbers DEF BaseInv, Types0
<1>1. PICK g \in Existing : Good(g)
  BY DEF GoodInv
<1>2. g \in AllSlots
  BY SlotNumbers
<1> DEFINE Kept == (\E s \in Existing : Good(s))' /\ (~misc'.crc => torn' >= 1)
<1>3. ASSUME misc' = misc, torn' = torn PROVE Kept
  BY <1>3 DEF GoodInv, Good
<1>4. CASE UNCHANGED vars
  <2>1. UNCHANGED <<misc, torn, phase, cur, num_slots>>
    BY <1>4 DEF vars, disk
  <2>2. Kept
    BY <1>3, <2>1
  <2> QED BY <2>1, <2>2 DEF GoodInv
<1>5. CASE BootSystem
  <2>1. /\ cur' \in Choice /\ misc'.crc = misc.crc
        /\ \A t \in Existing :
              /\ misc'.slot_info[t].priority = misc.slot_info[t].priority
              /\ misc'.slot_info[t].successful = misc.slot_info[t].successful
              /\ misc.slot_info[t].successful => misc'.slot_info[t].tries = misc.slot_info[t].tries
    BY <1>5, BootFacts
  <2>2. Good(g)'
    BY <1>1, <2>1 DEF Good
  <2>3. phase = "off" /\ phase' = "init" /\ num_slots' = num_slots /\ torn' = torn
    BY <1>5 DEF BootSystem
  <2>4. misc'.crc => misc'.slot_info[cur'].priority > 0
    BY <2>1, ChoiceExists DEF Bootable
  <2> QED BY <2>1, <2>2, <2>3, <2>4 DEF GoodInv, Running
<1>6. CASE HalStarts
  <2>1. phase = "init" /\ LazyInitialization("ask") /\ cur' = cur /\ phase' = "ask"
    BY <1>6 DEF HalStarts, LazyInitialization
  <2>2. /\ Kept
        /\ \/ misc' = misc /\ (~misc.crc => num_slots' = num_slots)
           \/ misc'.slot_info[cur].priority > 0
    BY <2>1, InitializationGood
  <2>3. num_slots = 0
    BY <2>1 DEF GoodInv
  <2>4. num_slots' # 0 => misc'.slot_info[cur].priority > 0
    BY <2>1, <2>2, <2>3 DEF GoodInv
  <2> QED BY <2>1, <2>2, <2>4 DEF GoodInv
<1>7. CASE AskSuccessful \/ OpenCareMap \/ (\E h \in 1..Groups : ReadGroup(h)) \/ JoinReaders
             \/ EngineStarts \/ EngineWrites
  <2>1. UNCHANGED <<misc, cur, num_slots>> /\ phase \in Running /\ phase' \in Running
    BY <1>7 DEF AskSuccessful, OpenCareMap, ReadGroup, JoinReaders, EngineStarts, EngineWrites, disk, Running
  <2>2. torn' = torn
    BY <1>7 DEF AskSuccessful, OpenCareMap, ReadGroup, JoinReaders, EngineStarts, EngineWrites,
       NoMishap, Mishap
  <2>3. Kept
    BY <1>3, <2>1, <2>2
  <2> QED BY <2>1, <2>3 DEF GoodInv, Running
<1>8. CASE MarkSuccessful
  <2> DEFINE new == MarkBootSuccessful(misc.slot_info)
  <2>1. /\ Saved(new) \/ NotSaved(new)
        /\ phase \in Running /\ phase' \in {"up", "reboot"} /\ UNCHANGED <<cur, num_slots>>
    BY <1>8 DEF MarkSuccessful, Running
  <2>2. /\ new \in Metadata /\ \A s \in AllSlots : s # cur => new[s] = misc.slot_info[s]
        /\ new[cur].successful /\ new[cur].tries = 1 /\ new[cur].priority = misc.slot_info[cur].priority
    BY <1>0, MarkFacts
  <2>3. new[g].successful /\ new[g].tries > 0 /\ new[g].priority > 0
    BY <1>1, <1>2, <2>2 DEF Good
  <2>4. Kept
    BY <1>1, <2>1, <2>2, <2>3, WrittenGood
  <2>5. misc'.slot_info[cur] \in {new[cur], misc.slot_info[cur]}
    BY <1>0, <2>1, <2>2, SavedFacts, NotSavedFacts
  <2>6. num_slots # 0 => misc'.slot_info[cur].priority > 0
    BY <2>1, <2>2, <2>5 DEF GoodInv
  <2> QED BY <2>1, <2>4, <2>6 DEF GoodInv, Running
<1>9. CASE RebootDevice \/ UserReboots \/ PowerLoss
  <2>1. misc' = misc /\ torn' = torn /\ phase' = "off" /\ num_slots' = 0
    BY <1>9 DEF RebootDevice, UserReboots, PowerLoss, Off, disk, NoMishap, Mishap
  <2> QED BY <1>3, <2>1 DEF GoodInv, Running
<1>10. CASE BootRecovery \/ UserSwitches \/ RepackSwitches \/ RepackEnds
  <2>1. misc' = misc /\ torn' = torn /\ phase' \in {"recovery", "switch"}
    BY <1>10 DEF BootRecovery, UserSwitches, RepackSwitches, RepackEnds, Switch, disk
  <2> QED BY <1>3, <2>1 DEF GoodInv, Running
<1>11. CASE EngineUnbootable
  <2> DEFINE new == SetSlotAsUnbootable(misc.slot_info, target)
  <2>1. /\ Saved(new) \/ NotSaved(new)
        /\ phase = "up" /\ engine # "idle" /\ UNCHANGED <<phase, cur, num_slots>>
    BY <1>11 DEF EngineUnbootable
  <2>2. new \in Metadata /\ \A s \in AllSlots : s # target => new[s] = misc.slot_info[s]
    BY <1>0, UnbootableFacts
  <2>3. cur # target /\ Good(cur)
    BY <2>1 DEF EngineInv, GoodInv, Good, Running
  <2>4. new[cur] = misc.slot_info[cur]
    BY <1>0, <2>2, <2>3
  <2>5. Kept
    BY <1>0, <2>1, <2>2, <2>3, <2>4, WrittenGood DEF Good
  <2>6. misc'.slot_info[cur] = misc.slot_info[cur]
    BY <1>0, <2>1, <2>2, <2>4, SavedFacts, NotSavedFacts
  <2> QED BY <2>1, <2>3, <2>5, <2>6 DEF GoodInv, Good
<1>12. CASE EngineActivates
  <2> DEFINE new == SetActiveBootSlot(misc.slot_info, target)
  <2>1. /\ Saved(new) \/ NotSaved(new)
        /\ phase = "up" /\ engine # "idle" /\ UNCHANGED <<phase, cur, num_slots>>
    BY <1>12 DEF EngineActivates
  <2>2. /\ new \in Metadata
        /\ \A s \in AllSlots : s # target =>
             /\ new[s].successful = misc.slot_info[s].successful
             /\ new[s].tries = misc.slot_info[s].tries
             /\ misc.slot_info[s].priority > 0 => new[s].priority > 0
    BY <1>0, ActiveFacts
  <2>3. cur # target /\ Good(cur)
    BY <2>1 DEF EngineInv, GoodInv, Good, Running
  <2>4. new[cur].successful /\ new[cur].tries > 0 /\ new[cur].priority > 0
    BY <1>0, <2>2, <2>3 DEF Good
  <2>5. Kept
    BY <1>0, <2>1, <2>2, <2>3, <2>4, WrittenGood
  <2>6. misc'.slot_info[cur].priority > 0
    BY <1>0, <2>1, <2>2, <2>3, <2>4, SavedFacts, NotSavedFacts DEF Good
  <2> QED BY <2>1, <2>5, <2>6 DEF GoodInv
<1>13. CASE SwitchInit
  <2>1. LazyInitialization("set") /\ cur' = cur /\ phase' = "set"
    BY <1>13 DEF SwitchInit, LazyInitialization
  <2>2. Kept
    BY <2>1, InitializationGood
  <2> QED BY <2>1, <2>2 DEF GoodInv, Running
<1>14. CASE SwitchSet
  <2> DEFINE new == SetActiveBootSlot(misc.slot_info, want)
  <2>1. phase' = "recovery"
    BY <1>14 DEF SwitchSet
  <2>2. Kept
    <3>1. CASE UNCHANGED <<misc, torn>>
      BY <1>3, <3>1
    <3>2. CASE Saved(new) \/ NotSaved(new)
      <4>1. /\ new \in Metadata
            /\ new[want].priority = 15 /\ new[want].tries = kActiveTries
            /\ \A s \in AllSlots : new[s].successful = misc.slot_info[s].successful
            /\ \A s \in AllSlots : s # want =>
                 /\ new[s].tries = misc.slot_info[s].tries
                 /\ misc.slot_info[s].priority > 0 => new[s].priority > 0
        BY <1>0, ActiveFacts
      <4>2. new[g].successful /\ new[g].tries > 0 /\ new[g].priority > 0
        BY <1>1, <1>2, <4>1, Tries DEF Good
      <4> QED BY <1>1, <3>2, <4>1, <4>2, WrittenGood
    <3> QED BY <1>14, <3>1, <3>2 DEF SwitchSet
  <2> QED BY <2>1, <2>2 DEF GoodInv, Running
<1> QED BY <1>4, <1>5, <1>6, <1>7, <1>8, <1>9, <1>10, <1>11, <1>12, <1>13, <1>14 DEF Next, BootStep

\* If at most one write of the block is torn, the bootloader always has a slot
\* to boot whose image is good or was waived, as long as the block is not corrupt:
\* whatever updates fail, power losses happen and slots are switched.  (GoodInv
\* keeps such a slot while the block is corrupt, too.)
THEOREM AlwaysBootable ==
  ASSUME MaxTorn <= 1
  PROVE  Spec => []NeverStranded
<1>1. Init => EngineInv /\ CheckedInv /\ GoodInv
  <2> SUFFICES ASSUME Init PROVE EngineInv /\ CheckedInv /\ GoodInv
    OBVIOUS
  <2>1. EngineInv
    BY DEF Init, EngineInv
  <2>2. CheckedInv
    BY InitFacts, SlotNumbers DEF Init, CheckedInv
  <2>3. PICK s \in Existing : s = cur /\ Good(s) /\ misc.crc
    BY InitFacts, SlotNumbers DEF Good
  <2>4. GoodInv
    BY <2>3 DEF Init, GoodInv, Running
  <2> QED BY <2>1, <2>2, <2>4
<1>2. CheckedInv /\ GoodInv => NeverStranded
  BY DEF CheckedInv, GoodInv, Good, NeverStranded, Bootable
<1>3. BaseInv /\ EngineInv /\ GoodInv /\ [Next]_vars => GoodInv'
  BY StepGood
<1> QED BY <1>1, <1>2, <1>3, InitBase, StepBase, StepEngine, StepChecked, PTL DEF Spec
=============================================================================
