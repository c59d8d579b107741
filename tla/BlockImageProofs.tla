-------------------------- MODULE BlockImageProofs --------------------------
(***************************************************************************)
(* For every partition, every well-formed transfer list and any sequence   *)
(* of interruptions, power losses and bad stash files: an update that      *)
(* reports success has produced the target image.  An interrupted update   *)
(* can be resumed: always without power loss, and with it whenever the     *)
(* verification has succeeded.                                             *)
(***************************************************************************)
EXTENDS BlockImage, FiniteSetTheorems, TLAPS

(***************************************************************************)
(* The inductive invariant                                                 *)
(***************************************************************************)

\* An index that a run may find in the last-command file: that of a command that records it, or
\* one that the update of another partition has left.
Recorded(n) == n \in OtherIndices \/ (n \in 1..Len(list) /\ SavesIndex(list[n]))

\* What the last-command file names; during an update it is the index the run started from, or
\* lies between that and the current command.
IndexInv ==
  /\ lastcmd # 0 => Recorded(lastcmd)
  /\ phase = "verify" => saved = lastcmd
  /\ phase = "unresumable" => lastcmd = 0
  /\ phase = "update" =>
       /\ saved # 0 => Recorded(saved)
       /\ lastcmd = saved \/ (saved < lastcmd /\ lastcmd <= pc /\ SavesIndex(list[lastcmd]))

\* Where inside a command the update can be; a run is interrupted only if it can be retried.
StepInv ==
  /\ phase = "update" =>
       /\ step \notin {"cmd", "finish"} => pc <= Len(list) /\ saved < pc
       /\ step = "finish" => pc = Len(list) + 1
       /\ step = "index" => SavesIndex(list[pc])
       /\ (step \in {"index", "write"} /\ IsPatch(list[pc])) => buffer
  /\ phase = "interrupted" => restarts < MaxRestarts

\* Only the target of the current command can be unsynced.
SyncInv ==
  \A b \in Blocks : disk[b] # synced[b] =>
    phase = "update" /\ step \in {"free", "sync"} /\ b \in list[pc].tgt

\* Blocks outside every target keep their contents.
DiskInv ==
  /\ \A b \in Blocks : (\A i \in 1..Len(list) : b \notin list[i].tgt) => disk[b] = Source[b]
  /\ SyncInv

\* The commands that have been passed or will be skipped are done.
DoneInv ==
  /\ \A i \in 1..Len(list) : (IsFill(list[i]) /\ i <= lastcmd) => Done(list[i])
  /\ phase = "verify" =>
       \A i \in 1..Len(list) : (IsPatch(list[i]) /\ i < pc /\ i <= saved) => Done(list[i])
  /\ phase = "verified" =>
       \A i \in 1..Len(list) : (IsPatch(list[i]) /\ i <= lastcmd) => Done(list[i])
  /\ phase = "update" =>
       \A i \in 1..Len(list) :
         (i <= saved \/ i < pc \/ (i = pc /\ step \in {"free", "sync"})) => Done(list[i])
  /\ phase = "done" => disk = Target

\* The `new` commands this run has executed.
NewExecuted ==
  {i \in 1..Len(list) : /\ list[i].op = "new" /\ saved < i
                        /\ i < pc \/ (i = pc /\ step \in {"free", "sync"})}

NewInv == phase = "update" => newpos = Cardinality(NewExecuted)

Inv == TypeOK /\ IndexInv /\ StepInv /\ DiskInv /\ DoneInv /\ NewInv

----------------------------------------------------------------------------
\* What the types and the well-formedness of the list say about its commands.
LEMMA ListFacts ==
  ASSUME list \in Lists
  PROVE  /\ Len(list) \in Nat
         /\ \A i \in 1..Len(list) :
              /\ list[i].op \in Ops
              /\ list[i].tgt \subseteq Blocks /\ list[i].src \subseteq Blocks
              /\ list[i].use \subseteq Ids /\ list[i].id \in Ids \cup {NoId}
              /\ Shaped(list[i])
         /\ \A i, j \in 1..Len(list) :
              /\ i # j => \A b \in list[i].tgt : b \notin list[j].tgt
              /\ i < j => \A b \in list[i].tgt : b \notin list[j].src
         /\ \A b \in Blocks :
              (\A i \in 1..Len(list) : b \notin list[i].tgt) => Target[b] = Source[b]
<1>1. list \in Seq(Command) /\ WellFormed(list)
  BY DataAssumption
<1>2. \A i \in 1..Len(list) : list[i] \in Command
  BY <1>1
<1>3. Len(list) \in Nat
  BY <1>1
<1>4. \A i \in 1..Len(list) :
        /\ list[i].op \in Ops
        /\ list[i].tgt \subseteq Blocks /\ list[i].src \subseteq Blocks
        /\ list[i].use \subseteq Ids /\ list[i].id \in Ids \cup {NoId}
  BY <1>2 DEF Command
<1>5. \A i \in 1..Len(list) : Shaped(list[i])
  BY <1>1 DEF WellFormed
<1>6. \A i, j \in 1..Len(list) :
        /\ i # j => list[i].tgt \cap list[j].tgt = {}
        /\ i < j => list[i].tgt \cap list[j].src = {}
  BY <1>1 DEF WellFormed
<1>7. \A b \in Blocks :
        (\A i \in 1..Len(list) : b \notin list[i].tgt) => Target[b] = Source[b]
  BY <1>1 DEF WellFormed
<1> QED
  BY <1>3, <1>4, <1>5, <1>6, <1>7

\* The index of another list may be larger than this one is long.
LEMMA IndexFacts ==
  ASSUME TypeOK
  PROVE  lastcmd \in Nat /\ saved \in Nat /\ Len(list) \in Nat
BY ListFacts, OtherAssumption DEF TypeOK

\* A command that records its index is no fill.
LEMMA FillSavesNothing ==
  ASSUME NEW c PROVE IsFill(c) => ~SavesIndex(c)
BY DEF IsFill, SavesIndex, IsPatch

\* The invariant holds before the first run.
LEMMA InitInv == Init => Inv
<1> SUFFICES ASSUME Init PROVE Inv
  OBVIOUS
<1>0. list \in Lists
  BY DEF Init
<1>1. TypeOK
  <2>1. /\ Len(list) \in Nat
        /\ Source \in [Blocks -> Values]
        /\ MaxRestarts \in Nat /\ MaxRots \in Nat
    BY <1>0, ListFacts, DataAssumption, BoundsAssumption
  <2>2. dir \in BOOLEAN /\ createdstash \in BOOLEAN /\ buffer \in BOOLEAN
    BY Zenon DEF Init
  <2>3. stash \in [Ids -> {"none", "good", "bad"}] /\ stash_map \in [Ids -> SUBSET Blocks]
    BY DEF Init
  <2>4. phase \in Phases /\ step \in Steps
    BY DEF Init, Phases, Steps
  <2>5. /\ lastcmd \in 0..Len(list) /\ saved \in 0..Len(list) /\ pc \in 1..(Len(list) + 1)
        /\ newpos \in Nat /\ restarts \in 0..MaxRestarts /\ rots \in 0..MaxRots
    BY <2>1 DEF Init
  <2> QED
    BY <1>0, <2>1, <2>2, <2>3, <2>4, <2>5 DEF Init, TypeOK
<1>2. IndexInv /\ StepInv /\ DiskInv /\ NewInv
  BY DEF Init, IndexInv, StepInv, DiskInv, SyncInv, NewInv
<1>3. DoneInv
  BY <1>0, ListFacts DEF Init, DoneInv
<1> QED
  BY <1>1, <1>2, <1>3 DEF Inv
----------------------------------------------------------------------------
\* The lemmas on steps look into every action but FullPackage and OtherPartition, which have
\* lemmas of their own.
USE DEF Next, Updater, vars, files, run, bounds, ParseLastCommandFile, Begin,
  BeginVerify, BeginUpdate, Unresumable, Verifying, VerifyNext, VerifySkip, VerifyPatch,
  VerifyPatchFails, VerifyStash, VerifyFree, VerifyEnds, AtCommand, Executing, Goto,
  SkipExecuted, PatchAlreadyDone, PatchFromSource, PatchStashSource, PatchFromStash,
  PatchFails, StashSkipped, StashSource, UpdateLastCommandIndex, PerformCommandFree,
  Fill, PerformCommandZero, PerformCommandErase, PerformCommandNew, WriteBlocks,
  FreeImplicitStash, SyncCommand, DeleteStash, DeleteLastCommandFile, Interrupt, Again,
  Retry, Repeat, StashRots, Ended

(***************************************************************************)
(* Type correctness                                                        *)
(***************************************************************************)
LEMMA NextTypeOK ==
  ASSUME TypeOK, StepInv, [Next]_vars, ~FullPackage, ~OtherPartition
  PROVE  TypeOK'
<1>1. list' = list /\ Len(list) \in Nat
  BY ListFacts DEF TypeOK
<1>2. dir' \in BOOLEAN
  BY Zenon DEF TypeOK
<1>3. createdstash' \in BOOLEAN
  BY Zenon DEF TypeOK
<1>4. buffer' \in BOOLEAN
  BY Zenon DEF TypeOK, LoadSourceBlocks, Clean
<1>5. phase' \in Phases /\ step' \in Steps
  BY DEF TypeOK, Phases, Steps
<1>6. lastcmd' \in (0..Len(list)) \cup OtherIndices
  BY <1>1 DEF TypeOK, StepInv
<1>7. saved' \in (0..Len(list)) \cup OtherIndices
  BY <1>1 DEF TypeOK
<1>8. pc' \in 1..(Len(list) + 1)
  BY <1>1 DEF TypeOK, StepInv
<1>9. newpos' \in Nat
  BY DEF TypeOK
<1>10. restarts' \in 0..MaxRestarts
  BY BoundsAssumption DEF TypeOK, StepInv
<1>11. rots' \in 0..MaxRots
  BY BoundsAssumption DEF TypeOK
<1>12. freestash' \in Ids \cup {NoId}
  BY <1>1, ListFacts DEF TypeOK, cmd
<1>13. stash' \in [Ids -> {"none", "good", "bad"}]
  BY DEF TypeOK, DropBadStash
<1>14. stash_map' \in [Ids -> SUBSET Blocks]
  <2>1. pc <= Len(list) => cmd.src \in SUBSET Blocks
    BY <1>1, ListFacts DEF TypeOK, cmd
  <2>2. CASE VerifyStash \/ StashSkipped \/ StashSource
    BY <2>1, <2>2 DEF TypeOK
  <2>3. CASE VerifyFree \/ PerformCommandFree
    BY <2>3 DEF TypeOK
  <2>4. CASE Retry \/ Repeat
    BY <2>4
  <2>5. CASE ~(VerifyStash \/ StashSkipped \/ StashSource \/ VerifyFree \/ PerformCommandFree
               \/ Retry \/ Repeat)
    BY <2>5 DEF TypeOK
  <2> QED
    BY <2>2, <2>3, <2>4, <2>5
<1>15. disk' \in [Blocks -> Values]
  BY DataAssumption DEF TypeOK
<1>16. synced' \in [Blocks -> Values]
  BY <1>15 DEF TypeOK
<1> QED
  BY <1>1, <1>2, <1>3, <1>4, <1>5, <1>6, <1>7, <1>8, <1>9, <1>10, <1>11, <1>12, <1>13, <1>14,
     <1>15, <1>16 DEF TypeOK

\* No step leaves a command at a place the code cannot be.
LEMMA NextStepInv ==
  ASSUME TypeOK, StepInv, [Next]_vars, ~FullPackage, ~OtherPartition
  PROVE  StepInv'
<1>0. list' = list /\ Len(list) \in Nat
  BY ListFacts DEF TypeOK
<1>1. (phase = "interrupted" => restarts < MaxRestarts)'
  BY DEF StepInv
<1>2. (phase = "update" /\ step \notin {"cmd", "finish"} => pc <= Len(list) /\ saved < pc)'
  BY <1>0 DEF StepInv, TypeOK
<1>3. (phase = "update" /\ step = "finish" => pc = Len(list) + 1)'
  BY <1>0 DEF StepInv
<1>4. (phase = "update" /\ step = "index" => SavesIndex(list[pc]))'
  BY <1>0 DEF StepInv, SavesIndex, cmd
<1>5. ASSUME phase' = "update", step' \in {"index", "write"}, IsPatch(list'[pc'])
      PROVE  buffer'
  <2>1. CASE PatchFromSource \/ PatchStashSource
    BY <2>1, Zenon DEF FromSource
  <2>2. CASE PatchFromStash
    <3>1. LoadStash(cmd.id) /\ phase = "update"
      BY <2>2 DEF FromStash
    <3>2. stash[cmd.id] = "good"
      BY <3>1 DEF LoadStash
    <3> QED
      BY <2>2, <3>2, Zenon
  <2>3. CASE ~(PatchFromSource \/ PatchStashSource \/ PatchFromStash)
    <3>1. phase = "update" /\ step \in {"index", "write"} /\ pc' = pc /\ buffer' = buffer
      BY <1>0, <1>5, <2>3, SMT DEF IsPatch, IsFill, cmd
    <3> QED
      BY <1>0, <1>5, <3>1, Zenon DEF StepInv
  <2> QED
    BY <2>1, <2>2, <2>3, Zenon
<1> QED
  BY <1>1, <1>2, <1>3, <1>4, <1>5 DEF StepInv

\* The last-command file only ever names a command that records its index, or what was left in
\* it by another partition.
LEMMA NextIndexInv ==
  ASSUME TypeOK, StepInv, IndexInv, [Next]_vars, ~FullPackage, ~OtherPartition
  PROVE  IndexInv'
<1>0. list' = list /\ Len(list) \in Nat
  BY ListFacts DEF TypeOK
<1>1. (lastcmd # 0 => Recorded(lastcmd))'
  BY <1>0 DEF StepInv, IndexInv, TypeOK, Recorded, SavesIndex
<1>2. (phase = "verify" => saved = lastcmd)' /\ (phase = "unresumable" => lastcmd = 0)'
  BY <1>0 DEF IndexInv
<1>3. (phase = "update" /\ saved # 0 => Recorded(saved))'
  BY <1>0 DEF IndexInv, Recorded, SavesIndex
<1>4. (phase = "update" =>
         lastcmd = saved \/ (saved < lastcmd /\ lastcmd <= pc /\ SavesIndex(list[lastcmd])))'
  BY <1>0, IndexFacts DEF IndexInv, StepInv, TypeOK, SavesIndex
<1> QED
  BY <1>1, <1>2, <1>3, <1>4 DEF IndexInv

----------------------------------------------------------------------------
(***************************************************************************)
(* What a step does to the partition                                       *)
(***************************************************************************)

\* The update is about to write the target of its command, or has just written it.
Dirty == phase = "update" /\ step \in {"write", "free", "sync"}

\* A step only changes blocks of the target of the current command.
LEMMA DiskStep ==
  ASSUME disk \in [Blocks -> Values], SyncInv, [Next]_vars, ~FullPackage
  PROVE  /\ ~Dirty => disk' = disk
         /\ \A b \in Blocks : b \notin list[pc].tgt => disk'[b] = disk[b]
<1>1. CASE WriteBlocks
  BY <1>1 DEF Dirty, cmd
<1>2. CASE Interrupt
  <2>1. PICK written \in SUBSET BeingWritten, lost \in SUBSET Unsynced,
             torn \in SUBSET (BeingWritten \cup Unsynced) :
          disk' = [b \in Blocks |-> IF b \in torn THEN Garbage
                                    ELSE IF b \in written THEN Target[b]
                                    ELSE IF b \in lost THEN synced[b]
                                    ELSE disk[b]]
    BY <1>2
  <2>2. \A b \in Unsynced : Dirty /\ b \in list[pc].tgt
    BY DEF SyncInv, Unsynced, Dirty
  <2>3. \A b \in BeingWritten : Dirty /\ b \in list[pc].tgt
    BY DEF BeingWritten, Dirty, cmd
  <2>4. \A b \in Blocks : (~Dirty \/ b \notin list[pc].tgt) => disk'[b] = disk[b]
    BY <2>1, <2>2, <2>3
  <2>5. disk' = [b \in Blocks |-> disk'[b]]
    BY <2>1
  <2> QED
    BY <2>4, <2>5
<1>3. CASE ~WriteBlocks /\ ~Interrupt
  <2>1. disk' = disk
    BY <1>3 DEF OtherPartition
  <2> QED
    BY <2>1
<1> QED
  BY <1>1, <1>2, <1>3

\* What is written is synced before the next command.
LEMMA NextSyncInv ==
  ASSUME disk \in [Blocks -> Values], SyncInv, [Next]_vars, ~FullPackage
  PROVE  SyncInv'
<1>1. CASE WriteBlocks
  BY <1>1 DEF SyncInv, cmd
<1>2. CASE Interrupt \/ SyncCommand
  <2>1. synced' = disk'
    BY <1>2
  <2> QED
    BY <2>1 DEF SyncInv
<1>3. CASE ~WriteBlocks /\ ~Interrupt /\ ~SyncCommand
  <2>1. disk' = disk /\ synced' = synced /\ list' = list
    BY <1>3 DEF OtherPartition
  <2>2. phase = "update" /\ step \in {"free", "sync"} =>
           phase' = "update" /\ step' \in {"free", "sync"} /\ pc' = pc
    BY <1>3 DEF OtherPartition
  <2> QED
    BY <2>1, <2>2 DEF SyncInv
<1> QED
  BY <1>1, <1>2, <1>3

\* A command that is done stays done, except the one being written.
LEMMA DoneStep ==
  ASSUME TypeOK, StepInv, DiskInv, [Next]_vars, ~FullPackage, ~OtherPartition,
         NEW i \in 1..Len(list), Done(list[i]), Dirty => i # pc
  PROVE  Done(list[i])'
<1>1. list' = list
  OBVIOUS
<1>2. CASE ~Dirty
  BY <1>1, <1>2, DiskStep DEF Done, TypeOK, DiskInv
<1>3. CASE Dirty
  <2>1. pc \in 1..Len(list) /\ i # pc
    BY <1>3, ListFacts DEF TypeOK, StepInv, Dirty
  <2>2. \A b \in list[i].tgt : b \in Blocks /\ b \notin list[pc].tgt
    BY <2>1, ListFacts DEF TypeOK
  <2> QED
    BY <1>1, <2>2, DiskStep DEF Done, TypeOK, DiskInv
<1> QED
  BY <1>2, <1>3

\* Nothing but targets is written, and nothing but the current target is unsynced.
LEMMA NextDiskInv ==
  ASSUME TypeOK, StepInv, DiskInv, [Next]_vars, ~FullPackage, ~OtherPartition
  PROVE  DiskInv'
<1>0. list' = list /\ Len(list) \in Nat
  BY ListFacts DEF TypeOK
<1>1. \A b \in Blocks : (\A i \in 1..Len(list) : b \notin list[i].tgt) => disk'[b] = disk[b]
  <2>1. Dirty => pc \in 1..Len(list)
    BY <1>0 DEF TypeOK, StepInv, Dirty
  <2> QED
    BY <2>1, DiskStep DEF TypeOK, DiskInv
<1> QED
  BY <1>0, <1>1, NextSyncInv DEF DiskInv, TypeOK

----------------------------------------------------------------------------
(***************************************************************************)
(* The new-data stream stays aligned with the `new` commands               *)
(***************************************************************************)
LEMMA NewExecutedFinite ==
  ASSUME TypeOK
  PROVE  IsFiniteSet(NewExecuted) /\ Cardinality(NewExecuted) \in Nat
<1>1. Len(list) \in Nat
  BY ListFacts DEF TypeOK
<1>2. IsFiniteSet(1..Len(list))
  BY <1>1, FS_Interval
<1>3. NewExecuted \subseteq 1..Len(list)
  BY DEF NewExecuted
<1> QED
  BY <1>2, <1>3, FS_Subset, FS_CardinalityType

\* What is about to be written is right: no `new` command has been skipped, so the stream
\* is at the section of the current one.
LEMMA WritesRightData ==
  ASSUME TypeOK, StepInv, IndexInv, NewInv, Unsplit(list),
         phase = "update", step = "write"
  PROVE  RightData
<1>1. pc \in 1..Len(list) /\ saved < pc /\ Len(list) \in Nat /\ saved \in Nat
  BY IndexFacts DEF TypeOK, StepInv
<1>2. IsPatch(list[pc]) => buffer
  BY Zenon DEF StepInv
<1>3. ASSUME list[pc].op = "new"
      PROVE  newpos + 1 = Cardinality(NewUpTo(pc))
  <2>1. ASSUME NEW i \in 1..Len(list), list[i].op = "new", i < pc
        PROVE  saved < i
    <3> SUFFICES ASSUME i <= saved PROVE FALSE
      BY <1>1
    <3>1. Recorded(saved)
      BY <1>1 DEF IndexInv
    <3>2. CASE saved \in OtherIndices
      BY <1>1, <1>3, <2>1, <3>2 DEF Unsplit
    <3>3. CASE saved \in 1..Len(list) /\ SavesIndex(list[saved])
      <4>1. i # saved
        BY <2>1, <3>3 DEF SavesIndex, IsPatch
      <4> QED
        BY <1>1, <1>3, <2>1, <3>3, <4>1 DEF Unsplit, NewTogether
    <3> QED
      BY <3>1, <3>2, <3>3 DEF Recorded
  <2>2. NewUpTo(pc) = NewExecuted \cup {pc} /\ pc \notin NewExecuted
    BY <1>1, <1>3, <2>1 DEF NewUpTo, NewExecuted
  <2> QED
    BY <2>2, NewExecutedFinite, FS_AddElement DEF NewInv
<1> QED
  BY <1>2, <1>3, Zenon DEF RightData, cmd

\* The new-data stream advances with the `new` commands.
LEMMA NextNewInv ==
  ASSUME TypeOK, StepInv, NewInv, [Next]_vars, ~FullPackage, ~OtherPartition
  PROVE  NewInv'
<1>0. list' = list /\ Len(list) \in Nat
  BY ListFacts DEF TypeOK
<1>1. CASE BeginUpdate
  <2>1. NewExecuted' = {} /\ newpos' = 0
    BY <1>1 DEF NewExecuted
  <2> QED
    BY <2>1, FS_EmptySet DEF NewInv
<1>2. CASE WriteBlocks /\ cmd.op = "new"
  <2>1. pc \in 1..Len(list) /\ saved < pc
    BY <1>0, <1>2 DEF StepInv, TypeOK
  <2>2. NewExecuted' = NewExecuted \cup {pc} /\ pc \notin NewExecuted
    BY <1>0, <1>2, <2>1 DEF NewExecuted, cmd
  <2>3. newpos' = newpos + 1 /\ newpos = Cardinality(NewExecuted)
    BY <1>2 DEF NewInv
  <2> QED
    BY <2>2, <2>3, NewExecutedFinite, FS_AddElement DEF NewInv
<1>3. CASE ~BeginUpdate /\ ~(WriteBlocks /\ cmd.op = "new")
  <2> SUFFICES ASSUME phase' = "update"
               PROVE  newpos' = Cardinality(NewExecuted')
    BY DEF NewInv
  <2>1. newpos' = newpos /\ phase = "update"
    BY <1>3
  <2>2. ASSUME NEW i \in 1..Len(list), list[i].op = "new"
        PROVE  (saved' < i /\ (i < pc' \/ (i = pc' /\ step' \in {"free", "sync"})))
               <=> (saved < i /\ (i < pc \/ (i = pc /\ step \in {"free", "sync"})))
    BY <1>0, <1>3, <2>2 DEF TypeOK, StepInv, IsPatch, cmd
  <2>3. NewExecuted' = NewExecuted
    BY <1>0, <2>2 DEF NewExecuted
  <2> QED
    BY <2>1, <2>3 DEF NewInv
<1> QED
  BY <1>1, <1>2, <1>3

----------------------------------------------------------------------------
(***************************************************************************)
(* The commands that are passed or skipped are done                        *)
(***************************************************************************)

\* A stash or free command writes nothing.
LEMMA NothingToDo ==
  ASSUME TypeOK, NEW i \in 1..Len(list), list[i].op \in {"stash", "free"}
  PROVE  Done(list[i])
BY ListFacts DEF TypeOK, Done, Shaped

\* The commands a run will skip are done when it starts: the moves and diffs because they
\* have just been verified, the others because the file was written after them.
LEMMA SkippedAreDone ==
  ASSUME TypeOK, DoneInv, phase = "verified", NEW i \in 1..Len(list), i <= lastcmd
  PROVE  Done(list[i])
<1>1. CASE IsPatch(list[i])
  BY <1>1 DEF DoneInv
<1>2. CASE IsFill(list[i])
  BY <1>2 DEF DoneInv
<1>3. CASE list[i].op \in {"stash", "free"}
  BY <1>3, NothingToDo
<1> QED
  BY <1>1, <1>2, <1>3, ListFacts DEF TypeOK, Ops, IsPatch, IsFill

\* What has been passed, or will be skipped, stays done.
LEMMA NextDoneInv ==
  ASSUME TypeOK, IndexInv, StepInv, DiskInv, DoneInv, NewInv, Unsplit(list), [Next]_vars,
         ~FullPackage, ~OtherPartition
  PROVE  DoneInv'
<1>0. list' = list /\ Len(list) \in Nat
  BY ListFacts DEF TypeOK
<1>1. ASSUME NEW i \in 1..Len(list), IsFill(list[i]), i <= lastcmd'
      PROVE  Done(list[i])'
  <2>1. lastcmd' \in {0, lastcmd} \/ (phase = "update" /\ step = "index" /\ lastcmd' = pc)
    OBVIOUS
  <2>2. CASE lastcmd' \in {0, lastcmd}
    <3>1. i <= lastcmd
      BY <1>0, <1>1, <2>2
    <3>2. Dirty => i # pc
      <4>1. lastcmd = pc => ~SavesIndex(list[lastcmd]) \/ i # pc
        BY <1>1, FillSavesNothing
      <4> QED
        BY <1>0, <3>1, <4>1, IndexFacts DEF TypeOK, IndexInv, StepInv, Dirty
    <3>3. Done(list[i])
      BY <1>1, <3>1 DEF DoneInv
    <3> QED
      BY <3>2, <3>3, DoneStep
  <2>3. CASE phase = "update" /\ step = "index" /\ lastcmd' = pc
    <3>1. i # pc
      BY <1>1, <2>3, FillSavesNothing DEF StepInv
    <3>2. i < pc
      BY <1>0, <1>1, <2>3, <3>1 DEF TypeOK
    <3>3. Done(list[i]) /\ ~Dirty
      BY <2>3, <3>2 DEF DoneInv, Dirty
    <3> QED
      BY <3>3, DoneStep
  <2> QED
    BY <2>1, <2>2, <2>3
<1>2. ASSUME phase' = "verify", NEW i \in 1..Len(list), IsPatch(list[i]), i < pc', i <= saved'
      PROVE  Done(list[i])'
  <2>1. ~Dirty /\ phase = "verify"
    BY <1>0, <1>2 DEF Dirty
  <2>2. CASE i < pc
    <3>1. i <= saved
      BY <1>0, <1>2, <2>1
    <3>2. Done(list[i])
      BY <1>2, <2>1, <2>2, <3>1 DEF DoneInv
    <3> QED
      BY <2>1, <3>2, DoneStep
  <2>3. CASE ~(i < pc)
    <3>1. i = pc /\ VerifyPatch
      BY <1>0, <1>2, <2>1, <2>3 DEF TypeOK, IsPatch, IsFill, cmd
    <3>2. AlreadyDone
      BY <1>2, <3>1 DEF TypeOK
    <3> QED
      BY <2>1, <3>1, <3>2, DoneStep DEF AlreadyDone, cmd
  <2> QED
    BY <2>2, <2>3
<1>3. ASSUME phase' = "verified", NEW i \in 1..Len(list), IsPatch(list[i]), i <= lastcmd'
      PROVE  Done(list[i])'
  <2>1. ~Dirty /\ lastcmd' = lastcmd
    BY <1>3 DEF Dirty
  <2>2. CASE VerifyEnds
    BY <1>0, <1>3, <2>1, <2>2, DoneStep DEF DoneInv, IndexInv
  <2>3. CASE ~VerifyEnds
    <3>1. phase = "verified"
      BY <1>3, <2>3
    <3> QED
      BY <1>3, <2>1, <3>1, DoneStep DEF DoneInv
  <2> QED
    BY <2>2, <2>3
<1>4. ASSUME phase' = "update", NEW i \in 1..Len(list),
             i <= saved' \/ i < pc' \/ (i = pc' /\ step' \in {"free", "sync"})
      PROVE  Done(list[i])'
  <2>1. CASE BeginUpdate
    <3>1. i <= lastcmd /\ phase = "verified" /\ ~Dirty
      BY <1>4, <2>1 DEF Dirty
    <3> QED
      BY <3>1, SkippedAreDone, DoneStep
  <2>2. CASE WriteBlocks
    <3>1. CASE i = pc
      <4>1. RightData
        BY <2>2, WritesRightData
      <4>2. \A b \in list[pc].tgt : b \in Blocks
        BY <3>1, ListFacts DEF TypeOK
      <4>3. \A b \in list[pc].tgt : disk'[b] = Target[b]
        BY <2>2, <4>1, <4>2 DEF cmd
      <4> QED
        BY <1>0, <3>1, <4>3 DEF Done
    <3>2. CASE i # pc
      <4>1. Done(list[i])
        BY <1>4, <2>2, <3>2 DEF DoneInv
      <4> QED
        BY <3>2, <4>1, DoneStep
    <3> QED
      BY <3>1, <3>2
  <2>3. CASE ~BeginUpdate /\ ~WriteBlocks
    <3>1. phase = "update" /\ saved' = saved /\ disk' = disk
      BY <1>4, <2>3
    <3>2. CASE i <= saved \/ i < pc \/ (i = pc /\ step \in {"free", "sync"})
      <4>1. Done(list[i])
        BY <3>1, <3>2 DEF DoneInv
      <4> QED
        BY <1>0, <3>1, <4>1 DEF Done
    <3>3. CASE ~(i <= saved \/ i < pc \/ (i = pc /\ step \in {"free", "sync"}))
      <4>1. i = pc /\ (AlreadyDone \/ cmd.op \in {"stash", "free"})
        BY <1>0, <1>4, <2>3, <3>1, <3>3 DEF TypeOK
      <4>2. Done(list[i])
        BY <4>1, NothingToDo DEF AlreadyDone, cmd
      <4> QED
        BY <1>0, <3>1, <4>2 DEF Done
    <3> QED
      BY <3>2, <3>3
  <2> QED
    BY <2>1, <2>2, <2>3
<1>5. ASSUME phase' = "done"
      PROVE  disk' = Target
  <2>1. disk' = disk
    BY <1>5
  <2>2. CASE DeleteLastCommandFile
    <3>1. \A i \in 1..Len(list) : Done(list[i])
      BY <1>0, <2>2 DEF StepInv, DoneInv
    <3>2. ASSUME NEW b \in Blocks PROVE disk[b] = Target[b]
      <4>1. CASE \E i \in 1..Len(list) : b \in list[i].tgt
        BY <3>1, <4>1 DEF Done
      <4>2. CASE \A i \in 1..Len(list) : b \notin list[i].tgt
        BY <4>2, ListFacts DEF DiskInv, TypeOK
      <4> QED
        BY <4>1, <4>2
    <3>3. disk \in [Blocks -> Values] /\ Target \in [Blocks -> Values]
      BY DataAssumption DEF TypeOK
    <3> QED
      BY <2>1, <3>2, <3>3
  <2>3. CASE ~DeleteLastCommandFile
    <3>1. phase = "done"
      BY <1>5, <2>3
    <3> QED
      BY <2>1, <3>1 DEF DoneInv
  <2> QED
    BY <2>2, <2>3
<1> QED
  BY <1>0, <1>1, <1>2, <1>3, <1>4, <1>5, Zenon DEF DoneInv

----------------------------------------------------------------------------
(***************************************************************************)
(* Resumability.  Without power loss and without stash files that go bad,  *)
(* and when no stash id is written again after it was freed, a command     *)
(* that is not done always finds its source.  The inductive invariant:     *)
(***************************************************************************)

\* Command k is a move or diff whose target has not been written completely.
Undone(k) == IsPatch(list[k]) /\ ~Done(list[k])
\* Command k loads what command s stashed.
Uses(k, s) == s < k /\ list[s].op = "stash" /\ list[s].id \in list[k].use
\* This run does not execute command s any more, or the next one may skip it.
Passed(s) ==
  \/ s <= lastcmd
  \/ phase = "update" /\ (s <= saved \/ s < pc \/ (s = pc /\ step # "cmd"))

\* Types, no bad stash file, and where inside a command the update can be: a move or diff is
\* written only when it was found undone and its source is in the buffer.
ResumeTypeOK ==
  /\ list \in Lists /\ disk \in [Blocks -> Values] /\ synced \in [Blocks -> Values]
  /\ stash \in [Ids -> {"none", "good"}]
  /\ stash_map \in [Ids -> SUBSET Blocks]
  /\ lastcmd \in Nat /\ saved \in Nat
  /\ phase \in Phases /\ step \in Steps
  /\ pc \in 1..(Len(list) + 1)
  /\ freestash \in Ids \cup {NoId} /\ rots = 0
  /\ phase = "verify" => saved = lastcmd
  /\ phase = "update" =>
       /\ step \notin {"cmd", "finish"} => pc <= Len(list) /\ saved < pc
       /\ step = "finish" => pc = Len(list) + 1
       /\ step \in {"write", "free"} => list[pc].op # "stash"
       /\ (step \in {"index", "write"} /\ IsPatch(list[pc])) => buffer /\ ~Done(list[pc])

\* There is no stash file without the directory, and none while a verification made it.
DirInv ==
  /\ phase = "verify" \/ (phase = "update" /\ step # "finish") => dir
  /\ ~dir => \A i \in Ids : stash[i] = "none"
  /\ phase = "verify" /\ createdstash => \A i \in Ids : stash[i] = "none"

\* The moves and diffs that have been passed, or will be skipped, are done.
PatchInv ==
  /\ phase = "verify" =>
       \A i \in 1..Len(list) : (IsPatch(list[i]) /\ i < pc /\ i <= saved) => Done(list[i])
  /\ phase = "verified" =>
       \A i \in 1..Len(list) : (IsPatch(list[i]) /\ i <= lastcmd) => Done(list[i])
  /\ phase = "update" =>
       \A i \in 1..Len(list) : IsPatch(list[i]) /\
         (i <= saved \/ i < pc \/ (i = pc /\ step \in {"free", "sync"})) => Done(list[i])
  /\ phase = "done" =>
       \A i \in 1..Len(list) : IsPatch(list[i]) => Done(list[i])

\* A command that is not done has its own source on the partition, or in the stash once it
\* may have begun to overwrite it; what it loads is in the stash, or will be stashed first.
SourceInv ==
  /\ \A k \in 1..Len(list) : Undone(k) =>
       Clean(list[k].src) \/ (Overlap(list[k]) /\ stash[list[k].id] = "good")
  /\ \A s, k \in 1..Len(list) : Uses(k, s) /\ Undone(k) =>
       \/ stash[list[s].id] = "good"
       \/ Clean(list[s].src) /\ ~Passed(s)

\* The copy made for the current command is there until the write is over.
CopyInv ==
  phase = "update" =>
    /\ step \notin {"index", "write", "free"} => freestash = NoId
    /\ step \in {"index", "write"} /\ IsPatch(list[pc]) /\ Overlap(list[pc])
         => stash[list[pc].id] = "good"
    /\ freestash # NoId => IsPatch(list[pc])

\* No other command depends on the copy that is freed then.
SharedInv ==
  phase = "update" /\ freestash # NoId =>
    /\ \A k \in 1..Len(list) :
         Undone(k) /\ k # pc /\ list[k].id = freestash => Clean(list[k].src)
    /\ \A s, k \in 1..Len(list) :
         Uses(k, s) /\ Undone(k) /\ list[s].id = freestash => Clean(list[s].src) /\ ~Passed(s)

\* In a verification an id that was stashed and not freed has a stash file, or else the
\* range one of its stash commands reads; that range is not used when there is a file.
MapInv ==
  /\ phase = "idle" => stash_map = [i \in Ids |-> {}]
  /\ phase = "verify" =>
       /\ \A i \in Ids : stash_map[i] # {} =>
            /\ stash[i] # "good"
            /\ \E s \in 1..(pc - 1) :
                 list[s].op = "stash" /\ list[s].id = i /\ stash_map[i] = list[s].src
       /\ \A s \in 1..(pc - 1) :
            /\ list[s].op = "stash"
            /\ \A f \in 1..(pc - 1) : ~(list[f].op = "free" /\ list[f].id = list[s].id)
            => stash[list[s].id] = "good" \/ stash_map[list[s].id] # {}

\* What is loaded was stashed before, and is not freed until later.
LEMMA StashedBefore ==
  ASSUME list \in Lists, NoReuse(list), NEW k \in 1..Len(list), NEW i \in list[k].use
  PROVE  /\ \E s \in 1..Len(list) : Uses(k, s) /\ list[s].id = i
         /\ \A f \in 1..Len(list) : list[f].op = "free" /\ list[f].id = i => k < f
<1>1. WellFormed(list) /\ Len(list) \in Nat
  BY DataAssumption, ListFacts
<1>2. PICK s \in 1..(k-1) :
         /\ list[s].op = "stash" /\ list[s].id = i
         /\ \A f \in s..k : ~(list[f].op = "free" /\ list[f].id = i)
  BY <1>1 DEF WellFormed
<1>3. s \in 1..Len(list) /\ s < k
  BY <1>1
<1>4. ASSUME NEW f \in 1..Len(list), list[f].op = "free", list[f].id = i PROVE k < f
  <2>1. ~(f \in s..k)
    BY <1>2, <1>4
  <2>2. ~(f < s)
    BY <1>2, <1>3, <1>4 DEF NoReuse
  <2> QED BY <1>1, <1>3, <2>1, <2>2
<1> QED BY <1>2, <1>3, <1>4 DEF Uses

\* The run is inside the write of a command.
Writing == phase = "update" /\ step = "write"

\* Without power loss only the write of a command changes the partition.
LEMMA ResumeDisk ==
  ASSUME ResumeTypeOK, [Next]_vars, ~FullPackage
  PROVE  /\ disk' \in [Blocks -> Values] /\ synced' \in [Blocks -> Values]
         /\ disk' # disk => Writing \/ (PowerLoss /\ Interrupt)
<1>0. /\ disk \in [Blocks -> Values] /\ synced \in [Blocks -> Values]
      /\ Garbage \in Values /\ Target \in [Blocks -> Values]
  BY DataAssumption DEF ResumeTypeOK
<1>1. CASE Interrupt
  <2>1. PICK written \in SUBSET BeingWritten, lost \in SUBSET Unsynced,
             torn \in SUBSET (BeingWritten \cup Unsynced) :
          disk' = [b \in Blocks |-> IF b \in torn THEN Garbage
                                    ELSE IF b \in written THEN Target[b]
                                    ELSE IF b \in lost THEN synced[b]
                                    ELSE disk[b]]
    BY <1>1
  <2>2. disk' \in [Blocks -> Values] /\ synced' = disk'
    BY <1>0, <1>1, <2>1
  <2>3. ASSUME ~Writing, ~PowerLoss PROVE disk' = disk
    <3>1. BeingWritten = {} /\ Unsynced = {}
      BY <2>3, Zenon DEF BeingWritten, Unsynced, Writing
    <3>2. \A b \in Blocks : disk'[b] = disk[b]
      BY <2>1, <3>1
    <3> QED BY <1>0, <2>2, <3>2
  <2> QED BY <1>1, <2>2, <2>3
<1>2. CASE WriteBlocks
  BY <1>0, <1>2 DEF Writing
<1>3. CASE ~WriteBlocks /\ ~Interrupt
  <2>1. disk' = disk /\ synced' \in {disk, synced}
    BY <1>3 DEF OtherPartition
  <2> QED BY <1>0, <2>1
<1> QED BY <1>1, <1>2, <1>3

\* What a later command reads stays clean.
LEMMA CleanKept ==
  ASSUME ResumeTypeOK, SyncInv, [Next]_vars, ~FullPackage, NEW j \in 1..Len(list),
         Clean(list[j].src), disk' # disk => pc < j \/ (j = pc /\ ~Overlap(list[j]))
  PROVE  Clean(list[j].src)'
<1>1. list' = list /\ Len(list) \in Nat
  BY ListFacts DEF ResumeTypeOK, OtherPartition
<1>2. \A b \in list[j].src : disk'[b] = disk[b]
  <2>1. CASE disk' = disk
    BY <2>1
  <2>2. CASE pc < j
    <3>1. \A b \in list[j].src : b \in Blocks /\ b \notin list[pc].tgt
      BY <2>2, ListFacts DEF ResumeTypeOK
    <3> QED BY <3>1, DiskStep DEF ResumeTypeOK
  <2>3. CASE j = pc /\ ~Overlap(list[j])
    <3>1. \A b \in list[j].src : b \in Blocks /\ b \notin list[pc].tgt
      BY <2>3, ListFacts DEF ResumeTypeOK, Overlap
    <3> QED BY <3>1, DiskStep DEF ResumeTypeOK
  <2> QED BY <2>1, <2>2, <2>3
<1> QED BY <1>1, <1>2 DEF Clean

\* A move or diff that is not done was not done before, unless a power loss has undone it.
LEMMA UndoneBefore ==
  ASSUME ResumeTypeOK, SyncInv, [Next]_vars, ~FullPackage, ~(PowerLoss /\ Interrupt),
         NEW k \in 1..Len(list), Undone(k)'
  PROVE  Undone(k)
<1>1. list' = list /\ Len(list) \in Nat
  BY ListFacts DEF ResumeTypeOK, OtherPartition
<1>2. IsPatch(list[k])
  BY <1>1 DEF Undone
<1>3. CASE disk' = disk
  BY <1>1, <1>3 DEF Undone, Done
<1>4. CASE Writing /\ k = pc
  BY <1>2, <1>4 DEF ResumeTypeOK, Writing, Undone
<1>5. CASE Writing /\ k # pc
  <2>1. \A b \in list[k].tgt : b \in Blocks /\ b \notin list[pc].tgt
    BY <1>1, <1>5, ListFacts DEF ResumeTypeOK, Writing
  <2> QED BY <1>1, <2>1, DiskStep DEF Undone, Done, ResumeTypeOK
<1> QED BY <1>3, <1>4, <1>5, ResumeDisk

\* No action but a full package changes the list, and without bad stash files the types are
\* kept.
LEMMA ResumeTypes ==
  ASSUME ResumeTypeOK, [Next]_vars, ~FullPackage, rots' = 0
  PROVE  ResumeTypeOK'
<1>0. list' = list /\ Len(list) \in Nat /\ list \in Lists
  BY ListFacts DEF ResumeTypeOK, OtherPartition
<1>1. disk' \in [Blocks -> Values] /\ synced' \in [Blocks -> Values]
  BY ResumeDisk
<1>3. phase' \in Phases /\ step' \in Steps
  <2>1. phase' \in Phases
    BY DEF ResumeTypeOK, Phases, OtherPartition
  <2>2. step' \in Steps
    BY DEF ResumeTypeOK, Steps, OtherPartition
  <2> QED BY <2>1, <2>2
<1>4. lastcmd' \in Nat /\ saved' \in Nat
  <2>1. lastcmd' \in {0, lastcmd, pc} \/ lastcmd' \in OtherIndices
    BY DEF OtherPartition
  <2>2. saved' \in {0, saved, lastcmd}
    BY DEF OtherPartition
  <2>3. lastcmd \in Nat /\ saved \in Nat /\ pc \in Nat
    BY <1>0 DEF ResumeTypeOK
  <2>4. \A n \in OtherIndices : n \in Nat
    BY OtherAssumption, Zenon
  <2> QED BY <2>1, <2>2, <2>3, <2>4
<1>5. pc' \in 1..(Len(list) + 1)
  BY <1>0 DEF ResumeTypeOK, OtherPartition
<1>6. freestash' \in Ids \cup {NoId}
  BY <1>0, ListFacts DEF ResumeTypeOK, cmd, OtherPartition
<1>7. stash' \in [Ids -> {"none", "good"}]
  <2>1. CASE StashRots
    BY <2>1 DEF ResumeTypeOK
  <2>2. CASE PatchStashSource
    <3>1. buffer'
      BY <2>2, Zenon DEF FromSource
    <3> QED BY <2>2, <3>1 DEF ResumeTypeOK
  <2>3. CASE StashSource
    BY <2>3 DEF ResumeTypeOK
  <2>4. CASE ~StashRots /\ ~PatchStashSource /\ ~StashSource
    BY <2>4 DEF ResumeTypeOK, DropBadStash, OtherPartition
  <2> QED BY <2>1, <2>2, <2>3, <2>4
<1>8. stash_map' \in [Ids -> SUBSET Blocks]
  <2>1. pc <= Len(list) => cmd.src \in SUBSET Blocks
    BY <1>0, ListFacts DEF ResumeTypeOK, cmd
  <2>2. CASE VerifyStash \/ StashSkipped \/ StashSource
    BY <2>1, <2>2 DEF ResumeTypeOK
  <2>3. CASE VerifyFree \/ PerformCommandFree
    BY <2>3 DEF ResumeTypeOK
  <2>4. CASE Retry \/ Repeat
    BY <2>4
  <2>5. CASE ~(VerifyStash \/ StashSkipped \/ StashSource \/ VerifyFree \/ PerformCommandFree
               \/ Retry \/ Repeat)
    BY <2>5 DEF ResumeTypeOK, OtherPartition
  <2> QED BY <2>2, <2>3, <2>4, <2>5
<1>9. (phase = "verify" => saved = lastcmd)'
  BY DEF ResumeTypeOK, OtherPartition
<1>10. (phase = "update" =>
          /\ step \notin {"cmd", "finish"} => pc <= Len(list) /\ saved < pc
          /\ step = "finish" => pc = Len(list) + 1)'
  BY <1>0 DEF ResumeTypeOK, OtherPartition
<1>11. (phase = "update" /\ step \in {"write", "free"} => list[pc].op # "stash")'
  BY <1>0 DEF ResumeTypeOK, OtherPartition, cmd, IsPatch
<1>12. ASSUME phase' = "update", step' \in {"index", "write"}, IsPatch(list[pc])'
       PROVE  buffer' /\ ~Done(list[pc])'
  <2>1. disk' = disk /\ phase = "update" /\ pc' = pc
    BY <1>12 DEF OtherPartition
  <2>p. IsPatch(list[pc])
    BY <1>0, <1>12, <2>1, Zenon DEF IsPatch
  <2>d. ~Done(list[pc]) => ~Done(list[pc])'
    BY <1>0, <2>1 DEF Done
  <2>2. CASE PatchFromSource \/ PatchStashSource
    <3>1. buffer' /\ ~Done(cmd)
      BY <2>2, Zenon DEF FromSource
    <3> QED BY <3>1, <2>d, Zenon DEF cmd
  <2>3. CASE PatchFromStash
    <3>1. ~Done(cmd) /\ LoadStash(cmd.id)
      BY <2>3, Zenon DEF FromStash
    <3>2. stash[cmd.id] = "good"
      BY <3>1, <2>1 DEF LoadStash
    <3>3. buffer'
      BY <3>2, <2>3, Zenon
    <3> QED BY <3>1, <3>3, <2>d, Zenon DEF cmd
  <2>4. CASE ~(PatchFromSource \/ PatchStashSource \/ PatchFromStash)
    <3>1. step \in {"index", "write"} /\ buffer' = buffer
      BY <1>0, <1>12, <2>1, <2>p, <2>4, SMT DEF IsPatch, IsFill, cmd, OtherPartition
    <3>2. buffer /\ ~Done(list[pc])
      BY <2>1, <2>p, <3>1, Zenon DEF ResumeTypeOK
    <3> QED BY <3>1, <3>2, <2>d, Zenon
  <2> QED BY <2>2, <2>3, <2>4
<1>13. (phase = "update" /\ step \in {"index", "write"} /\ IsPatch(list[pc])
          => buffer /\ ~Done(list[pc]))'
  BY <1>12, Zenon
<1> QED
  BY <1>0, <1>1, <1>3, <1>4, <1>5, <1>6, <1>7, <1>8, <1>9, <1>10, <1>11, <1>13
  DEF ResumeTypeOK

\* The stash is empty when its directory is new.
LEMMA ResumeDir ==
  ASSUME ResumeTypeOK, DirInv, [Next]_vars, ~FullPackage
  PROVE  DirInv'
<1>0. ASSUME phase' = "verify" \/ (phase' = "update" /\ step' # "finish") PROVE dir'
  <2>1. CASE BeginVerify \/ BeginUpdate
    BY <2>1, Zenon
  <2>2. CASE ~(BeginVerify \/ BeginUpdate)
    <3>1. /\ dir' = dir
          /\ phase = "verify" \/ (phase = "update" /\ step # "finish")
      BY <1>0, <2>2 DEF OtherPartition
    <3> QED BY <3>1, Zenon DEF DirInv
  <2> QED BY <2>1, <2>2
<1>1. ASSUME ~dir' PROVE \A i \in Ids : stash'[i] = "none"
  <2>1. CASE VerifyEnds
    <3>1. CASE createdstash
      BY <2>1, <3>1
    <3>2. CASE ~createdstash
      <4>1. ~dir /\ stash' = stash
        BY <1>1, <2>1, <3>2, Zenon
      <4> QED BY <4>1, Zenon DEF DirInv
    <3> QED BY <3>1, <3>2
  <2>2. CASE stash' = [i \in Ids |-> "none"]
    BY <2>2
  <2>3. CASE ~VerifyEnds /\ stash' # [i \in Ids |-> "none"]
    <3>1. ~BeginVerify /\ ~BeginUpdate
      BY <1>1, Zenon
    <3>2. dir' = dir
      BY <2>3, <3>1 DEF OtherPartition
    <3>3. ~dir
      BY <1>1, <3>2, Zenon
    <3>4. ~(phase = "verify") /\ ~(phase = "update" /\ step # "finish")
      BY <3>3, Zenon DEF DirInv
    <3>5. \A i \in Ids : stash[i] = "none"
      BY <3>3, Zenon DEF DirInv
    <3>6. stash' = stash \/ StashRots
      BY <2>3, <3>4 DEF OtherPartition
    <3> QED BY <3>5, <3>6
  <2> QED BY <2>1, <2>2, <2>3
<1>2. ASSUME phase' = "verify", createdstash' PROVE \A i \in Ids : stash'[i] = "none"
  <2>1. CASE BeginVerify
    <3>1. ~dir /\ stash' = stash
      BY <1>2, <2>1, Zenon
    <3> QED BY <3>1 DEF DirInv
  <2>2. CASE ~BeginVerify
    <3>1. phase = "verify" /\ createdstash' = createdstash
      BY <1>2, <2>2 DEF OtherPartition
    <3>2. createdstash
      BY <1>2, <3>1, Zenon
    <3>3. \A i \in Ids : stash[i] = "none"
      BY <3>1, <3>2, Zenon DEF DirInv
    <3> QED BY <1>2, <3>1, <3>3 DEF ResumeTypeOK, OtherPartition, DropBadStash
  <2> QED BY <2>1, <2>2
<1> QED BY <1>0, <1>1, <1>2, Zenon DEF DirInv

\* A stash file that is good is deleted by a command, after the write it was made for, or at
\* the end.
LEMMA GoodKept ==
  ASSUME ResumeTypeOK, DirInv, [Next]_vars, ~FullPackage, rots' = 0,
         phase' # "unresumable", NEW i \in Ids, stash[i] = "good"
  PROVE  \/ stash'[i] = "good"
         \/ PerformCommandFree /\ cmd.id = i
         \/ FreeImplicitStash /\ freestash = i
         \/ DeleteStash
<1>1. CASE VerifyStash \/ StashSkipped
  BY <1>1 DEF ResumeTypeOK, DropBadStash
<1>2. CASE VerifyFree \/ VerifyEnds \/ (Interrupt /\ phase = "verify" /\ createdstash)
  BY <1>2 DEF ResumeTypeOK, DirInv
<1>3. CASE PerformCommandFree \/ FreeImplicitStash \/ DeleteStash
  BY <1>3 DEF ResumeTypeOK
<1>4. CASE PatchStashSource
  BY <1>4 DEF ResumeTypeOK
<1>5. CASE StashSource
  BY <1>5 DEF ResumeTypeOK
<1>6. CASE StashRots
  BY <1>6 DEF ResumeTypeOK
<1>7. CASE ~(VerifyStash \/ StashSkipped \/ VerifyFree \/ VerifyEnds \/ PerformCommandFree
             \/ FreeImplicitStash \/ DeleteStash \/ PatchStashSource \/ StashSource \/ StashRots
             \/ (Interrupt /\ phase = "verify" /\ createdstash))
  <2>1. stash' = stash
    BY <1>7 DEF OtherPartition
  <2> QED BY <2>1
<1> QED BY <1>1, <1>2, <1>3, <1>4, <1>5, <1>6, <1>7, Zenon

\* A command newly counts as passed only when a stash has been looked for, or when another
\* partition has changed the last-command file.
LEMMA PassedBefore ==
  ASSUME ResumeTypeOK, [Next]_vars, ~FullPackage, phase' # "unresumable",
         NEW s \in 1..Len(list), Passed(s)', list[s].op = "stash"
  PROVE  \/ Passed(s)
         \/ s = pc /\ (StashSkipped \/ StashSource)
         \/ phase = "done"
<1>0. list' = list /\ Len(list) \in Nat /\ lastcmd \in Nat /\ saved \in Nat /\ pc \in Nat
  BY ListFacts DEF ResumeTypeOK, OtherPartition
<1>1. CASE s <= lastcmd'
  <2>1. lastcmd' \in {0, lastcmd} \/ (UpdateLastCommandIndex /\ lastcmd' = pc) \/ phase = "done"
    BY DEF OtherPartition
  <2> QED BY <1>0, <1>1, <2>1 DEF Passed
<1>2. CASE phase' = "update" /\ (s <= saved' \/ s < pc' \/ (s = pc' /\ step' # "cmd"))
  <2>1. CASE BeginUpdate
    BY <1>0, <1>2, <2>1 DEF Passed
  <2>2. CASE phase = "update"
    <3>1. saved' = saved
      BY <1>2, <2>2 DEF OtherPartition
    <3>2. CASE SkipExecuted \/ SyncCommand
      BY <1>0, <1>2, <2>2, <3>1, <3>2 DEF Passed
    <3>3. CASE ~(SkipExecuted \/ SyncCommand)
      <4>1. pc' = pc
        BY <1>2, <2>2, <3>3 DEF OtherPartition
      <4>2. CASE s = pc /\ step = "cmd"
        BY <1>0, <1>2, <2>2, <3>1, <3>3, <4>1, <4>2 DEF OtherPartition, cmd, IsPatch, Passed
      <4> QED BY <1>2, <2>2, <3>1, <4>1, <4>2 DEF Passed
    <3> QED BY <3>2, <3>3
  <2>3. BeginUpdate \/ phase = "update"
    BY <1>2 DEF OtherPartition
  <2> QED BY <2>1, <2>2, <2>3
<1> QED BY <1>1, <1>2 DEF Passed

\* A move or diff that is done stays done while the run goes on.
LEMMA DoneKept ==
  ASSUME ResumeTypeOK, SyncInv, [Next]_vars, ~FullPackage, phase' # "interrupted",
         NEW k \in 1..Len(list), IsPatch(list[k]), Done(list[k])
  PROVE  Done(list[k])'
<1>1. list' = list
  BY DEF OtherPartition
<1>2. IsPatch(list[k])'
  BY <1>1 DEF IsPatch
<1> QED BY <1>2, UndoneBefore DEF Undone

\* The moves and diffs that have been passed, or will be skipped, stay done.
LEMMA ResumePatches ==
  ASSUME ResumeTypeOK, SyncInv, PatchInv, [Next]_vars, ~FullPackage
  PROVE  PatchInv'
<1>0. list' = list /\ Len(list) \in Nat /\ pc \in Nat /\ saved \in Nat /\ lastcmd \in Nat
  BY ListFacts DEF ResumeTypeOK, OtherPartition
<1>2. ASSUME phase' = "verify", NEW i \in 1..Len(list), IsPatch(list[i]), i < pc', i <= saved'
      PROVE  Done(list[i])'
  <2>1. phase = "verify"
    BY <1>0, <1>2 DEF OtherPartition
  <2>2. CASE i < pc
    <3>1. i <= saved
      BY <1>0, <1>2, <2>1 DEF OtherPartition
    <3>2. Done(list[i])
      BY <1>2, <2>1, <2>2, <3>1 DEF PatchInv
    <3> QED
      BY <1>2, <3>2, DoneKept
  <2>3. CASE ~(i < pc)
    <3>1. i = pc /\ VerifyPatch
      BY <1>0, <1>2, <2>1, <2>3 DEF IsPatch, IsFill, cmd, OtherPartition
    <3>2. AlreadyDone
      BY <1>0, <1>2, <3>1
    <3> QED
      BY <1>2, <3>1, <3>2, DoneKept DEF AlreadyDone, cmd
  <2> QED
    BY <2>2, <2>3
<1>3. ASSUME phase' = "verified", NEW i \in 1..Len(list), IsPatch(list[i]), i <= lastcmd'
      PROVE  Done(list[i])'
  <2>1. i <= lastcmd
    BY <1>0, <1>3 DEF OtherPartition
  <2>2. CASE VerifyEnds
    <3>1. i < pc /\ i <= saved
      BY <1>0, <2>1, <2>2 DEF ResumeTypeOK
    <3> QED BY <1>3, <2>2, <3>1, DoneKept DEF PatchInv
  <2>3. CASE ~VerifyEnds
    <3>1. phase = "verified"
      BY <1>3, <2>3 DEF OtherPartition
    <3> QED
      BY <1>3, <2>1, <3>1, DoneKept DEF PatchInv
  <2> QED
    BY <2>2, <2>3
<1>4. ASSUME phase' = "update", NEW i \in 1..Len(list), IsPatch(list[i]),
             i <= saved' \/ i < pc' \/ (i = pc' /\ step' \in {"free", "sync"})
      PROVE  Done(list[i])'
  <2>1. CASE BeginUpdate
    <3>1. i <= lastcmd /\ phase = "verified"
      BY <1>0, <1>4, <2>1
    <3> QED
      BY <1>4, <3>1, DoneKept DEF PatchInv
  <2>2. CASE WriteBlocks /\ i = pc
    <3>1. buffer
      BY <1>4, <2>2, Zenon DEF ResumeTypeOK
    <3>2. RightData
      BY <1>4, <2>2, <3>1 DEF RightData, cmd, IsPatch
    <3>3. \A b \in list[pc].tgt : b \in Blocks
      BY <2>2, ListFacts DEF ResumeTypeOK
    <3>4. \A b \in list[pc].tgt : disk'[b] = Target[b]
      BY <2>2, <3>2, <3>3 DEF cmd
    <3> QED
      BY <1>0, <2>2, <3>4 DEF Done
  <2>3. CASE ~BeginUpdate /\ ~(WriteBlocks /\ i = pc)
    <3>1. phase = "update" /\ saved' = saved
      BY <1>4, <2>3 DEF OtherPartition
    <3>2. CASE i <= saved \/ i < pc \/ (i = pc /\ step \in {"free", "sync"})
      BY <1>4, <3>1, <3>2, DoneKept DEF PatchInv
    <3>3. CASE ~(i <= saved \/ i < pc \/ (i = pc /\ step \in {"free", "sync"}))
      <4>1. i = pc /\ AlreadyDone
        BY <1>0, <1>4, <2>3, <3>1, <3>3 DEF OtherPartition, IsPatch, cmd
      <4> QED
        BY <1>4, <4>1, DoneKept DEF AlreadyDone, cmd
    <3> QED
      BY <3>2, <3>3
  <2> QED
    BY <2>1, <2>2, <2>3
<1>5. ASSUME phase' = "done", NEW i \in 1..Len(list), IsPatch(list[i])
      PROVE  Done(list[i])'
  <2>1. CASE DeleteLastCommandFile
    <3>1. i < pc
      BY <1>0, <2>1 DEF ResumeTypeOK
    <3> QED BY <1>5, <2>1, <3>1, DoneKept DEF PatchInv
  <2>2. CASE ~DeleteLastCommandFile
    <3>1. phase = "done"
      BY <1>5, <2>2 DEF OtherPartition
    <3> QED BY <1>5, <3>1, DoneKept DEF PatchInv
  <2> QED BY <2>1, <2>2
<1>6. \A i \in 1..Len(list') : i \in 1..Len(list) /\ (IsPatch(list[i])' => IsPatch(list[i]))
  BY <1>0 DEF IsPatch
<1> QED
  BY <1>0, <1>2, <1>3, <1>4, <1>5, <1>6, Zenon DEF PatchInv

\* The source of a command that is not done stays on the partition until the copy of it, if
\* the command needs one, is in the stash; the source of a stash until it is stashed.
LEMMA ResumeSource ==
  ASSUME ResumeTypeOK, SyncInv, DirInv, PatchInv, SourceInv, CopyInv, SharedInv, [Next]_vars,
         ~FullPackage, PowerLoss = FALSE, rots' = 0, phase' # "unresumable", NoReuse(list)
  PROVE  SourceInv'
<1>0. list' = list /\ Len(list) \in Nat /\ pc \in Nat /\ saved \in Nat /\ lastcmd \in Nat
      /\ list \in Lists
  BY ListFacts DEF ResumeTypeOK, OtherPartition
<1>1. ASSUME NEW k \in 1..Len(list), Undone(k)'
      PROVE  /\ Undone(k) /\ IsPatch(list[k]) /\ list[k].id \in Ids
             /\ phase = "update" => ~(k < pc) /\ (step \in {"free", "sync"} => k # pc)
             /\ phase # "done" /\ ~DeleteStash
  <2>1. Undone(k)
    BY <1>1, UndoneBefore
  <2>2. IsPatch(list[k]) /\ ~Done(list[k]) /\ list[k].id \in Ids
    BY <1>0, <2>1, ListFacts DEF Undone, Shaped
  <2>3. phase = "update" => ~(k < pc) /\ (step \in {"free", "sync"} => k # pc)
    BY <2>2 DEF PatchInv
  <2>4. phase # "done" /\ ~DeleteStash
    BY <1>0, <2>2, <2>3 DEF PatchInv
  <2> QED BY <2>1, <2>2, <2>3, <2>4
<1>2. ASSUME NEW k \in 1..Len(list), Undone(k)'
      PROVE  Clean(list[k].src)' \/ (Overlap(list[k]) /\ stash'[list[k].id] = "good")
  <2>1. CASE Clean(list[k].src) /\ (Writing => pc < k \/ (k = pc /\ ~Overlap(list[k])))
    BY <2>1, ResumeDisk, CleanKept
  <2>2. CASE Writing /\ ~(pc < k \/ (k = pc /\ ~Overlap(list[k])))
    <3>1. k = pc /\ Overlap(list[k])
      BY <1>0, <1>1, <1>2, <2>2 DEF Writing
    <3>2. stash[list[k].id] = "good"
      BY <1>1, <1>2, <2>2, <3>1 DEF CopyInv, Writing
    <3>3. stash' = stash
      BY <2>2 DEF Writing, ResumeTypeOK, OtherPartition
    <3> QED BY <3>1, <3>2, <3>3
  <2>3. CASE ~Clean(list[k].src)
    <3>1. Overlap(list[k]) /\ stash[list[k].id] = "good"
      BY <1>1, <1>2, <2>3 DEF SourceInv
    <3>2. ~(PerformCommandFree /\ cmd.id = list[k].id)
      <4> SUFFICES ASSUME PerformCommandFree, cmd.id = list[k].id PROVE FALSE
        OBVIOUS
      <4>1. list[pc].op = "free" /\ list[pc].id = list[k].id /\ pc \in 1..Len(list)
        BY <1>0 DEF cmd, ResumeTypeOK
      <4>2. pc < k
        BY <1>0, <1>1, <1>2, <4>1 DEF IsPatch
      <4> QED BY <1>1, <1>2, <3>1, <4>1, <4>2 DEF NoReuse
    <3>3. ~(FreeImplicitStash /\ freestash = list[k].id)
      <4> SUFFICES ASSUME FreeImplicitStash, freestash = list[k].id PROVE FALSE
        OBVIOUS
      <4>1. k # pc /\ freestash # NoId
        BY <1>1, <1>2, DataAssumption
      <4> QED BY <1>1, <1>2, <2>3, <4>1 DEF SharedInv
    <3>4. stash'[list[k].id] = "good"
      BY <1>1, <1>2, <3>1, <3>2, <3>3, GoodKept
    <3> QED BY <3>1, <3>4
  <2> QED BY <2>1, <2>2, <2>3
<1>3. ASSUME NEW s \in 1..Len(list), NEW k \in 1..Len(list), Uses(k, s), Undone(k)'
      PROVE  \/ stash'[list[s].id] = "good"
             \/ Clean(list[s].src)' /\ ~Passed(s)'
  <2>0. list[s].op = "stash" /\ list[s].id \in Ids /\ list[s].id \in list[k].use /\ s < k
    BY <1>0, <1>3, ListFacts DEF Uses, Shaped
  <2>1. CASE Clean(list[s].src) /\ ~Passed(s)
    <3>1. Writing => pc < s
      BY <1>0, <2>1 DEF Writing, Passed
    <3>2. Clean(list[s].src)'
      BY <2>1, <3>1, ResumeDisk, CleanKept
    <3>3. CASE s = pc /\ (StashSkipped \/ StashSource)
      <4>1. CASE StashSource
        BY <2>0, <2>1, <3>3, <4>1 DEF cmd, ResumeTypeOK
      <4>2. CASE StashSkipped
        <5>1. LoadStash(cmd.id) /\ phase = "update"
          BY <2>1, <3>3, <4>2 DEF cmd
        <5>2. stash[cmd.id] = "good"
          BY <5>1 DEF LoadStash
        <5> QED BY <3>3, <4>2, <5>2 DEF cmd, DropBadStash
      <4> QED BY <3>3, <4>1, <4>2
    <3>4. CASE ~(s = pc /\ (StashSkipped \/ StashSource))
      BY <1>1, <1>3, <2>0, <2>1, <3>2, <3>4, PassedBefore
    <3> QED BY <3>3, <3>4
  <2>2. CASE ~(Clean(list[s].src) /\ ~Passed(s))
    <3>1. stash[list[s].id] = "good"
      BY <1>1, <1>3, <2>2 DEF SourceInv
    <3>2. ~(PerformCommandFree /\ cmd.id = list[s].id)
      <4> SUFFICES ASSUME PerformCommandFree, cmd.id = list[s].id PROVE FALSE
        OBVIOUS
      <4>1. list[pc].op = "free" /\ list[pc].id = list[s].id /\ pc \in 1..Len(list)
        BY <1>0 DEF cmd, ResumeTypeOK
      <4>2. k < pc
        BY <1>0, <2>0, <4>1, StashedBefore
      <4> QED BY <1>1, <1>3, <4>2
    <3>3. ~(FreeImplicitStash /\ freestash = list[s].id)
      <4> SUFFICES ASSUME FreeImplicitStash, freestash = list[s].id PROVE FALSE
        OBVIOUS
      <4>1. freestash # NoId
        BY <2>0, DataAssumption
      <4> QED BY <1>1, <1>3, <2>2, <4>1 DEF SharedInv
    <3> QED BY <1>1, <1>3, <2>0, <3>1, <3>2, <3>3, GoodKept
  <2> QED BY <2>1, <2>2
<1>4. \A s, k \in 1..Len(list) : Uses(k, s)' => Uses(k, s)
  BY <1>0 DEF Uses
<1>5. \A k \in 1..Len(list) : Overlap(list[k]) => Overlap(list[k])'
  BY <1>0 DEF Overlap
<1> QED
  BY <1>0, <1>2, <1>3, <1>4, <1>5, Zenon DEF SourceInv

\* The copy an update makes for a command is there while the command is written.
LEMMA ResumeCopy ==
  ASSUME ResumeTypeOK, CopyInv, [Next]_vars, ~FullPackage, rots' = 0, phase' = "update"
  PROVE  CopyInv'
<1>0. list' = list /\ Len(list) \in Nat /\ pc \in Nat /\ saved \in Nat /\ lastcmd \in Nat
      /\ list \in Lists
  BY ListFacts DEF ResumeTypeOK, OtherPartition
<1>p. phase = "update" \/ BeginUpdate
  BY DEF OtherPartition
<1>1. step' \notin {"index", "write", "free"} => freestash' = NoId
  BY <1>0, <1>p DEF CopyInv, OtherPartition, IsPatch, cmd
<1>2. ASSUME step' \in {"index", "write"}, IsPatch(list[pc])', Overlap(list[pc])'
      PROVE  stash'[list[pc'].id] = "good"
  <2>1. phase = "update" /\ pc' = pc /\ pc \in 1..Len(list)
    BY <1>0, <1>2, <1>p DEF OtherPartition, ResumeTypeOK
  <2>2. IsPatch(list[pc]) /\ Overlap(list[pc]) /\ list[pc].id \in Ids
    BY <1>0, <1>2, <2>1, ListFacts DEF IsPatch, Overlap, Shaped
  <2>3. CASE PatchStashSource
    <3>1. buffer'
      BY <2>3, Zenon DEF FromSource
    <3> QED BY <2>1, <2>2, <2>3, <3>1 DEF cmd, ResumeTypeOK
  <2>4. CASE PatchFromStash
    <3>1. LoadStash(cmd.id)
      BY <2>4 DEF FromStash
    <3> QED BY <2>1, <2>4, <3>1 DEF LoadStash, cmd
  <2>5. CASE ~PatchStashSource /\ ~PatchFromStash
    <3>1. stash' = stash /\ step \in {"index", "write"}
      BY <1>2, <2>1, <2>2, <2>5 DEF OtherPartition, IsPatch, IsFill, cmd, ResumeTypeOK
    <3> QED BY <2>1, <2>2, <3>1 DEF CopyInv
  <2> QED BY <2>3, <2>4, <2>5
<1>3. freestash' # NoId => IsPatch(list[pc'])
  BY <1>0, <1>1, <1>p DEF CopyInv, OtherPartition, cmd
<1>4. IsPatch(list[pc']) => IsPatch(list[pc])'
  BY <1>0 DEF IsPatch
<1> QED
  BY <1>0, <1>1, <1>2, <1>3, <1>4, Zenon DEF CopyInv

\* Where the copy that is to be freed may come from.
LEMMA CopyMade ==
  ASSUME ResumeTypeOK, CopyInv, CopyInv', [Next]_vars, ~FullPackage, phase' = "update",
         freestash' # NoId
  PROVE  /\ phase = "update" /\ pc' = pc /\ pc \in 1..Len(list) /\ IsPatch(list[pc])
         /\ freestash' = freestash \/ stash[freestash'] = "none"
<1>0. list' = list /\ Len(list) \in Nat /\ list \in Lists
  BY ListFacts DEF ResumeTypeOK, OtherPartition
<1>1. phase = "update" /\ pc' = pc /\ step' \in {"index", "write", "free"}
  BY DEF CopyInv, OtherPartition
<1>2. pc \in 1..Len(list)
  BY <1>0, <1>1 DEF OtherPartition, ResumeTypeOK
<1>3. IsPatch(list[pc])
  BY <1>0, <1>1 DEF CopyInv, IsPatch
<1>4. freestash' = freestash \/ stash[freestash'] = "none"
  BY <1>1 DEF OtherPartition
<1> QED BY <1>1, <1>2, <1>3, <1>4

\* Nothing else relies on the copy that is to be freed.
LEMMA ResumeShared ==
  ASSUME ResumeTypeOK, SyncInv, PatchInv, SourceInv, CopyInv, CopyInv', SharedInv, [Next]_vars,
         ~FullPackage, PowerLoss = FALSE, phase' = "update"
  PROVE  SharedInv'
<1>0. list' = list /\ Len(list) \in Nat /\ pc \in Nat /\ saved \in Nat /\ lastcmd \in Nat
      /\ list \in Lists
  BY ListFacts DEF ResumeTypeOK, OtherPartition
<1>3. ASSUME freestash' # NoId
      PROVE  /\ \A k \in 1..Len(list) :
                  Undone(k)' /\ k # pc' /\ list[k].id = freestash' => Clean(list[k].src)'
             /\ \A s, k \in 1..Len(list) :
                  Uses(k, s) /\ Undone(k)' /\ list[s].id = freestash'
                    => Clean(list[s].src)' /\ ~Passed(s)'
  <2>0. phase = "update" /\ pc' = pc /\ pc \in 1..Len(list) /\ IsPatch(list[pc])
    BY <1>3, CopyMade
  <2>1. /\ \A k \in 1..Len(list) :
             Undone(k) /\ k # pc /\ list[k].id = freestash' => Clean(list[k].src)
        /\ \A s, k \in 1..Len(list) :
             Uses(k, s) /\ Undone(k) /\ list[s].id = freestash' => Clean(list[s].src) /\ ~Passed(s)
    <3>1. CASE stash[freestash'] = "none"
      BY <3>1 DEF SourceInv
    <3>2. CASE freestash' = freestash
      BY <1>3, <2>0, <3>2 DEF SharedInv
    <3> QED BY <1>3, <3>1, <3>2, CopyMade
  <2>2. ASSUME NEW k \in 1..Len(list), Undone(k)', k # pc, list[k].id = freestash'
        PROVE  Clean(list[k].src)'
    <3>1. Undone(k)
      BY <2>2, UndoneBefore
    <3>2. pc < k
      BY <1>0, <2>0, <2>2, <3>1 DEF PatchInv, Undone
    <3> QED BY <2>1, <2>2, <3>1, <3>2, CleanKept
  <2>3. ASSUME NEW s \in 1..Len(list), NEW k \in 1..Len(list), Uses(k, s), Undone(k)',
               list[s].id = freestash'
        PROVE  Clean(list[s].src)' /\ ~Passed(s)'
    <3>1. Undone(k)
      BY <2>3, UndoneBefore
    <3>2. Clean(list[s].src) /\ ~Passed(s) /\ list[s].op = "stash"
      BY <2>1, <2>3, <3>1 DEF Uses
    <3>3. Writing => pc < s
      BY <1>0, <3>2 DEF Writing, Passed
    <3>4. Clean(list[s].src)'
      BY <3>2, <3>3, ResumeDisk, CleanKept
    <3>5. s # pc /\ phase # "done" /\ phase' # "unresumable"
      BY <2>0, <3>2 DEF IsPatch
    <3>6. ~Passed(s)'
      BY <3>2, <3>5, PassedBefore
    <3> QED BY <3>4, <3>6
  <2> QED BY <2>0, <2>1, <2>2, <2>3
<1>4. \A s, k \in 1..Len(list) : Uses(k, s)' => Uses(k, s)
  BY <1>0 DEF Uses
<1> QED
  BY <1>0, <1>3, <1>4, Zenon DEF SharedInv

\* While the list is verified, each id it has stashed and not freed has a stash file or the
\* source range it was read from, and a stash file is preferred.
LEMMA ResumeMap ==
  ASSUME ResumeTypeOK, DirInv, MapInv, [Next]_vars, ~FullPackage, rots' = 0
  PROVE  MapInv'
<1>0. list' = list /\ Len(list) \in Nat /\ pc \in Nat /\ pc >= 1 /\ list \in Lists
  BY ListFacts DEF ResumeTypeOK, OtherPartition
<1>1. (phase = "idle" => stash_map = [i \in Ids |-> {}])'
  BY DEF MapInv, OtherPartition
<1>2. ASSUME phase' = "verify"
      PROVE  /\ \A i \in Ids : stash_map'[i] # {} =>
                  /\ stash'[i] # "good"
                  /\ \E s \in 1..(pc' - 1) :
                       list[s].op = "stash" /\ list[s].id = i /\ stash_map'[i] = list[s].src
             /\ \A s \in 1..(pc' - 1) :
                  /\ list[s].op = "stash"
                  /\ \A f \in 1..(pc' - 1) : ~(list[f].op = "free" /\ list[f].id = list[s].id)
                  => stash'[list[s].id] = "good" \/ stash_map'[list[s].id] # {}
  <2>1. CASE BeginVerify
    BY <2>1 DEF MapInv
  <2>2. CASE UNCHANGED vars
    BY <1>2, <2>2 DEF MapInv
  <2>3. CASE VerifySkip \/ VerifyPatch
    <3>1. phase = "verify" /\ pc' = pc + 1 /\ stash_map' = stash_map /\ stash' = stash
          /\ list[pc].op # "stash"
      BY <2>3 DEF cmd, IsFill, IsPatch
    <3>2. 1..(pc - 1) \subseteq 1..(pc' - 1) /\ \A s \in 1..(pc' - 1) : s = pc \/ s \in 1..(pc - 1)
      BY <1>0, <3>1
    <3> QED BY <3>1, <3>2 DEF MapInv
  <2>4. CASE VerifyStash
    <3>1. /\ phase = "verify" /\ pc' = pc + 1 /\ pc \in 1..Len(list)
          /\ list[pc].op = "stash" /\ list[pc].id \in Ids /\ list[pc].src # {}
      BY <1>0, <2>4, ListFacts DEF cmd, Shaped
    <3>2. /\ 1..(pc - 1) \subseteq 1..(pc' - 1) /\ pc \in 1..(pc' - 1)
          /\ \A s \in 1..(pc' - 1) : s = pc \/ s \in 1..(pc - 1)
      BY <1>0, <3>1
    <3>3. stash' = stash
      BY <2>4, <3>1 DEF ResumeTypeOK, DropBadStash, cmd
    <3>4. CASE LoadStash(cmd.id)
      <4>1. stash_map' = stash_map
        BY <2>4, <3>4
      <4>2. stash[list[pc].id] = "good" \/ stash_map[list[pc].id] # {}
        BY <3>4 DEF LoadStash, cmd
      <4>3. ASSUME NEW i \in Ids, stash_map[i] # {}
            PROVE  /\ stash[i] # "good"
                   /\ \E s \in 1..(pc' - 1) :
                        list[s].op = "stash" /\ list[s].id = i /\ stash_map[i] = list[s].src
        BY <3>1, <3>2, <4>3 DEF MapInv
      <4>4. ASSUME NEW s \in 1..(pc' - 1), list[s].op = "stash",
                   \A f \in 1..(pc' - 1) : ~(list[f].op = "free" /\ list[f].id = list[s].id)
            PROVE  stash[list[s].id] = "good" \/ stash_map[list[s].id] # {}
        BY <3>1, <3>2, <4>2, <4>4 DEF MapInv
      <4> QED BY <3>3, <4>1, <4>3, <4>4
    <3>5. CASE ~LoadStash(cmd.id)
      <4>1. /\ stash_map'[list[pc].id] = list[pc].src
            /\ \A i \in Ids : i # list[pc].id => stash_map'[i] = stash_map[i]
        BY <2>4, <3>1, <3>5 DEF cmd, ResumeTypeOK
      <4>2. stash[list[pc].id] # "good"
        BY <3>1, <3>5 DEF LoadStash, cmd, MapInv
      <4>3. \A s \in 1..(pc' - 1) : list[s].op = "stash" => list[s].id \in Ids
        BY <1>0, <3>1, ListFacts DEF Shaped
      <4> QED BY <3>1, <3>2, <3>3, <4>1, <4>2, <4>3 DEF MapInv
    <3> QED BY <3>4, <3>5
  <2>5. CASE VerifyFree
    <3>1. /\ phase = "verify" /\ pc' = pc + 1 /\ pc \in 1..Len(list)
          /\ list[pc].op = "free" /\ list[pc].id \in Ids
      BY <1>0, <2>5, ListFacts DEF cmd, Shaped
    <3>2. /\ 1..(pc - 1) \subseteq 1..(pc' - 1) /\ pc \in 1..(pc' - 1)
          /\ \A s \in 1..(pc' - 1) : s = pc \/ s \in 1..(pc - 1)
      BY <1>0, <3>1
    <3>3. /\ stash_map'[list[pc].id] = {}
          /\ \A i \in Ids : i # list[pc].id => stash_map'[i] = stash_map[i] /\ stash'[i] = stash[i]
      BY <2>5, <3>1 DEF cmd, ResumeTypeOK
    <3>4. \A s \in 1..(pc' - 1) : list[s].op = "stash" => list[s].id \in Ids
      BY <1>0, <3>1, ListFacts DEF Shaped
    <3>5. ASSUME NEW i \in Ids, stash_map'[i] # {}
          PROVE  /\ stash'[i] # "good"
                 /\ \E s \in 1..(pc' - 1) :
                      list[s].op = "stash" /\ list[s].id = i /\ stash_map'[i] = list[s].src
      <4>1. i # list[pc].id /\ stash_map'[i] = stash_map[i] /\ stash'[i] = stash[i]
        BY <3>3, <3>5
      <4> QED BY <3>1, <3>2, <3>5, <4>1 DEF MapInv
    <3>6. ASSUME NEW s \in 1..(pc' - 1), list[s].op = "stash",
                 \A f \in 1..(pc' - 1) : ~(list[f].op = "free" /\ list[f].id = list[s].id)
          PROVE  stash'[list[s].id] = "good" \/ stash_map'[list[s].id] # {}
      <4>1. list[s].id # list[pc].id /\ s \in 1..(pc - 1) /\ list[s].id \in Ids
        BY <3>1, <3>2, <3>4, <3>6
      <4>2. stash[list[s].id] = "good" \/ stash_map[list[s].id] # {}
        BY <3>1, <3>2, <3>6, <4>1 DEF MapInv
      <4> QED BY <3>3, <4>1, <4>2
    <3> QED BY <3>5, <3>6
  <2>6. BeginVerify \/ UNCHANGED vars \/ VerifySkip \/ VerifyPatch \/ VerifyStash \/ VerifyFree
    BY <1>2 DEF OtherPartition, ResumeTypeOK
  <2> QED BY <2>1, <2>2, <2>3, <2>4, <2>5, <2>6
<1> QED
  BY <1>0, <1>1, <1>2 DEF MapInv

\* Every command that is not done finds its source.
LEMMA SourceFound ==
  ASSUME ResumeTypeOK, SourceInv, MapInv, NoReuse(list), pc \in 1..Len(list), IsPatch(cmd),
         phase \in {"verify", "update"}
  PROVE  ~NoSource
<1> SUFFICES ASSUME NoSource PROVE FALSE
  OBVIOUS
<1>0. list \in Lists /\ Len(list) \in Nat /\ list[pc].id \in Ids /\ list[pc].use \subseteq Ids
  BY ListFacts DEF ResumeTypeOK, cmd, Shaped
<1>1. Undone(pc)
  BY DEF NoSource, Undone, cmd
<1>2. CASE ~Clean(list[pc].src)
  <2>1. Overlap(list[pc]) /\ stash[list[pc].id] = "good"
    BY <1>1, <1>2 DEF SourceInv
  <2>2. LoadStash(list[pc].id)
    BY <1>0, <2>1 DEF LoadStash, MapInv
  <2> QED BY <2>1, <2>2 DEF NoSource, cmd
<1>3. CASE Clean(list[pc].src)
  <2>1. PICK i \in list[pc].use : ~LoadStash(i)
    BY <1>3 DEF NoSource, LoadSourceBlocks, cmd
  <2>2. PICK s \in 1..Len(list) : Uses(pc, s) /\ list[s].id = i
    BY <1>0, <2>1, StashedBefore
  <2>3. \A f \in 1..Len(list) : list[f].op = "free" /\ list[f].id = i => pc < f
    BY <1>0, <2>1, StashedBefore
  <2>4. CASE phase = "update"
    <3>1. Passed(s)
      BY <2>2, <2>4 DEF Uses, Passed
    <3>2. stash[i] = "good"
      BY <1>1, <2>2, <3>1 DEF SourceInv
    <3> QED BY <2>1, <2>4, <3>2 DEF LoadStash
  <2>5. CASE phase = "verify"
    <3>1. s \in 1..(pc - 1) /\ \A f \in 1..(pc - 1) : f \in 1..Len(list) /\ ~(pc < f)
      BY <1>0, <2>2 DEF Uses
    <3>2. stash[i] = "good" \/ stash_map[i] # {}
      BY <2>2, <2>3, <2>5, <3>1 DEF MapInv, Uses
    <3>3. stash_map[i] # {}
      BY <2>1, <2>5, <3>2 DEF LoadStash
    <3>4. PICK t \in 1..(pc - 1) :
            list[t].op = "stash" /\ list[t].id = i /\ stash_map[i] = list[t].src
      BY <1>0, <2>1, <2>5, <3>3 DEF MapInv
    <3>5. Uses(pc, t) /\ t \in 1..Len(list)
      BY <1>0, <2>1, <3>4 DEF Uses
    <3>6. stash[i] # "good"
      BY <1>0, <2>1, <2>5, <3>3 DEF MapInv
    <3>7. Clean(list[t].src)
      BY <1>1, <3>4, <3>5, <3>6 DEF SourceInv
    <3> QED BY <2>1, <2>5, <3>3, <3>4, <3>7 DEF LoadStash
  <2> QED BY <2>4, <2>5
<1> QED BY <1>2, <1>3

\* A stash file that has gone bad is counted.
LEMMA RotsGrow ==
  ASSUME rots \in Nat, [Next]_vars, ~FullPackage
  PROVE  rots' \in Nat /\ (rots' = 0 => rots = 0)
BY DEF OtherPartition

\* Without room for a stash file to go bad none does.
LEMMA NoRot ==
  ASSUME ResumeTypeOK, [Next]_vars, ~FullPackage, MaxRots = 0
  PROVE  rots' = 0
BY DEF ResumeTypeOK, OtherPartition

\* So neither verification nor update gives up.
LEMMA NoneUnresumable ==
  ASSUME ResumeTypeOK, SourceInv, MapInv, NoReuse(list), [Next]_vars, ~FullPackage,
         NeverUnresumable
  PROVE  phase' # "unresumable"
<1>1. ~VerifyPatchFails /\ ~PatchFails
  BY ListFacts, SourceFound DEF ResumeTypeOK
<1> QED BY <1>1 DEF OtherPartition, NeverUnresumable

----------------------------------------------------------------------------
(***************************************************************************)
(* Resumability after a power loss.  A write that is lost may leave a      *)
(* command without the copy that was freed after it, so SourceInv fails;   *)
(* but a verification that succeeds has found a source for every command,  *)
(* and the update does not lose it.                                        *)
(***************************************************************************)

\* Command k is a move or diff that is not done, or not done for sure.
Open(k) ==
  IsPatch(list[k]) /\ \E b \in list[k].tgt : disk[b] # Target[b] \/ synced[b] # Target[b]

\* Command k may load stash i: by its name, or as the copy of its own overlapping source that
\* an earlier command has stashed under the same hash.
Needs(k, i) ==
  \/ i \in list[k].use
  \/ /\ Overlap(list[k]) /\ i = list[k].id
     /\ \E s \in 1..Len(list) : s < k /\ list[s].op = "stash" /\ list[s].id = i

\* Stash i will be made from clean blocks before command k.
ToStash(k, i) ==
  \E s \in 1..Len(list) :
    s < k /\ list[s].op = "stash" /\ list[s].id = i /\ Clean(list[s].src) /\ ~Passed(s)

\* Whatever happens, what a command may load is in the stash or will be made in time.
StashInv ==
  phase # "unresumable" =>
    \A k \in 1..Len(list), i \in Ids :
      Open(k) /\ Needs(k, i) => stash[i] = "good" \/ ToStash(k, i)

\* What a verification has seen.
Seen(k) == phase \in {"verified", "update"} \/ (phase = "verify" /\ k < pc)

\* A command it has seen has its own source on the partition or as a copy.
OwnInv ==
  \A k \in 1..Len(list) : Undone(k) /\ Seen(k) =>
    \/ Clean(list[k].src)
    \/ Overlap(list[k]) /\ (stash[list[k].id] = "good" \/ Needs(k, list[k].id))

\* No other command depends on the copy that is freed after the current one.
FreeInv ==
  phase = "update" /\ freestash # NoId =>
    /\ \A k \in 1..Len(list) : Undone(k) /\ k # pc /\ list[k].id = freestash =>
         Clean(list[k].src) \/ (Overlap(list[k]) /\ Needs(k, freestash))
    /\ \A k \in 1..Len(list) : Open(k) /\ Needs(k, freestash) => ToStash(k, freestash)

\* A power loss undoes nothing that was safe.
LEMMA OpenBefore ==
  ASSUME ResumeTypeOK, SyncInv, [Next]_vars, ~FullPackage, NEW k \in 1..Len(list), Open(k)'
  PROVE  Open(k)
<1>0. list' = list /\ Len(list) \in Nat
  BY ListFacts DEF ResumeTypeOK, OtherPartition
<1>1. IsPatch(list[k])
  BY <1>0 DEF Open, IsPatch
<1>2. PICK b \in list[k].tgt : disk'[b] # Target[b] \/ synced'[b] # Target[b]
  BY <1>0 DEF Open
<1>3. b \in Blocks
  BY ListFacts DEF ResumeTypeOK
<1>4. synced' \in {synced, disk, disk'}
  BY DEF OtherPartition
<1>5. CASE disk'[b] = disk[b]
  BY <1>1, <1>2, <1>4, <1>5 DEF Open
<1>6. CASE disk'[b] # disk[b]
  <2>1. Dirty /\ b \in list[pc].tgt
    BY <1>3, <1>6, DiskStep DEF ResumeTypeOK
  <2>2. k = pc
    BY <1>0, <2>1, ListFacts DEF ResumeTypeOK, Dirty
  <2>3. CASE Writing
    <3>1. ~Done(list[pc])
      BY <1>1, <2>2, <2>3, Zenon DEF ResumeTypeOK, Writing
    <3> QED BY <1>1, <2>2, <3>1 DEF Done, Open
  <2>4. CASE ~Writing
    <3>1. Interrupt
      BY <1>6, <2>4, ResumeDisk
    <3>2. PICK written \in SUBSET BeingWritten, lost \in SUBSET Unsynced,
               torn \in SUBSET (BeingWritten \cup Unsynced) :
            disk' = [c \in Blocks |-> IF c \in torn THEN Garbage
                                      ELSE IF c \in written THEN Target[c]
                                      ELSE IF c \in lost THEN synced[c]
                                      ELSE disk[c]]
      BY <3>1
    <3>3. BeingWritten = {}
      BY <2>4 DEF BeingWritten, Writing
    <3>4. b \in Unsynced
      BY <1>3, <1>6, <3>2, <3>3
    <3>5. disk[b] # synced[b]
      BY <3>4 DEF Unsynced
    <3> QED BY <1>1, <3>5 DEF Open
  <2> QED BY <2>3, <2>4
<1> QED BY <1>5, <1>6

\* What an update has passed is safe.
LEMMA OpenAhead ==
  ASSUME ResumeTypeOK, SyncInv, PatchInv, NEW k \in 1..Len(list), Open(k)
  PROVE  (phase = "update" => ~(k < pc)) /\ phase # "done"
<1>0. Len(list) \in Nat /\ pc \in Nat /\ IsPatch(list[k])
  BY ListFacts DEF ResumeTypeOK, Open
<1>1. PICK b \in list[k].tgt : disk[b] # Target[b] \/ synced[b] # Target[b]
  BY DEF Open
<1>2. b \in Blocks
  BY ListFacts DEF ResumeTypeOK
<1>3. CASE phase = "update" /\ k < pc
  <2>1. Done(list[k])
    BY <1>0, <1>3 DEF PatchInv
  <2>2. disk[b] # synced[b]
    BY <1>1, <2>1 DEF Done
  <2>3. step \in {"free", "sync"} /\ b \in list[pc].tgt
    BY <1>2, <2>2 DEF SyncInv
  <2> QED BY <1>0, <1>3, <2>3, ListFacts DEF ResumeTypeOK
<1>4. CASE phase = "done"
  <2>1. Done(list[k])
    BY <1>0, <1>4 DEF PatchInv
  <2> QED BY <1>1, <1>2, <1>4, <2>1 DEF Done, SyncInv
<1> QED BY <1>3, <1>4

\* What will be stashed is stashed when its turn comes, and is not overwritten before.
LEMMA ToStashKept ==
  ASSUME ResumeTypeOK, SyncInv, [Next]_vars, ~FullPackage, phase' # "unresumable",
         phase # "done", NEW k \in 1..Len(list), NEW i \in Ids, ToStash(k, i)
  PROVE  ToStash(k, i)' \/ (stash'[i] = "good" /\ list[pc].op = "stash")
<1>0. list' = list /\ Len(list) \in Nat /\ pc \in Nat /\ saved \in Nat /\ lastcmd \in Nat
  BY ListFacts DEF ResumeTypeOK, OtherPartition
<1>1. PICK s \in 1..Len(list) :
        s < k /\ list[s].op = "stash" /\ list[s].id = i /\ Clean(list[s].src) /\ ~Passed(s)
  BY DEF ToStash
<1>2. Dirty => pc < s
  BY <1>0, <1>1 DEF Dirty, Passed
<1>3. Clean(list[s].src)'
  BY <1>1, <1>2, DiskStep, CleanKept DEF ResumeTypeOK
<1>4. CASE ~Passed(s)'
  BY <1>0, <1>1, <1>3, <1>4 DEF ToStash
<1>5. CASE Passed(s)'
  <2>1. s = pc /\ (StashSkipped \/ StashSource)
    BY <1>1, <1>5, PassedBefore
  <2>2. CASE StashSource
    BY <1>1, <2>1, <2>2 DEF cmd, ResumeTypeOK
  <2>3. CASE StashSkipped
    <3>1. LoadStash(cmd.id) /\ phase = "update"
      BY <1>1, <2>1, <2>3 DEF cmd
    <3>2. stash[cmd.id] = "good"
      BY <3>1 DEF LoadStash
    <3> QED BY <1>1, <2>1, <2>3, <3>2 DEF cmd, DropBadStash
  <2> QED BY <2>1, <2>2, <2>3
<1> QED BY <1>4, <1>5

\* A stash that a command may load is freed only behind it.
LEMMA NeededNotFreed ==
  ASSUME list \in Lists, NoReuse(list), NEW k \in 1..Len(list), NEW f \in 1..Len(list),
         IsPatch(list[k]), Needs(k, list[f].id), list[f].op = "free"
  PROVE  k < f
<1>0. Len(list) \in Nat
  BY ListFacts
<1>1. CASE list[f].id \in list[k].use
  BY <1>1, StashedBefore
<1>2. CASE Overlap(list[k]) /\ list[f].id = list[k].id
  <2>1. ~(f < k)
    BY <1>2 DEF NoReuse
  <2>2. f # k
    BY DEF IsPatch
  <2> QED BY <1>0, <2>1, <2>2
<1> QED BY <1>1, <1>2 DEF Needs

\* Stashes are kept through interruptions and power losses.
LEMMA ResumeStash ==
  ASSUME ResumeTypeOK, SyncInv, DirInv, PatchInv, StashInv, FreeInv, [Next]_vars, ~FullPackage,
         rots' = 0, NoReuse(list)
  PROVE  StashInv'
<1> SUFFICES ASSUME phase' # "unresumable", NEW k \in 1..Len(list'), NEW i \in Ids,
                    Open(k)', Needs(k, i)'
             PROVE  stash'[i] = "good" \/ ToStash(k, i)'
  BY DEF StashInv
<1>0. list' = list /\ Len(list) \in Nat /\ pc \in Nat /\ list \in Lists
  BY ListFacts DEF ResumeTypeOK, OtherPartition
<1>1. k \in 1..Len(list) /\ Needs(k, i)
  BY <1>0 DEF Needs, Overlap
<1>2. Open(k) /\ IsPatch(list[k])
  BY <1>1, OpenBefore DEF Open
<1>3. (phase = "update" => ~(k < pc)) /\ phase # "done"
  BY <1>1, <1>2, OpenAhead
<1>4. CASE ToStash(k, i)
  BY <1>1, <1>3, <1>4, ToStashKept
<1>5. CASE ~ToStash(k, i)
  <2>1. phase # "unresumable"
    BY DEF OtherPartition
  <2>2. stash[i] = "good"
    BY <1>1, <1>2, <1>5, <2>1 DEF StashInv
  <2>3. ~DeleteStash
    BY <1>0, <1>1, <1>3
  <2>4. ~(PerformCommandFree /\ cmd.id = i)
    <3> SUFFICES ASSUME PerformCommandFree, cmd.id = i PROVE FALSE
      OBVIOUS
    <3>1. list[pc].op = "free" /\ list[pc].id = i /\ pc \in 1..Len(list) /\ phase = "update"
      BY <1>0 DEF cmd, ResumeTypeOK
    <3> QED BY <1>0, <1>1, <1>2, <1>3, <3>1, NeededNotFreed
  <2>5. ~(FreeImplicitStash /\ freestash = i)
    BY <1>1, <1>2, <1>5, DataAssumption DEF FreeInv
  <2> QED BY <2>2, <2>3, <2>4, <2>5, GoodKept
<1> QED BY <1>4, <1>5

\* What a verification has seen stays so during the update.
LEMMA ResumeOwn ==
  ASSUME ResumeTypeOK, SyncInv, DirInv, PatchInv, CopyInv, MapInv, OwnInv, FreeInv,
         [Next]_vars, ~FullPackage, rots' = 0, NoReuse(list)
  PROVE  OwnInv'
<1> SUFFICES ASSUME NEW k \in 1..Len(list'), Undone(k)', Seen(k)'
             PROVE  \/ Clean(list[k].src)'
                    \/ Overlap(list[k])' /\ (stash'[list'[k].id] = "good" \/ Needs(k, list[k].id)')
  BY DEF OwnInv
<1>0. list' = list /\ Len(list) \in Nat /\ pc \in Nat /\ list \in Lists
  BY ListFacts DEF ResumeTypeOK, OtherPartition
<1>1. k \in 1..Len(list) /\ phase' \in {"verify", "verified", "update"} /\ ~Interrupt
  BY <1>0 DEF Seen
<1>2. Undone(k) /\ IsPatch(list[k]) /\ list[k].id \in Ids
  BY <1>0, <1>1, UndoneBefore, ListFacts DEF Undone, Shaped
<1>3. /\ phase = "update" => ~(k < pc) /\ (step \in {"free", "sync"} => k # pc)
      /\ ~DeleteStash
  BY <1>0, <1>1, <1>2 DEF PatchInv, Undone
<1>4. /\ Overlap(list[k]) => Overlap(list[k])'
      /\ Needs(k, list[k].id) => Needs(k, list[k].id)'
  BY <1>0 DEF Overlap, Needs
<1>5. CASE ~Seen(k)
  <2>1. k = pc /\ phase = "verify" /\ VerifyPatch
    BY <1>0, <1>1, <1>2, <1>5 DEF Seen, OtherPartition, IsPatch, IsFill, cmd, ResumeTypeOK
  <2>2. disk' = disk /\ stash' = stash
    BY <2>1
  <2>3. CASE Clean(list[k].src)
    BY <1>0, <2>2, <2>3 DEF Clean
  <2>4. CASE ~Clean(list[k].src)
    <3>1. Overlap(list[k]) /\ LoadStash(list[k].id)
      BY <1>2, <2>1, <2>4 DEF NoSource, LoadSourceBlocks, cmd, Undone
    <3>2. stash[list[k].id] = "good" \/ stash_map[list[k].id] # {}
      BY <3>1 DEF LoadStash
    <3>3. stash_map[list[k].id] # {} =>
            \E s \in 1..(pc - 1) : list[s].op = "stash" /\ list[s].id = list[k].id
      BY <1>2, <2>1 DEF MapInv
    <3>4. \A s \in 1..(pc - 1) : s \in 1..Len(list) /\ s < k
      BY <1>0, <1>1, <2>1
    <3>5. stash[list[k].id] = "good" \/ Needs(k, list[k].id)
      BY <3>1, <3>2, <3>3, <3>4 DEF Needs
    <3> QED BY <1>0, <1>4, <2>2, <3>1, <3>5
  <2> QED BY <2>3, <2>4
<1>6. CASE Seen(k)
  <2>1. \/ Clean(list[k].src)
        \/ Overlap(list[k]) /\ (stash[list[k].id] = "good" \/ Needs(k, list[k].id))
    BY <1>1, <1>2, <1>6 DEF OwnInv
  <2>2. CASE Clean(list[k].src) /\ (Writing => pc < k \/ (k = pc /\ ~Overlap(list[k])))
    BY <1>1, <2>2, ResumeDisk, CleanKept
  <2>3. CASE Writing /\ ~(pc < k \/ (k = pc /\ ~Overlap(list[k])))
    <3>1. k = pc /\ Overlap(list[k])
      BY <1>0, <1>1, <1>3, <2>3 DEF Writing
    <3>2. stash[list[k].id] = "good"
      BY <1>2, <2>3, <3>1 DEF CopyInv, Writing
    <3>3. stash' = stash
      BY <1>1, <2>3 DEF Writing, ResumeTypeOK, OtherPartition
    <3> QED BY <1>0, <1>4, <3>1, <3>2, <3>3
  <2>4. CASE Overlap(list[k]) /\ Needs(k, list[k].id)
    BY <1>4, <2>4
  <2>5. CASE Overlap(list[k]) /\ stash[list[k].id] = "good" /\ ~Needs(k, list[k].id)
             /\ ~Clean(list[k].src)
    <3>1. ~(PerformCommandFree /\ cmd.id = list[k].id)
      <4> SUFFICES ASSUME PerformCommandFree, cmd.id = list[k].id PROVE FALSE
        OBVIOUS
      <4>1. list[pc].op = "free" /\ list[pc].id = list[k].id /\ pc \in 1..Len(list)
        BY <1>0 DEF cmd, ResumeTypeOK
      <4>2. pc < k
        BY <1>0, <1>1, <1>2, <1>3, <4>1 DEF IsPatch
      <4> QED BY <1>1, <1>2, <2>5, <4>1, <4>2 DEF NoReuse
    <3>2. ~(FreeImplicitStash /\ freestash = list[k].id)
      <4> SUFFICES ASSUME FreeImplicitStash, freestash = list[k].id PROVE FALSE
        OBVIOUS
      <4>1. k # pc /\ freestash # NoId
        BY <1>2, <1>3, DataAssumption
      <4> QED BY <1>1, <1>2, <2>5, <4>1 DEF FreeInv
    <3>3. stash'[list[k].id] = "good"
      BY <1>1, <1>2, <1>3, <2>5, <3>1, <3>2, GoodKept
    <3> QED BY <1>0, <1>4, <2>5, <3>3
  <2> QED BY <2>1, <2>2, <2>3, <2>4, <2>5
<1> QED BY <1>5, <1>6

\* No other command comes to depend on a copy that is to be freed.
LEMMA ResumeFree ==
  ASSUME ResumeTypeOK, SyncInv, PatchInv, CopyInv, CopyInv', StashInv, OwnInv, FreeInv,
         [Next]_vars, ~FullPackage, phase' = "update"
  PROVE  FreeInv'
<1> SUFFICES ASSUME freestash' # NoId, NEW k \in 1..Len(list')
             PROVE  /\ Undone(k)' /\ k # pc' /\ list'[k].id = freestash' =>
                         Clean(list[k].src)' \/ (Overlap(list[k])' /\ Needs(k, freestash)')
                    /\ Open(k)' /\ Needs(k, freestash)' => ToStash(k, freestash)'
  BY DEF FreeInv
<1>0. list' = list /\ Len(list) \in Nat /\ pc \in Nat /\ list \in Lists /\ k \in 1..Len(list)
  BY ListFacts DEF ResumeTypeOK, OtherPartition
<1>1. /\ phase = "update" /\ pc' = pc /\ pc \in 1..Len(list) /\ IsPatch(list[pc])
      /\ freestash' = freestash \/ stash[freestash'] = "none"
  BY CopyMade
<1>2. PICK i : i = freestash'
  OBVIOUS
<1>3. /\ Undone(k) /\ k # pc /\ list[k].id = i =>
           Clean(list[k].src) \/ (Overlap(list[k]) /\ Needs(k, i))
      /\ i \in Ids /\ Open(k) /\ Needs(k, i) => ToStash(k, i)
  <2>1. CASE stash[i] = "none"
    BY <1>0, <1>1, <2>1 DEF StashInv, OwnInv, Seen
  <2>2. CASE freestash = i
    BY <1>0, <1>1, <1>2, <2>2 DEF FreeInv
  <2> QED BY <1>1, <1>2, <2>1, <2>2
<1>4. i \in Ids
  <2>1. freestash' \in {NoId, freestash, cmd.id}
    BY DEF OtherPartition
  <2>2. freestash \in Ids \cup {NoId} /\ cmd.id \in Ids
    BY <1>0, <1>1, ListFacts DEF ResumeTypeOK, cmd, Shaped
  <2> QED BY <1>2, <2>1, <2>2
<1>5. Overlap(list[k])' <=> Overlap(list[k])
  BY <1>0 DEF Overlap
<1>6. Needs(k, freestash)' <=> Needs(k, i)
  BY <1>0, <1>2 DEF Needs, Overlap
<1>7. ASSUME Undone(k)', k # pc, list[k].id = i
      PROVE  Clean(list[k].src)' \/ (Overlap(list[k]) /\ Needs(k, i))
  <2>1. Undone(k)
    BY <1>0, <1>7, UndoneBefore
  <2>2. pc < k
    BY <1>0, <1>1, <1>7, <2>1 DEF PatchInv, Undone
  <2> QED BY <1>0, <1>3, <1>7, <2>1, <2>2, CleanKept
<1>8. ASSUME Open(k)', Needs(k, i)
      PROVE  ToStash(k, freestash)'
  <2>1. Open(k)
    BY <1>0, <1>8, OpenBefore
  <2>2. ToStash(k, i)
    BY <1>3, <1>4, <1>8, <2>1
  <2>3. list[pc].op # "stash"
    BY <1>1 DEF IsPatch
  <2>4. ToStash(k, i)'
    BY <1>0, <1>1, <1>4, <2>2, <2>3, ToStashKept
  <2> QED BY <1>2, <2>4 DEF ToStash
<1> QED BY <1>0, <1>1, <1>2, <1>5, <1>6, <1>7, <1>8

\* An update finds the source of each command that is not done.
LEMMA UpdateFinds ==
  ASSUME ResumeTypeOK, StashInv, OwnInv, NoReuse(list), phase = "update", pc \in 1..Len(list),
         IsPatch(cmd)
  PROVE  ~NoSource
<1> SUFFICES ASSUME NoSource PROVE FALSE
  OBVIOUS
<1>0. list \in Lists /\ Len(list) \in Nat /\ list[pc].id \in Ids /\ list[pc].use \subseteq Ids
  BY ListFacts DEF ResumeTypeOK, cmd, Shaped
<1>1. Undone(pc) /\ Open(pc)
  BY DEF NoSource, Undone, Open, Done, cmd
<1>2. ASSUME NEW i \in Ids, Needs(pc, i) PROVE stash[i] = "good" /\ LoadStash(i)
  <2>1. ~ToStash(pc, i)
    BY <1>0 DEF ToStash, Passed
  <2>2. stash[i] = "good"
    BY <1>1, <1>2, <2>1 DEF StashInv
  <2> QED BY <2>2 DEF LoadStash
<1>3. \A i \in list[pc].use : LoadStash(i)
  BY <1>0, <1>2 DEF Needs
<1>4. ~Clean(list[pc].src)
  BY <1>3 DEF NoSource, LoadSourceBlocks, cmd
<1>5. Overlap(list[pc]) /\ (stash[list[pc].id] = "good" \/ Needs(pc, list[pc].id))
  BY <1>1, <1>4 DEF OwnInv, Seen
<1>6. LoadStash(list[pc].id)
  BY <1>0, <1>2, <1>5 DEF LoadStash
<1> QED BY <1>5, <1>6 DEF NoSource, cmd

\* So it does not give up.
LEMMA UpdateGoesOn ==
  ASSUME ResumeTypeOK, StashInv, OwnInv, NoReuse(list), phase = "update", [Next]_vars,
         ~FullPackage
  PROVE  phase' # "unresumable"
<1>1. ~PatchFails
  BY ListFacts, UpdateFinds DEF ResumeTypeOK
<1> QED BY <1>1 DEF OtherPartition

HIDE DEF Next, Updater, vars, files, run, bounds, ParseLastCommandFile, Begin,
  BeginVerify, BeginUpdate, Unresumable, Verifying, VerifyNext, VerifySkip, VerifyPatch,
  VerifyPatchFails, VerifyStash, VerifyFree, VerifyEnds, AtCommand, Executing, Goto,
  SkipExecuted, PatchAlreadyDone, PatchFromSource, PatchStashSource, PatchFromStash,
  PatchFails, StashSkipped, StashSource, UpdateLastCommandIndex, PerformCommandFree,
  Fill, PerformCommandZero, PerformCommandErase, PerformCommandNew, WriteBlocks,
  FreeImplicitStash, SyncCommand, DeleteStash, DeleteLastCommandFile, Interrupt, Again,
  Retry, Repeat, StashRots, Ended

----------------------------------------------------------------------------
(***************************************************************************)
(* The theorems                                                            *)
(***************************************************************************)

\* A full package that is installed after an unresumable update starts from a clean slate:
\* the last-command file is gone.
LEMMA FullPackageInv ==
  ASSUME TypeOK, IndexInv, FullPackage, "interrupted" \notin Abandoned
  PROVE  TypeOK' /\ IndexInv' /\ StepInv' /\ (DiskInv => DiskInv') /\ DoneInv' /\ NewInv'
<1> USE DEF FullPackage, Again, files
<1>1. lastcmd = 0 /\ lastcmd' = 0 /\ phase' = "idle" /\ list' \in Lists
  BY AbandonedAssumption, FullAssumption DEF IndexInv
<1>2. Len(list') \in Nat
  <2>1. list' \in Seq(Command)
    BY <1>1, DataAssumption
  <2> QED
    BY <2>1
<1>3. TypeOK'
  <2>1. dir' \in BOOLEAN /\ createdstash' \in BOOLEAN /\ buffer' \in BOOLEAN
    BY Zenon DEF TypeOK
  <2>2. restarts' \in 0..MaxRestarts
    BY BoundsAssumption DEF TypeOK
  <2>3. phase' \in Phases /\ step' \in Steps
    BY DEF Phases, Steps
  <2> QED
    BY <1>1, <1>2, <2>1, <2>2, <2>3 DEF TypeOK
<1>4. IndexInv' /\ StepInv' /\ NewInv'
  BY <1>1 DEF IndexInv, StepInv, NewInv
<1>5. DiskInv => DiskInv'
  <2>1. \A b \in Blocks : \E i \in 1..Len(list') : b \in list'[i].tgt
    BY FullAssumption DEF IsFull
  <2>2. disk' = disk /\ synced' = synced /\ phase # "update"
    BY AbandonedAssumption
  <2> QED
    BY <2>1, <2>2 DEF DiskInv, SyncInv
<1>6. DoneInv'
  BY <1>1, <1>2 DEF DoneInv
<1> QED
  BY <1>3, <1>4, <1>5, <1>6

\* Between the functions the last-command file may be deleted, and once the update is done
\* another partition may leave its index in it: all commands that it could make a run skip are
\* done then.
LEMMA OtherPartitionInv ==
  ASSUME OtherPartition
  PROVE  /\ (TypeOK => TypeOK') /\ (StepInv => StepInv') /\ (IndexInv => IndexInv')
         /\ (DiskInv => DiskInv') /\ (TypeOK /\ DoneInv => DoneInv') /\ (NewInv => NewInv')
<1> USE DEF OtherPartition, run, bounds
<1>1. /\ phase \in {"idle", "verified", "done"}
      /\ lastcmd' = 0 \/ (phase = "done" /\ lastcmd' \in OtherIndices)
      /\ phase' = phase /\ list' = list /\ disk' = disk
  OBVIOUS
<1>2. ASSUME TypeOK PROVE TypeOK'
  <2>1. Len(list) \in Nat
    BY <1>2, ListFacts DEF TypeOK
  <2>2. dir' \in BOOLEAN /\ createdstash' \in BOOLEAN /\ buffer' \in BOOLEAN
    BY <1>2, Zenon DEF TypeOK
  <2> QED
    BY <1>1, <1>2, <2>1, <2>2 DEF TypeOK
<1>3. ASSUME TypeOK, DoneInv PROVE DoneInv'
  <2>1. Len(list) \in Nat
    BY <1>3, ListFacts DEF TypeOK
  <2>2. CASE lastcmd' = 0
    BY <1>1, <1>3, <2>1, <2>2 DEF DoneInv
  <2>3. CASE phase = "done"
    <3>1. \A i \in 1..Len(list) : \A b \in list[i].tgt : b \in Blocks
      BY <1>3, ListFacts DEF TypeOK
    <3>2. disk = Target
      BY <1>3, <2>3 DEF DoneInv
    <3>3. \A i \in 1..Len(list) : Done(list[i])'
      BY <1>1, <3>1, <3>2 DEF Done
    <3> QED
      BY <1>1, <2>3, <3>2, <3>3 DEF DoneInv
  <2> QED
    BY <1>1, <2>2, <2>3
<1>4. (StepInv => StepInv') /\ (IndexInv => IndexInv')
  BY <1>1 DEF StepInv, IndexInv, Recorded
<1>5. (DiskInv => DiskInv') /\ (NewInv => NewInv')
  BY <1>1 DEF DiskInv, SyncInv, NewInv
<1> QED
  BY <1>2, <1>3, <1>4, <1>5

\* Type correctness of verification, update, interruption and retry: in particular the
\* last-command file names a command of the list unless another partition's update left it, and
\* the run never leaves the list.
THEOREM TypeCorrect ==
  ASSUME "interrupted" \notin Abandoned
  PROVE  Spec => []TypeOK
<1> DEFINE TInv == TypeOK /\ StepInv /\ IndexInv
<1>1. Init => TInv
  BY InitInv DEF Inv
<1>2. TInv /\ [Next]_vars => TInv'
  BY NextTypeOK, NextStepInv, NextIndexInv, FullPackageInv, OtherPartitionInv
<1>3. TInv => TypeOK
  OBVIOUS
<1> QED
  BY <1>1, <1>2, <1>3, PTL DEF Spec

\* The inductive invariant holds in every reachable state.
LEMMA InvHolds ==
  ASSUME \A l \in Lists : Unsplit(l), "interrupted" \notin Abandoned
  PROVE  Spec => []Inv
<1>1. Inv /\ [Next]_vars => Inv'
  <2> SUFFICES ASSUME Inv, [Next]_vars, ~FullPackage, ~OtherPartition PROVE Inv'
    BY FullPackageInv, OtherPartitionInv DEF Inv
  <2>1. TypeOK /\ IndexInv /\ StepInv /\ DiskInv /\ DoneInv /\ NewInv
    BY DEF Inv
  <2>2. Unsplit(list)
    BY <2>1 DEF TypeOK
  <2>3. TypeOK' /\ IndexInv' /\ StepInv' /\ DiskInv' /\ NewInv'
    BY <2>1, NextTypeOK, NextIndexInv, NextStepInv, NextDiskInv, NextNewInv
  <2>4. DoneInv'
    BY <2>1, <2>2, NextDoneInv
  <2> QED
    BY <2>3, <2>4 DEF Inv
<1> QED
  BY <1>1, InitInv, PTL DEF Spec

\* block_image_update returns "t" only with the target image on the partition, for every
\* transfer list whose `new` commands are not separated by an index that a run may start from,
\* and through any number of interruptions, torn and lost writes, bad stash files and indices
\* left by the updates of other partitions.
THEOREM SuccessMeansTarget ==
  ASSUME \A l \in Lists : Unsplit(l), "interrupted" \notin Abandoned
  PROVE  Spec => []UpdatedCorrectly
<1>1. Inv => UpdatedCorrectly
  BY DEF Inv, DoneInv, UpdatedCorrectly
<1> QED
  BY <1>1, InvHolds, PTL

\* The commands an update skips because of the last-command file are done.
THEOREM SkippingIsSafe ==
  ASSUME \A l \in Lists : Unsplit(l), "interrupted" \notin Abandoned
  PROVE  Spec => []SkipIsSafe
<1>1. Inv => SkipIsSafe
  BY ListFacts DEF Inv, TypeOK, DoneInv, SkipIsSafe
<1> QED
  BY <1>1, InvHolds, PTL
\* What the invariants of resumption, with and without power loss, have in common.
BaseInv == ResumeTypeOK /\ SyncInv /\ DirInv /\ PatchInv /\ CopyInv /\ MapInv

\* The base holds before the first run,
LEMMA InitBaseInv == Init => BaseInv
<1> SUFFICES ASSUME Init PROVE BaseInv
  OBVIOUS
<1>0. list \in Lists /\ Len(list) \in Nat
  BY ListFacts DEF Init
<1>1. ResumeTypeOK
  <2>1. phase \in Phases /\ step \in Steps
    BY DEF Init, Phases, Steps
  <2> QED BY <1>0, <2>1, DataAssumption DEF Init, ResumeTypeOK
<1>2. SyncInv /\ DirInv /\ CopyInv /\ PatchInv /\ MapInv
  BY DEF Init, SyncInv, DirInv, CopyInv, PatchInv, MapInv
<1> QED BY <1>1, <1>2 DEF BaseInv

\* is kept by a full package, which moreover has no source to lose,
LEMMA FullPackageBase ==
  ASSUME BaseInv, FullPackage
  PROVE  /\ BaseInv' /\ phase' = "idle" /\ rots' = rots
         /\ \A i \in 1..Len(list') : ~IsPatch(list[i])'
<1>0. ResumeTypeOK /\ DirInv /\ SyncInv
  BY DEF BaseInv
<1>1. /\ list' \in Lists /\ \A i \in 1..Len(list') : IsFill(list'[i])
      /\ phase' = "idle" /\ step' = "cmd" /\ pc' = 1 /\ saved' = 0 /\ freestash' = NoId
      /\ stash_map' = [i \in Ids |-> {}] /\ disk' = disk /\ synced' = synced /\ stash' = stash
      /\ lastcmd' = lastcmd /\ rots' = rots /\ dir' = dir /\ phase # "update"
  BY FullAssumption, AbandonedAssumption DEF FullPackage, IsFull, Again, files
<1>2. \A i \in 1..Len(list') : ~IsPatch(list[i])'
  BY <1>1 DEF IsFill, IsPatch
<1>3. Len(list') \in Nat
  <2>1. list' \in Seq(Command)
    BY <1>1, DataAssumption
  <2> QED BY <2>1
<1>4. ResumeTypeOK'
  BY <1>0, <1>1, <1>3 DEF ResumeTypeOK, Phases, Steps
<1>5. DirInv'
  <2>1. (~dir => \A i \in Ids : stash[i] = "none")'
    BY <1>0, <1>1, Zenon DEF DirInv
  <2> QED BY <1>1, <2>1 DEF DirInv
<1>6. PatchInv' /\ CopyInv' /\ MapInv'
  BY <1>1 DEF PatchInv, CopyInv, MapInv
<1>7. SyncInv'
  BY <1>0, <1>1 DEF SyncInv
<1> QED BY <1>1, <1>2, <1>4, <1>5, <1>6, <1>7 DEF BaseInv

\* and by every other step, as long as no stash file goes bad.
LEMMA NextBaseInv ==
  ASSUME BaseInv, [Next]_vars, ~FullPackage, rots' = 0
  PROVE  BaseInv'
<1>1. ResumeTypeOK /\ SyncInv /\ DirInv /\ PatchInv /\ CopyInv /\ MapInv
  BY DEF BaseInv
<1>2. ResumeTypeOK' /\ DirInv' /\ PatchInv' /\ MapInv'
  BY <1>1, ResumeTypes, ResumeDir, ResumePatches, ResumeMap
<1>3. SyncInv'
  BY <1>1, NextSyncInv DEF ResumeTypeOK
<1>4. CopyInv'
  <2>1. CASE phase' = "update"
    BY <1>1, <2>1, ResumeCopy
  <2>2. CASE phase' # "update"
    BY <2>2 DEF CopyInv
  <2> QED BY <2>1, <2>2
<1> QED BY <1>2, <1>3, <1>4 DEF BaseInv

\* The invariant that makes an update resumable when no power is lost.
ResumeInv == BaseInv /\ NeverUnresumable /\ SourceInv /\ SharedInv

\* It holds in every reachable state.
LEMMA ResumeHolds ==
  ASSUME PowerLoss = FALSE, MaxRots = 0, \A l \in Lists : NoReuse(l)
  PROVE  Spec => []ResumeInv
<1>1. Init => ResumeInv
  <2> SUFFICES ASSUME Init PROVE NeverUnresumable /\ SourceInv /\ SharedInv
    BY InitBaseInv DEF ResumeInv
  <2>1. \A k \in 1..Len(list) : Clean(list[k].src)
    BY DEF Init, Clean
  <2>2. \A s \in 1..Len(list) : ~Passed(s)
    BY ListFacts DEF Init, Passed
  <2> QED BY <2>1, <2>2 DEF SourceInv, Init, NeverUnresumable, SharedInv
<1>2. ASSUME ResumeInv, FullPackage PROVE ResumeInv'
  BY <1>2, FullPackageBase DEF ResumeInv, NeverUnresumable, SourceInv, SharedInv, Undone
<1>3. ASSUME ResumeInv, [Next]_vars, ~FullPackage PROVE ResumeInv'
  <2>1. /\ ResumeTypeOK /\ SyncInv /\ DirInv /\ PatchInv /\ CopyInv /\ MapInv /\ BaseInv
        /\ NeverUnresumable /\ SourceInv /\ SharedInv /\ NoReuse(list)
    BY <1>3 DEF ResumeInv, BaseInv, ResumeTypeOK
  <2>2. phase' # "unresumable"
    BY <1>3, <2>1, NoneUnresumable
  <2>3. rots' = 0
    BY <1>3, <2>1, NoRot
  <2>4. BaseInv' /\ CopyInv'
    BY <1>3, <2>1, <2>3, NextBaseInv DEF BaseInv
  <2>5. SourceInv'
    BY <1>3, <2>1, <2>2, <2>3, ResumeSource
  <2>6. SharedInv'
    <3>1. CASE phase' = "update"
      BY <1>3, <2>1, <2>4, <3>1, ResumeShared
    <3>2. CASE phase' # "update"
      BY <3>2 DEF SharedInv
    <3> QED BY <3>1, <3>2
  <2> QED BY <2>2, <2>4, <2>5, <2>6 DEF ResumeInv, NeverUnresumable
<1> QED BY <1>1, <1>2, <1>3, PTL DEF Spec

\* "stash the source blocks so we can resume from possible write errors": however often
\* verification and update are interrupted, in the middle of a write too, no later run finds a
\* move or diff without its source and declares the update unresumable.  This for every
\* transfer list that does not write a stash id again after freeing it, whatever other
\* partitions leave in the last-command file and whether or not a full package is tried.
THEOREM AlwaysResumable ==
  ASSUME PowerLoss = FALSE, MaxRots = 0, \A l \in Lists : NoReuse(l)
  PROVE  Spec => []NeverUnresumable
<1>1. ResumeInv => NeverUnresumable
  BY DEF ResumeInv
<1> QED BY <1>1, ResumeHolds, PTL

\* The persistent state itself stays recoverable: each part of the source of a command that is
\* not done is intact on the partition or safe in the stash, at every moment.
THEOREM SourceIsKept ==
  ASSUME PowerLoss = FALSE, MaxRots = 0, \A l \in Lists : NoReuse(l)
  PROVE  Spec => []Recoverable
<1>1. ResumeInv => Recoverable
  <2> SUFFICES ASSUME ResumeInv, NEW k \in 1..Len(list), IsPatch(list[k]), ~Done(list[k])
               PROVE  /\ Clean(list[k].src) \/ (Overlap(list[k]) /\ stash[list[k].id] = "good")
                      /\ \A s \in 1..(k-1) :
                           (list[s].op = "stash" /\ list[s].id \in list[k].use) =>
                              Clean(list[s].src) \/ stash[list[s].id] = "good"
    BY DEF Recoverable
  <2>1. SourceInv /\ Undone(k) /\ Len(list) \in Nat
    BY ListFacts DEF ResumeInv, BaseInv, ResumeTypeOK, Undone
  <2>2. \A s \in 1..(k-1) : s \in 1..Len(list) /\ s < k
    BY <2>1
  <2> QED BY <2>1, <2>2 DEF SourceInv, Uses
<1> QED BY <1>1, ResumeHolds, PTL

\* The invariant that makes a verified update resumable.
VerifiedInv == rots \in Nat /\ (rots = 0 => BaseInv /\ StashInv /\ OwnInv /\ FreeInv)

\* "verified partition contents; update may be resumed": an update that follows a successful
\* verification does not run into missing source data, unless a stash file has gone bad.
\* This holds with power loss, which may lose or tear any write that was not synced, for every
\* transfer list that does not write a stash id again after freeing it.
THEOREM VerifiedMayBeResumed ==
  ASSUME \A l \in Lists : NoReuse(l)
  PROVE  Spec => VerifiedIsResumable
<1>1. Init => VerifiedInv
  <2> SUFFICES ASSUME Init PROVE rots \in Nat /\ StashInv /\ OwnInv /\ FreeInv
    BY InitBaseInv DEF VerifiedInv
  <2>0. list \in Lists /\ Len(list) \in Nat /\ lastcmd = 0 /\ phase = "idle" /\ disk = Source
    BY ListFacts DEF Init
  <2>1. \A k \in 1..Len(list) : Clean(list[k].src) /\ ~Passed(k)
    BY <2>0 DEF Clean, Passed
  <2>2. ASSUME NEW k \in 1..Len(list), NEW i \in Ids, Needs(k, i)
        PROVE  \E s \in 1..Len(list) : s < k /\ list[s].op = "stash" /\ list[s].id = i
    <3>1. CASE i \in list[k].use
      BY <2>0, <3>1, StashedBefore DEF Uses
    <3> QED BY <2>2, <3>1 DEF Needs
  <2>3. StashInv
    BY <2>1, <2>2 DEF StashInv, ToStash
  <2> QED BY <2>0, <2>3 DEF Init, OwnInv, FreeInv, Seen
<1>2. ASSUME VerifiedInv, FullPackage PROVE VerifiedInv'
  <2>1. rots' = rots
    BY <1>2 DEF FullPackage, Again
  <2>2. ASSUME rots = 0 PROVE BaseInv' /\ StashInv' /\ OwnInv' /\ FreeInv'
    <3>1. /\ BaseInv' /\ phase' = "idle" /\ \A k \in 1..Len(list') : ~IsPatch(list[k])'
      BY <1>2, <2>2, FullPackageBase DEF VerifiedInv
    <3> QED BY <3>1 DEF StashInv, OwnInv, FreeInv, Open, Undone
  <2> QED BY <1>2, <2>1, <2>2 DEF VerifiedInv
<1>3. ASSUME VerifiedInv, [Next]_vars, ~FullPackage PROVE VerifiedInv'
  <2>1. rots' \in Nat /\ (rots' = 0 => rots = 0)
    BY <1>3, RotsGrow DEF VerifiedInv
  <2>2. ASSUME rots' = 0 PROVE BaseInv' /\ StashInv' /\ OwnInv' /\ FreeInv'
    <3>1. /\ ResumeTypeOK /\ SyncInv /\ DirInv /\ PatchInv /\ CopyInv /\ MapInv /\ BaseInv
          /\ StashInv /\ OwnInv /\ FreeInv /\ NoReuse(list)
      BY <1>3, <2>1, <2>2 DEF VerifiedInv, BaseInv, ResumeTypeOK
    <3>2. BaseInv' /\ CopyInv'
      BY <1>3, <2>2, <3>1, NextBaseInv DEF BaseInv
    <3>3. StashInv' /\ OwnInv'
      BY <1>3, <2>2, <3>1, ResumeStash, ResumeOwn
    <3>4. FreeInv'
      <4>1. CASE phase' = "update"
        BY <1>3, <3>1, <3>2, <4>1, ResumeFree
      <4>2. CASE phase' # "update"
        BY <4>2 DEF FreeInv
      <4> QED BY <4>1, <4>2
    <3> QED BY <3>2, <3>3, <3>4
  <2> QED BY <2>1, <2>2 DEF VerifiedInv
<1>4. VerifiedInv /\ [Next]_vars =>
        [(phase = "update" /\ rots = 0) => phase' # "unresumable"]_vars
  <2> SUFFICES ASSUME VerifiedInv, [Next]_vars, phase = "update", rots = 0
               PROVE  phase' # "unresumable"
    OBVIOUS
  <2>1. CASE FullPackage
    BY <2>1 DEF FullPackage, Again
  <2>2. CASE ~FullPackage
    <3>1. ResumeTypeOK /\ StashInv /\ OwnInv /\ NoReuse(list)
      BY DEF VerifiedInv, BaseInv, ResumeTypeOK
    <3> QED BY <2>2, <3>1, UpdateGoesOn
  <2> QED BY <2>1, <2>2
<1> QED BY <1>1, <1>2, <1>3, <1>4, PTL DEF Spec, VerifiedIsResumable
=============================================================================
