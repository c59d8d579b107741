----------------------------- MODULE BlockImage -----------------------------
(***************************************************************************)
(* block_image_verify and block_image_update of updater/blockimg.cpp: the  *)
(* in-place update of one partition by a transfer list, interrupted at any *)
(* point and started again.                                                *)
(*                                                                         *)
(* Persistent state: the partition, the stash directory on /cache and the  *)
(* last-command file.  Everything else belongs to one run of the updater   *)
(* and is lost when it is interrupted.                                     *)
(*                                                                         *)
(* Abstraction.  A transfer-list line is a record: op, the target blocks   *)
(* tgt, the source blocks src it reads from the partition, the stash ids   *)
(* use it loads, and id, its stash id or (for move and diff) the hash of   *)
(* all its source data.  A hash identifies its contents: a block range     *)
(* passes VerifyBlocks when it holds the contents the package was made     *)
(* for, Source before and Target after the update.  An id is what the code *)
(* uses it for, the name of a stash file.  Commands are counted from 1, so *)
(* index 0 plays the part of -1.                                           *)
(***************************************************************************)
EXTENDS Integers, Sequences, FiniteSets

CONSTANTS
  Blocks,      \* the blocks of the partition
  Ids,         \* stash ids (hashes)
  NoId,        \* no stash id
  Values,      \* block contents
  Garbage,     \* contents of a torn or misplaced write
  Source,      \* contents of the partition the package expects
  Target,      \* contents of the partition the package produces
  Lists,       \* the transfer lists considered
  FullLists,   \* those of full packages
  PowerLoss,   \* TRUE: an interruption may lose writes that were not synced
  Abandoned,   \* phases after which the user may install a full package instead
  OtherIndices, \* indices an interrupted update of another partition may leave
  MaxRestarts, \* bound on the number of runs after the first
  MaxRots      \* bound on the number of stash files that go bad

Ops == {"move", "diff", "stash", "free", "new", "zero", "erase"}

Command == [op  : Ops, tgt : SUBSET Blocks, src : SUBSET Blocks,
            use : SUBSET Ids, id : Ids \cup {NoId}]

IsPatch(c) == c.op \in {"move", "diff"}
IsFill(c)  == c.op \in {"new", "zero", "erase"}

Overlap(c) == c.src \cap c.tgt # {}

(***************************************************************************)
(* What "the creator of the transfer list will guarantee", and the shape   *)
(* of the commands.                                                        *)
(***************************************************************************)
Shaped(c) ==
  /\ IsPatch(c) => c.id \in Ids
  /\ IsFill(c)  => c.src = {} /\ c.use = {}
  /\ c.op = "stash" => c.tgt = {} /\ c.src # {} /\ c.use = {} /\ c.id \in Ids
  /\ c.op = "free"  => c.tgt = {} /\ c.src = {} /\ c.use = {} /\ c.id \in Ids

WellFormed(l) ==
  /\ \A i \in 1..Len(l) : Shaped(l[i])
  \* a block is written by one command at most, and never read after that
  /\ \A i, j \in 1..Len(l) :
        /\ i # j => l[i].tgt \cap l[j].tgt = {}
        /\ i < j => l[i].tgt \cap l[j].src = {}
  \* a stash is loaded before it is used, and not freed in between
  /\ \A j \in 1..Len(l) : \A s \in l[j].use :
        \E i \in 1..(j-1) :
           /\ l[i].op = "stash" /\ l[i].id = s
           /\ \A k \in i..j : ~(l[k].op = "free" /\ l[k].id = s)
  \* every other block keeps its contents
  /\ \A b \in Blocks : (\A i \in 1..Len(l) : b \notin l[i].tgt) => Target[b] = Source[b]

\* A full package writes every block and reads none.
IsFull(l) ==
  /\ \A i \in 1..Len(l) : IsFill(l[i])
  /\ \A b \in Blocks : \E i \in 1..Len(l) : b \in l[i].tgt

ASSUME DataAssumption ==
  /\ Source \in [Blocks -> Values] /\ Target \in [Blocks -> Values]
  /\ Garbage \in Values
  /\ NoId \notin Ids
  /\ Lists \subseteq Seq(Command)
  /\ \A l \in Lists : WellFormed(l)
ASSUME FullAssumption == FullLists \subseteq {l \in Lists : IsFull(l)}
ASSUME AbandonedAssumption ==
  Abandoned \subseteq {"interrupted", "unresumable"}
ASSUME OtherAssumption == OtherIndices \subseteq Nat
ASSUME BoundsAssumption ==
  PowerLoss \in BOOLEAN /\ MaxRestarts \in Nat /\ MaxRots \in Nat

VARIABLES
  list,          \* the transfer list of the package
  \* persistent
  disk,          \* the partition as a reader sees it
  synced,        \* the partition as of the last fsync
  stash,         \* the stash file of an id: "none", "good" or "bad"
  dir,           \* the stash directory exists
  lastcmd,       \* index in the last-command file, 0 if there is none
  \* the run
  phase, step,   \* where the run is; where it is inside a command of the update
  pc,            \* params.cmdindex
  saved,         \* saved_last_command_index
  stash_map,     \* stash_map[id]: blocks whose contents the id names, {} if unknown
  createdstash,  \* params.createdstash
  freestash,     \* params.freestash
  buffer,        \* params.buffer holds the source data of the command
  newpos,        \* `new` sections taken from the new-data stream
  \* bounds
  restarts, rots

files   == <<stash, dir, lastcmd>>
run     == <<phase, step, pc, saved, stash_map, createdstash, freestash, buffer, newpos>>
bounds  == <<restarts, rots>>
vars    == <<list, disk, synced, files, run, bounds>>

Phases == {"idle", "verify", "verified", "update", "done", "interrupted", "unresumable"}
Steps  == {"cmd", "index", "write", "free", "sync", "finish"}

TypeOK ==
  /\ list \in Lists
  /\ disk \in [Blocks -> Values] /\ synced \in [Blocks -> Values]
  /\ stash \in [Ids -> {"none", "good", "bad"}]
  /\ dir \in BOOLEAN /\ createdstash \in BOOLEAN /\ buffer \in BOOLEAN
  /\ lastcmd \in (0..Len(list)) \cup OtherIndices /\ saved \in (0..Len(list)) \cup OtherIndices
  /\ phase \in Phases /\ step \in Steps
  /\ pc \in 1..(Len(list) + 1)
  /\ stash_map \in [Ids -> SUBSET Blocks]
  /\ freestash \in Ids \cup {NoId}
  /\ newpos \in Nat /\ restarts \in 0..MaxRestarts /\ rots \in 0..MaxRots

Init ==
  /\ list \in Lists
  /\ disk = Source /\ synced = Source
  /\ stash = [i \in Ids |-> "none"] /\ dir = FALSE /\ lastcmd = 0
  /\ phase = "idle" /\ step = "cmd" /\ pc = 1 /\ saved = 0
  /\ stash_map = [i \in Ids |-> {}]
  /\ createdstash = FALSE /\ freestash = NoId /\ buffer = FALSE /\ newpos = 0
  /\ restarts = 0 /\ rots = 0

(***************************************************************************)
(* Reading and checking                                                    *)
(***************************************************************************)
cmd == list[pc]

\* VerifyBlocks of a range against the hash of the contents it had in the source image.
Clean(S) == \A b \in S : disk[b] = Source[b]

\* VerifyBlocks of a command's target against its target hash.
Done(c) == \A b \in c.tgt : disk[b] = Target[b]

\* LoadStash finds data under the id, and it is the data the id names.  In verify mode the
\* source blocks noted in stash_map stand for the file, and a failure there is final.
LoadStash(i) ==
  IF phase = "verify" /\ stash_map[i] # {} THEN Clean(stash_map[i]) ELSE stash[i] = "good"

\* LoadStash with verify set deletes a file with unexpected contents.
DropBadStash(i) ==
  IF stash[i] = "bad" /\ ~(phase = "verify" /\ stash_map[i] # {})
    THEN [stash EXCEPT ![i] = "none"] ELSE stash

\* LoadSourceBlocks assembles the data the command's source hash names.  Stashes are loaded
\* unverified; a missing or bad one shows in the hash of the whole.
LoadSourceBlocks(c) == Clean(c.src) /\ \A i \in c.use : LoadStash(i)

\* Mutant: the stashed copy of an interrupted command is used without checking its hash.
FromStash_Unverified ==
  ~Done(cmd) /\ ~LoadSourceBlocks(cmd) /\ Overlap(cmd) /\ stash[cmd.id] # "none"

\* The outcomes of LoadSrcTgtVersion3.
AlreadyDone == Done(cmd)
FromSource  == ~Done(cmd) /\ LoadSourceBlocks(cmd)
FromStash   == ~Done(cmd) /\ ~LoadSourceBlocks(cmd) /\ Overlap(cmd) /\ LoadStash(cmd.id)
NoSource    == ~Done(cmd) /\ ~LoadSourceBlocks(cmd) /\ ~(Overlap(cmd) /\ LoadStash(cmd.id))

\* The `new` commands up to command n.
NewUpTo(n) == {i \in 1..n : list[i].op = "new"}

(***************************************************************************)
(* Starting PerformBlockImageUpdate: CreateStash, which also removes       *)
(* .partial files, and ParseLastCommandFile.                               *)
(***************************************************************************)
\* A file that cannot be read or parsed is deleted.
ParseLastCommandFile ==
  \/ saved' = lastcmd /\ UNCHANGED lastcmd
  \/ saved' = 0 /\ lastcmd' = 0

Begin(p) ==
  /\ phase' = p /\ step' = "cmd" /\ pc' = 1
  /\ createdstash' = ~dir /\ dir' = TRUE
  /\ ParseLastCommandFile
  /\ freestash' = NoId /\ buffer' = FALSE /\ newpos' = 0
  /\ UNCHANGED <<list, disk, synced, stash, stash_map, bounds>>

BeginVerify == phase = "idle" /\ Begin("verify")
BeginUpdate == phase = "verified" /\ Begin("update")

\* pbiudone with isunresumable: the last-command file and the stash go.
Unresumable ==
  /\ phase' = "unresumable"
  /\ lastcmd' = 0
  /\ stash' = [i \in Ids |-> "none"] /\ dir' = FALSE
  /\ UNCHANGED <<list, disk, synced, step, pc, saved, stash_map, createdstash, freestash,
                 buffer, newpos, bounds>>

(***************************************************************************)
(* block_image_verify, one command at a time                               *)
(***************************************************************************)
Verifying == phase = "verify" /\ pc <= Len(list)

VerifyNext ==
  /\ pc' = pc + 1
  /\ UNCHANGED <<list, disk, synced, dir, phase, step, createdstash, freestash, buffer, newpos, bounds>>

\* "erase", "new" and "zero" have a null function.
VerifySkip ==
  /\ Verifying /\ IsFill(cmd)
  /\ VerifyNext
  /\ UNCHANGED <<stash, lastcmd, saved, stash_map>>

\* Mutant: a command without source data does not fail the verification.
VerifyPatch_Tolerant ==
  /\ Verifying /\ IsPatch(cmd)
  /\ IF pc <= saved /\ ~AlreadyDone
       THEN saved' = 0 /\ lastcmd' = 0
       ELSE UNCHANGED <<saved, lastcmd>>
  /\ VerifyNext
  /\ UNCHANGED <<stash, stash_map>>

\* A move or diff that can proceed.  Up to the saved index it has to be done already, or
\* else the update will start from the beginning.
VerifyPatch ==
  /\ Verifying /\ IsPatch(cmd) /\ ~NoSource
  /\ IF pc <= saved /\ ~AlreadyDone
       THEN saved' = 0 /\ lastcmd' = 0
       ELSE UNCHANGED <<saved, lastcmd>>
  /\ VerifyNext
  /\ UNCHANGED <<stash, stash_map>>

VerifyPatchFails ==
  /\ Verifying /\ IsPatch(cmd) /\ NoSource
  /\ Unresumable

\* Without a stash file the source range is noted, whether its contents are right or not.
VerifyStash ==
  /\ Verifying /\ cmd.op = "stash"
  /\ stash' = DropBadStash(cmd.id)
  /\ stash_map' = IF LoadStash(cmd.id) THEN stash_map
                  ELSE [stash_map EXCEPT ![cmd.id] = cmd.src]
  /\ VerifyNext
  /\ UNCHANGED <<lastcmd, saved>>

\* Mutant: verification frees stash files it did not create.
VerifyFree_Always ==
  /\ Verifying /\ cmd.op = "free"
  /\ stash_map' = [stash_map EXCEPT ![cmd.id] = {}]
  /\ stash' = [stash EXCEPT ![cmd.id] = "none"]
  /\ VerifyNext
  /\ UNCHANGED <<lastcmd, saved>>

VerifyFree ==
  /\ Verifying /\ cmd.op = "free"
  /\ stash_map' = [stash_map EXCEPT ![cmd.id] = {}]
  /\ stash' = IF createdstash THEN [stash EXCEPT ![cmd.id] = "none"] ELSE stash
  /\ VerifyNext
  /\ UNCHANGED <<lastcmd, saved>>

\* Every command can proceed; a stash directory made for the verification goes.
VerifyEnds ==
  /\ phase = "verify" /\ pc = Len(list) + 1
  /\ phase' = "verified"
  /\ dir' = (dir /\ ~createdstash)
  /\ stash' = IF createdstash THEN [i \in Ids |-> "none"] ELSE stash
  /\ UNCHANGED <<list, disk, synced, lastcmd, step, pc, saved, stash_map, createdstash,
                 freestash, buffer, newpos, bounds>>

(***************************************************************************)
(* block_image_update                                                      *)
(***************************************************************************)
AtCommand == phase = "update" /\ step = "cmd" /\ pc <= Len(list)
Executing == AtCommand /\ pc > saved

Goto(s) ==
  /\ step' = s
  /\ UNCHANGED <<list, synced, dir, phase, pc, saved, createdstash, bounds>>

\* "Skipping already executed command"
SkipExecuted ==
  /\ AtCommand /\ pc <= saved
  /\ pc' = pc + 1
  /\ UNCHANGED <<list, disk, synced, files, phase, step, saved, stash_map, createdstash,
                 freestash, buffer, newpos, bounds>>

\* "skipping already moved blocks"
PatchAlreadyDone ==
  /\ Executing /\ IsPatch(cmd) /\ AlreadyDone
  /\ Goto("sync")
  /\ UNCHANGED <<disk, stash, lastcmd, stash_map, freestash, buffer, newpos>>

\* The source is intact and may be overwritten directly.
PatchFromSource ==
  /\ Executing /\ IsPatch(cmd) /\ FromSource /\ ~Overlap(cmd)
  /\ buffer' = LoadSourceBlocks(cmd)
  /\ Goto("write")
  /\ UNCHANGED <<disk, stash, lastcmd, stash_map, freestash, newpos>>

\* Mutant: overlapping source blocks are not stashed.
PatchStashSource_NoStash ==
  /\ Executing /\ IsPatch(cmd) /\ FromSource /\ Overlap(cmd)
  /\ buffer' = LoadSourceBlocks(cmd)
  /\ UNCHANGED <<stash, freestash>>
  /\ Goto("index")
  /\ UNCHANGED <<disk, lastcmd, stash_map, newpos>>

\* Mutant: a copy that existed before is freed after the write.
PatchStashSource_FreeAlways ==
  /\ Executing /\ IsPatch(cmd) /\ FromSource /\ Overlap(cmd)
  /\ buffer' = LoadSourceBlocks(cmd)
  /\ stash' = [stash EXCEPT ![cmd.id] = "good"]
  /\ freestash' = cmd.id
  /\ Goto("index")
  /\ UNCHANGED <<disk, lastcmd, stash_map, newpos>>

\* The source overlaps the target: WriteStash keeps a copy under the source hash.  An
\* existing file is taken to have the right contents and is not freed afterwards.
PatchStashSource ==
  /\ Executing /\ IsPatch(cmd) /\ FromSource /\ Overlap(cmd)
  /\ buffer' = LoadSourceBlocks(cmd)
  /\ IF stash[cmd.id] = "none"
       THEN /\ stash' = [stash EXCEPT ![cmd.id] = IF buffer' THEN "good" ELSE "bad"]
            /\ freestash' = cmd.id
       ELSE UNCHANGED <<stash, freestash>>
  /\ Goto("index")
  /\ UNCHANGED <<disk, lastcmd, stash_map, newpos>>

\* An interrupted command whose source was stashed.
PatchFromStash ==
  /\ Executing /\ IsPatch(cmd) /\ FromStash
  /\ buffer' = (stash[cmd.id] = "good")
  /\ Goto("write")
  /\ UNCHANGED <<disk, stash, lastcmd, stash_map, freestash, newpos>>

\* "partition has unexpected contents"
PatchFails ==
  /\ Executing /\ IsPatch(cmd) /\ NoSource
  /\ Unresumable

\* PerformCommandStash: the stash file exists, or its source is gone already.
StashSkipped ==
  /\ Executing /\ cmd.op = "stash"
  /\ LoadStash(cmd.id) \/ ~Clean(cmd.src)
  /\ stash' = DropBadStash(cmd.id)
  /\ stash_map' = IF LoadStash(cmd.id) THEN stash_map
                  ELSE [stash_map EXCEPT ![cmd.id] = cmd.src]
  /\ Goto("sync")
  /\ UNCHANGED <<disk, lastcmd, freestash, buffer, newpos>>

StashSource ==
  /\ Executing /\ cmd.op = "stash"
  /\ ~LoadStash(cmd.id) /\ Clean(cmd.src)
  /\ stash' = [stash EXCEPT ![cmd.id] = IF Clean(cmd.src) THEN "good" ELSE "bad"]
  /\ stash_map' = [stash_map EXCEPT ![cmd.id] = cmd.src]
  /\ Goto("index")
  /\ UNCHANGED <<disk, lastcmd, freestash, buffer, newpos>>

\* Mutant: the index of the next command is recorded.
UpdateLastCommandIndex_Next ==
  /\ phase = "update" /\ step = "index"
  /\ lastcmd' \in {pc + 1, lastcmd}
  /\ Goto(IF cmd.op = "stash" THEN "sync" ELSE "write")
  /\ UNCHANGED <<disk, stash, stash_map, freestash, buffer, newpos>>

\* UpdateLastCommandIndex, whose failure is only logged.
UpdateLastCommandIndex ==
  /\ phase = "update" /\ step = "index"
  /\ lastcmd' \in {pc, lastcmd}
  /\ Goto(IF cmd.op = "stash" THEN "sync" ELSE "write")
  /\ UNCHANGED <<disk, stash, stash_map, freestash, buffer, newpos>>

PerformCommandFree ==
  /\ Executing /\ cmd.op = "free"
  /\ stash_map' = [stash_map EXCEPT ![cmd.id] = {}]
  /\ stash' = [stash EXCEPT ![cmd.id] = "none"]
  /\ Goto("sync")
  /\ UNCHANGED <<disk, lastcmd, freestash, buffer, newpos>>

\* "zero", "erase" and "new" write without looking.
Fill(op) ==
  /\ Executing /\ cmd.op = op
  /\ Goto("write")
  /\ UNCHANGED <<disk, stash, lastcmd, stash_map, freestash, buffer, newpos>>

PerformCommandZero  == Fill("zero")
PerformCommandErase == Fill("erase")
PerformCommandNew   == Fill("new")

\* The data to be written is the right data: a move or patch of the source in the buffer,
\* or the section of the new-data stream that is meant for this command.
RightData ==
  /\ IsPatch(cmd) => buffer
  /\ cmd.op = "new" => newpos + 1 = Cardinality(NewUpTo(pc))

\* The write reaches its end.
WriteBlocks ==
  /\ phase = "update" /\ step = "write"
  /\ disk' = [b \in Blocks |-> IF b \in cmd.tgt
                                 THEN IF RightData THEN Target[b] ELSE Garbage
                                 ELSE disk[b]]
  /\ newpos' = IF cmd.op = "new" THEN newpos + 1 ELSE newpos
  /\ Goto("free")
  /\ UNCHANGED <<stash, lastcmd, stash_map, freestash, buffer>>

\* FreeStash of the copy made for this command.
FreeImplicitStash ==
  /\ phase = "update" /\ step = "free"
  /\ stash' = IF freestash # NoId THEN [stash EXCEPT ![freestash] = "none"] ELSE stash
  /\ freestash' = NoId
  /\ Goto("sync")
  /\ UNCHANGED <<disk, lastcmd, stash_map, buffer, newpos>>

\* Mutant: the writes of a command are not synced.
SyncCommand_NoFsync ==
  /\ phase = "update" /\ step = "sync"
  /\ synced' = synced
  /\ step' = "cmd" /\ pc' = pc + 1
  /\ UNCHANGED <<list, disk, files, phase, saved, stash_map, createdstash, freestash,
                 buffer, newpos, bounds>>

\* ota_fsync(params.fd) after every command.
SyncCommand ==
  /\ phase = "update" /\ step = "sync"
  /\ synced' = disk
  /\ step' = "cmd" /\ pc' = pc + 1
  /\ UNCHANGED <<list, disk, files, phase, saved, stash_map, createdstash, freestash,
                 buffer, newpos, bounds>>

\* pbiudone with rc = 0: DeleteStash, then DeleteLastCommandFile.
DeleteStash ==
  /\ phase = "update" /\ step = "cmd" /\ pc = Len(list) + 1
  /\ stash' = [i \in Ids |-> "none"] /\ dir' = FALSE
  /\ step' = "finish"
  /\ UNCHANGED <<list, disk, synced, lastcmd, phase, pc, saved, stash_map, createdstash,
                 freestash, buffer, newpos, bounds>>

DeleteLastCommandFile ==
  /\ phase = "update" /\ step = "finish"
  /\ lastcmd' = 0
  /\ phase' = "done"
  /\ UNCHANGED <<list, disk, synced, stash, dir, step, pc, saved, stash_map, createdstash,
                 freestash, buffer, newpos, bounds>>
Updater ==
  \/ BeginVerify \/ VerifySkip \/ VerifyPatch \/ VerifyPatchFails \/ VerifyStash \/ VerifyFree
  \/ VerifyEnds
  \/ BeginUpdate \/ SkipExecuted \/ PatchAlreadyDone \/ PatchFromSource \/ PatchStashSource
  \/ PatchFromStash \/ PatchFails \/ StashSkipped \/ StashSource \/ UpdateLastCommandIndex
  \/ PerformCommandFree \/ PerformCommandZero \/ PerformCommandErase \/ PerformCommandNew
  \/ WriteBlocks \/ FreeImplicitStash \/ SyncCommand \/ DeleteStash \/ DeleteLastCommandFile

(***************************************************************************)
(* The environment.  A crash, a reboot or an I/O error ends the run; a     *)
(* write that was under way leaves any mixture of old, new and torn        *)
(* blocks, and a power loss also any mixture of synced and unsynced ones.  *)
(* A verification that returns with an error removes the stash directory   *)
(* it made.                                                                *)
(***************************************************************************)
BeingWritten == IF phase = "update" /\ step = "write" THEN cmd.tgt ELSE {}
Unsynced     == IF PowerLoss THEN {b \in Blocks : disk[b] # synced[b]} ELSE {}

Interrupt ==
  /\ phase \in {"verify", "verified", "update"} /\ restarts < MaxRestarts
  /\ \E written \in SUBSET BeingWritten, lost \in SUBSET Unsynced :
       \E torn \in SUBSET (BeingWritten \cup Unsynced) :
         disk' = [b \in Blocks |-> IF b \in torn THEN Garbage
                                   ELSE IF b \in written THEN Target[b]
                                   ELSE IF b \in lost THEN synced[b]
                                   ELSE disk[b]]
  /\ synced' = disk'
  /\ \/ UNCHANGED <<stash, dir>>
     \/ /\ phase = "verify" /\ createdstash
        /\ stash' = [i \in Ids |-> "none"] /\ dir' = FALSE
  /\ phase' = "interrupted"
  /\ UNCHANGED <<list, lastcmd, step, pc, saved, stash_map, createdstash, freestash, buffer, newpos,
                 bounds>>

\* The updater is started again.
Again ==
  /\ phase' = "idle" /\ step' = "cmd" /\ pc' = 1 /\ saved' = 0
  /\ stash_map' = [i \in Ids |-> {}]
  /\ createdstash' = FALSE /\ freestash' = NoId /\ buffer' = FALSE /\ newpos' = 0
  /\ restarts' = restarts + 1
  /\ UNCHANGED <<disk, synced, files, rots>>

\* External: the user installs the package of an interrupted update again (nothing in this
\* recovery does it for him),
Retry == phase = "interrupted" /\ Again /\ UNCHANGED list

\* or that of a finished one, because something after it was interrupted,
Repeat == phase = "done" /\ restarts < MaxRestarts /\ Again /\ UNCHANGED list

\* or a full package instead.  Its transfer list belongs to the same partition, so
\* the stash directory and the last-command file are the ones left behind.
FullPackage ==
  /\ phase \in Abandoned /\ restarts < MaxRestarts
  /\ list' \in FullLists
  /\ Again

\* The package has other partitions, whose functions use the same last-command file.  A
\* verification that finds a command of its list undone, and an update that succeeds, delete
\* it; an update that is interrupted after this one is done leaves its own index in it.
OtherPartition ==
  /\ \/ phase \in {"idle", "verified", "done"} /\ lastcmd # 0 /\ lastcmd' = 0
     \/ phase = "done" /\ lastcmd' \in OtherIndices
  /\ UNCHANGED <<list, disk, synced, stash, dir, run, bounds>>

\* A stash file goes bad.
StashRots ==
  /\ rots < MaxRots
  /\ rots' = rots + 1
  /\ \E i \in Ids : stash[i] = "good" /\ stash' = [stash EXCEPT ![i] = "bad"]
  /\ UNCHANGED <<list, disk, synced, dir, lastcmd, run, restarts>>

Ended == phase \in {"done", "unresumable"} /\ UNCHANGED vars

Next == Updater \/ Interrupt \/ Retry \/ Repeat \/ FullPackage \/ OtherPartition
          \/ StashRots \/ Ended

(***************************************************************************)
(* A started updater keeps running.  That an interrupted update is         *)
(* installed again is an assumption on the user, who has no system to boot *)
(* while it has not been.  Nothing forces a Repeat.                        *)
(***************************************************************************)
Spec == Init /\ [][Next]_vars /\ WF_vars(Updater) /\ WF_vars(Retry)

----------------------------------------------------------------------------
(***************************************************************************)
(* Assumptions on the transfer list beyond those the comments state.       *)
(***************************************************************************)

\* A stash id is not written again after it has been freed.
NoReuse(l) ==
  \A f, j \in 1..Len(l) :
    (l[f].op = "free" /\ f < j) =>
      ~(l[j].id = l[f].id /\ (l[j].op = "stash" \/ (IsPatch(l[j]) /\ Overlap(l[j]))))

\* Does the command record its index in the last-command file?
SavesIndex(c) == c.op = "stash" \/ (IsPatch(c) /\ Overlap(c))

\* No command that records its index comes between two `new` commands.
NewTogether(l) ==
  \A i, k, j \in 1..Len(l) :
    (i < k /\ k < j /\ l[i].op = "new" /\ l[j].op = "new") => ~SavesIndex(l[k])

\* Nor does an index another partition may leave: every run skips all of them or none.
Unsplit(l) ==
  /\ NewTogether(l)
  /\ \A n \in OtherIndices, i, j \in 1..Len(l) :
       (i <= n /\ n < j) => ~(l[i].op = "new" /\ l[j].op = "new")

(***************************************************************************)
(* Properties                                                              *)
(***************************************************************************)

\* block_image_update returns "t" only when the partition holds the target image, whatever
\* interruptions, lost writes and bad stash files came before.
UpdatedCorrectly == phase = "done" => disk = Target

\* The commands an update skips because of the last-command file have all been completed:
\* their targets hold the target contents.
SkipIsSafe == phase = "update" => \A i \in 1..Len(list) : i <= saved => Done(list[i])

\* "stash the source blocks so we can resume from possible write errors": after an
\* interruption at any point every move and diff is either done or can still get its
\* source data, so the update is never declared unresumable.
NeverUnresumable == phase # "unresumable"

\* What makes that so, on the persistent state alone: as long as a command is not done,
\* each part of its source is intact on the partition or safe in the stash.
Recoverable ==
  phase # "unresumable" =>
  \A j \in 1..Len(list) : (IsPatch(list[j]) /\ ~Done(list[j])) =>
    /\ Clean(list[j].src) \/ (Overlap(list[j]) /\ stash[list[j].id] = "good")
    /\ \A s \in 1..(j-1) :
         (list[s].op = "stash" /\ list[s].id \in list[j].use) =>
            Clean(list[s].src) \/ stash[list[s].id] = "good"

\* "verified partition contents; update may be resumed": an update that follows a
\* successful verification does not run into missing source data, unless a stash file has
\* gone bad.
VerifiedIsResumable == [][(phase = "update" /\ rots = 0) => phase' # "unresumable"]_vars

\* With finitely many interruptions the update is completed.
Completes == <>[](phase = "done")
=============================================================================
