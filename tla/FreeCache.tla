------------------------------ MODULE FreeCache ------------------------------
(***************************************************************************)
(* MakeFreeSpaceOnCache of applypatch/freecache.cpp, which deletes files   *)
(* of /cache until enough space is free.                                   *)
(*                                                                         *)
(* Files are numbered in the order of their paths, the order in which a    *)
(* std::set is traversed.  Other processes open and close them meanwhile,  *)
(* also while /proc is read one process after the other; the space of a    *)
(* deleted file is free once nobody has it open.                           *)
(***************************************************************************)
EXTENDS Integers, FiniteSets, FiniteSetsExt, Functions

CONSTANTS
  Files,        \* the regular files of the deletable directories
  TempSource,   \* cache_temp_source, one of them
  Processes,    \* the other processes
  MaxSize,      \* bound on the size of a file
  MaxFree,      \* bound on the free space
  SizeMax       \* the largest size_t

ASSUME FilesAssumption == Files \subseteq Nat /\ IsFiniteSet(Files) /\ TempSource \in Files
ASSUME LimitsAssumption ==
  /\ MaxSize \in Nat /\ MaxFree \in Nat
  /\ SizeMax \in Nat /\ SizeMax > MaxFree + MaxSize * Cardinality(Files)

VARIABLES
  size,          \* the size of each file
  present,       \* the files that exist
  open,          \* the files each process has open
  held,          \* those it has had open since the call (history)
  base,          \* space not taken by any of the files
  needed,        \* bytes_needed
  free_now,      \* what the last statfs said
  files,         \* the files the loop has still to delete
  unread,        \* the processes EliminateOpenFiles has still to look at
  pc, result

disk  == <<size, present, base>>
users == <<open, held>>
vars  == <<disk, users, needed, free_now, files, unread, pc, result>>

Space(S) == SumFunctionOnSet(size, S)

InUse == UNION {open[q] : q \in Processes}

\* Deleted files that are still open keep their space.
Free == base + Space(Files \ (present \cup InUse))

TypeOK ==
  /\ size \in [Files -> 0..MaxSize]
  /\ present \subseteq Files /\ files \subseteq Files /\ unread \subseteq Processes
  /\ open \in [Processes -> SUBSET Files] /\ held \in [Processes -> SUBSET Files]
  /\ base \in 0..MaxFree /\ needed \in Nat
  /\ free_now \in 0..SizeMax
  /\ pc \in {"call", "find", "scan", "unlink", "check", "returned"} /\ result \in {0, -1}

Init ==
  /\ size \in [Files -> 0..MaxSize]
  /\ present = Files
  /\ open \in [Processes -> SUBSET Files] /\ held = open
  /\ base \in 0..MaxFree
  /\ needed \in 0..(MaxFree + MaxSize * Cardinality(Files))
  /\ free_now = 0 /\ files = {} /\ unread = {} /\ pc = "call" /\ result = 0

\* Mutant: what is left of the free space once the need is met.
FreeSpaceForFile_Rest == free_now' = Free - needed

\* FreeSpaceForFile: an error is reported as -1, converted to size_t.
FreeSpaceForFile ==
  \/ free_now' = Free
  \/ free_now' = SizeMax

Return(r) == pc' = "returned" /\ result' = r

Call ==
  /\ pc = "call"
  /\ FreeSpaceForFile
  /\ IF free_now' >= needed THEN Return(0) ELSE pc' = "find" /\ UNCHANGED result
  /\ UNCHANGED <<disk, users, needed, files, unread>>

\* Mutant: the saved source counts as expendable.
Expendable_All == present

\* The regular files but the saved source.
Expendable == present \ {TempSource}

\* The directories are read, less what opendir or stat fails for; then /proc is opened, or
\* cannot be.
FindExpendableFiles ==
  /\ pc = "find"
  /\ \/ files' \in SUBSET Expendable /\ unread' = Processes /\ pc' = "scan" /\ UNCHANGED result
     \/ files' = {} /\ UNCHANGED unread /\ Return(-1)
  /\ UNCHANGED <<disk, users, needed, free_now>>

\* The descriptors of one process, in the order /proc lists them.  (Those of a process that
\* has ended cannot be read; it has none.)
EliminateOpenFiles ==
  /\ pc = "scan"
  /\ \E q \in unread : unread' = unread \ {q} /\ files' = files \ open[q]
  /\ UNCHANGED <<disk, users, needed, free_now, pc, result>>

\* Mutant: the first process with a file of /cache ends the walk.
ScanEnds_Early ==
  /\ pc = "scan" /\ unread # Processes
  /\ IF files = {} THEN Return(-1) ELSE pc' = "unlink" /\ UNCHANGED result
  /\ UNCHANGED <<disk, users, needed, free_now, files, unread>>

ScanEnds ==
  /\ pc = "scan" /\ unread = {}
  /\ IF files = {} THEN Return(-1) ELSE pc' = "unlink" /\ UNCHANGED result
  /\ UNCHANGED <<disk, users, needed, free_now, files, unread>>

\* The result of unlink is not looked at; it may have failed.
Unlink ==
  /\ pc = "unlink"
  /\ LET f == Min(files) IN present' \in {present, present \ {f}} /\ files' = files \ {f}
  /\ pc' = "check"
  /\ UNCHANGED <<size, base, users, needed, free_now, unread, result>>

\* The loop ends after the last file, or when less than the space needed is free.
CheckSpace ==
  /\ pc = "check"
  /\ FreeSpaceForFile
  /\ IF free_now' < needed \/ files = {}
       THEN Return(IF free_now' >= needed THEN 0 ELSE -1)
       ELSE pc' = "unlink" /\ UNCHANGED result
  /\ UNCHANGED <<disk, users, needed, files, unread>>

\* A process opens a file that exists, or inherits or is passed a descriptor; or closes one.
Elsewhere ==
  /\ pc # "returned"
  /\ \E q \in Processes, f \in Files :
       \/ /\ f \in (present \cup InUse) \ open[q]
          /\ open' = [open EXCEPT ![q] = @ \cup {f}] /\ UNCHANGED held
       \/ /\ f \in open[q]
          /\ open' = [open EXCEPT ![q] = @ \ {f}] /\ held' = [held EXCEPT ![q] = @ \ {f}]
  /\ UNCHANGED <<disk, needed, free_now, files, unread, pc, result>>

Returned == pc = "returned" /\ UNCHANGED vars

Next ==
  \/ Call \/ FindExpendableFiles \/ EliminateOpenFiles \/ ScanEnds \/ Unlink \/ CheckSpace
  \/ Elsewhere \/ Returned

Spec == Init /\ [][Next]_vars

----------------------------------------------------------------------------
\* "We're allowed to delete unopened regular files": a file that one process has had open
\* since the call is not deleted, whatever others open, close and hand over while /proc is
\* read and between that and the deletions.
HeldFilesKept == \A q \in Processes : held[q] \subseteq present

\* "We can't delete cache_temp_source; if it's there we might have restarted during
\* installation and could be depending on it to be there."
TempSourceKept == TempSource \in present

\* When 0 is returned the space is there.  It is not if statfs fails: the error -1, as a
\* size_t, is more than any need.
EnoughSpace == (pc = "returned" /\ result = 0) => Free >= needed

\* "unable to make %zu bytes available on /cache" is said only when every file that may be
\* deleted has been deleted.
FailureIsReal == (pc = "returned" /\ result = -1) => files = {}
=============================================================================
