------------------------------ MODULE Nandroid ------------------------------
(***************************************************************************)
(* Backup and restore: the action thread (GUIAction::nandroid, Run_Backup, *)
(* Run_Restore), the GUI thread, which runs a cancel itself                *)
(* (Cancel_Backup), the twrpTar child with its archive threads and their   *)
(* filters (pigz, openaes).  The two threads of the recovery share         *)
(* stop_backup and tar_fork_pid; only the first is atomic.                 *)
(***************************************************************************)
EXTENDS Integers, Sequences, FiniteSets

CONSTANTS
  Part,         \* what is known of each partition, see PartAssumption
  Lists,        \* the selections of partitions to back up
  RestoreLists, \* the selections of partitions to restore
  Names,        \* kinds of backup name: "typed", "auto", "date"
  Safestrap,    \* BUILD_SAFESTRAP: the folder's name starts with the slot
  ImageBlocks,  \* size of an image in RW_Block_Size
  MaxSessions,  \* bound on backups and restores
  MaxMishaps    \* bound on failures of I/O, filters and storage

Partitions == DOMAIN Part
Threads == UNION {DOMAIN Part[p].archives : p \in Partitions}

\* A partition is saved as files or as an image (one file); in one archive, or
\* split by thread (0 to 8) and by size, a thread making at most 100; through
\* filters or not; thread 0 alone first (userdata encryption) or beside the others; a
\* sub-partition follows its parent.
ASSUME PartAssumption ==
  /\ \A p \in Partitions :
       /\ Part[p].files \in BOOLEAN /\ Part[p].split \in BOOLEAN
       /\ Part[p].filter \in BOOLEAN /\ Part[p].userdata \in BOOLEAN
       /\ Part[p].sub \in BOOLEAN
       /\ 0 \in DOMAIN Part[p].archives /\ DOMAIN Part[p].archives \subseteq 0..8
       /\ \A t \in DOMAIN Part[p].archives : Part[p].archives[t] \in 1..100
       /\ ~Part[p].files => DOMAIN Part[p].archives = {0} /\ Part[p].archives[0] = 1
  /\ Lists \subseteq Seq(Partitions) /\ RestoreLists \subseteq Seq(Partitions) \ {<<>>}
  /\ Names \subseteq {"typed", "auto", "date"}
  /\ Safestrap \in BOOLEAN /\ ImageBlocks \in Nat \ {0} /\ MaxSessions \in Nat /\ MaxMishaps \in Nat

Archives == {a \in Partitions \X Threads \X (0..99) :
               a[2] \in DOMAIN Part[a[1]].archives /\ a[3] < Part[a[1]].archives[a[2]]}

VARIABLES
  apc, todo, blk, ret, report,       \* the action thread
  cpc, own, hit,                     \* a cancel: its path is the folder; its signal met the child
  stop_backup, tar_fork_pid,
  name,                              \* TW_BACKUP_NAME
  child, thr, cnt, filter,           \* the twrpTar process
  folder, file, digest,              \* the backup folder
  src, signed, checked, dev,         \* a restore: its archives and digests, those were checked; the partitions
  sessions, mishaps

action == <<apc, todo, blk, ret, report>>
cancel == <<cpc, own, hit>>
shared == <<stop_backup, tar_fork_pid>>
tar    == <<child, thr, cnt, filter>>
store  == <<folder, file, digest>>
target == <<src, signed, checked, dev>>
bounds == <<sessions, mishaps>>
vars   == <<action, cancel, shared, name, tar, store, target, bounds>>

FileState == {"none", "part", "full", "bad"}
BackupPc  == {"loop", "mount", "forked", "progress", "digest", "open", "image", "error", "verdict", "named"}
RestorePc == {"check", "next", "extract", "write"}

\* The recovery has ended: in the child's code (Forked), or killed in a digest.
Ended == apc \in {"exited", "crashed"}

Empty == [a \in Archives |-> "none"]

TypeOK ==
  /\ apc \in {"idle", "begin", "exited", "crashed"} \cup BackupPc \cup RestorePc
  /\ todo \in Seq(Partitions) /\ blk \in 0..(ImageBlocks - 1) /\ ret \in BOOLEAN
  /\ report \in {"none", "success", "failed", "cancelled", "restored", "restore failed"}
  /\ cpc \in {"idle", "stop", "read", "kill", "poll", "remove", "rmdir", "reset"}
  /\ own \in BOOLEAN /\ hit \in BOOLEAN
  /\ stop_backup \in {0, 1} /\ tar_fork_pid \in {"zero", "child", "minus one"}
  /\ name \in {"typed", "auto", "date"}
  /\ child \in {"none", "run", "ok", "failed", "killed"}
  /\ thr \in [Threads -> {"start", "add", "wait", "done", "failed"}]
  /\ cnt \in [Threads -> 0..99] /\ filter \in [Threads -> {"none", "run", "ok", "bad"}]
  /\ folder \in BOOLEAN /\ file \in [Archives -> FileState] /\ digest \subseteq Archives
  /\ src \in [Archives -> FileState] /\ signed \subseteq Archives /\ checked \in BOOLEAN
  /\ dev \in [Partitions -> {"own", "wiped", "partial", "bad", "restored"}]
  /\ sessions \in 0..MaxSessions /\ mishaps \in 0..MaxMishaps

Init ==
  /\ apc = "idle" /\ todo = <<>> /\ blk = 0 /\ ret = FALSE /\ report = "none"
  /\ cpc = "idle" /\ own = FALSE /\ hit = FALSE
  /\ stop_backup = 0 /\ tar_fork_pid = "zero" /\ name = "auto"
  /\ child = "none" /\ thr = [t \in Threads |-> "done"] /\ cnt = [t \in Threads |-> 0]
  /\ filter = [t \in Threads |-> "none"]
  /\ folder = FALSE /\ file = Empty /\ digest = {}
  /\ src = Empty /\ signed = {} /\ checked = FALSE /\ dev = [p \in Partitions |-> "own"]
  /\ sessions = 0 /\ mishaps = 0

part == Part[Head(todo)]
Mishap == mishaps < MaxMishaps /\ mishaps' = mishaps + 1
Goto(pc) == apc' = pc /\ UNCHANGED <<todo, blk, ret, report>>

\* What Make_Digest and Check_Digest look at: the one archive, or the numbers
\* 000, 001, ... up to the first that is missing.  Thread 1 starts at 100.
Numbered(p, f) ==
  {a \in Archives : a[1] = p /\ a[2] = 0 /\ \A j \in 0..a[3] : f[<<p, 0, j>>] # "none"}

-----------------------------------------------------------------------------
(* The action thread: a backup                                             *)

\* The user starts a backup; ActionThread drops it while another runs.  A cancel
\* may still be removing the last folder, which takes time; what it does before
\* is over when the user acts again.
Settled == cpc \in {"idle", "remove", "rmdir", "reset"}
StartBackup(n) ==
  /\ apc = "idle" /\ Settled /\ sessions < MaxSessions /\ sessions' = sessions + 1
  /\ name' = n /\ Goto("begin")
  /\ UNCHANGED <<cancel, shared, tar, store, target, mishaps>>

RunBackup ==
  /\ apc = "begin" /\ stop_backup' = 0
  /\ folder' = TRUE /\ file' = Empty /\ digest' = {}
  /\ name' = IF name = "auto" THEN "typed" ELSE name
  /\ todo' \in Lists /\ apc' = "loop"
  /\ own' = FALSE   \* a cancel still at work removes the folder before this one
  /\ UNCHANGED <<blk, ret, report, cpc, hit, tar_fork_pid, tar, target, bounds>>

\* No storage, nothing selected, no space, no folder.
RunBackupFails ==
  /\ apc = "begin" /\ stop_backup' = 0 /\ Mishap
  /\ ret' = FALSE /\ apc' = "verdict"
  /\ UNCHANGED <<todo, blk, report, cancel, tar_fork_pid, name, tar, store, target, sessions>>

\* The loop over the list.  stop_backup is read before a partition, not before
\* a sub-partition, and SetPerformanceMode then sleeps for half a second.
NextPartition ==
  /\ apc = "loop" /\ todo # <<>> /\ (part.sub \/ stop_backup = 0)
  /\ Goto(IF part.files THEN "mount" ELSE "open")
  /\ UNCHANGED <<cancel, shared, name, tar, store, target, bounds>>

\* It returns -1, which is not false.
StopSeen ==
  /\ apc = "loop" /\ todo # <<>> /\ ~part.sub /\ stop_backup # 0
  /\ ret' = TRUE /\ apc' = "verdict"
  /\ UNCHANGED <<todo, blk, report, cancel, shared, name, tar, store, target, bounds>>

AllSaved ==
  /\ apc = "loop" /\ todo = <<>>
  /\ ret' = TRUE /\ apc' = "verdict"
  /\ UNCHANGED <<todo, blk, report, cancel, shared, name, tar, store, target, bounds>>

\* createTarFork: the fork stores its result in the shared tar_fork_pid.
Fork ==
  /\ apc = "mount" /\ Goto("forked")
  /\ tar_fork_pid' = "child" /\ child' = "run"
  /\ thr' = [t \in Threads |-> IF t \in DOMAIN part.archives THEN "start" ELSE "done"]
  /\ cnt' = [t \in Threads |-> 0] /\ filter' = [t \in Threads |-> "none"]
  /\ UNCHANGED <<cancel, stop_backup, name, store, target, bounds>>

MountFails ==
  /\ apc = "mount" /\ Mishap /\ Goto("error")
  /\ UNCHANGED <<cancel, shared, name, tar, store, target, sessions>>

ForkFails ==
  /\ apc = "mount" /\ Mishap /\ Goto("error")
  /\ tar_fork_pid' = "minus one"
  /\ UNCHANGED <<cancel, stop_backup, name, tar, store, target, sessions>>

\* The parent reads tar_fork_pid again to learn that it is the parent.  If it
\* finds 0 it goes on in the child's code, which ends in _exit.
Forked == apc' = IF tar_fork_pid = "zero" THEN "exited" ELSE "progress"
ForkReturns ==
  /\ apc = "forked" /\ Forked
  /\ UNCHANGED <<todo, blk, ret, report, cancel, shared, name, tar, store, target, bounds>>

\* Mutant: the pipe is closed on exec, so it ends with the tar process.
PipeEnds_CloseOnExec == TRUE

\* The progress pipe is inherited by the filters: it ends once they have.
PipeEnds == \A t \in Threads : filter[t] # "run"
Reap ==
  /\ apc = "progress" /\ child \in {"ok", "failed", "killed"} /\ PipeEnds
  /\ child' = "none" /\ Goto(IF child = "ok" THEN "digest" ELSE "error")
  /\ UNCHANGED <<cancel, shared, name, thr, cnt, filter, store, target, bounds>>

Digest ==
  /\ apc = "digest" /\ folder /\ Numbered(Head(todo), file) # {}
  /\ digest' = digest \cup Numbered(Head(todo), file)
  /\ todo' = Tail(todo) /\ apc' = "loop"
  /\ UNCHANGED <<blk, ret, report, cancel, shared, name, tar, folder, file, target, bounds>>

\* An archive or its digest file cannot be opened; or a read fails, whose -1
\* stream_file_to_digest takes for a length: it runs beyond its buffer and the
\* recovery dies.
DigestFails ==
  /\ apc = "digest"
  /\ IF Numbered(Head(todo), file) = {}
     THEN Goto("error") /\ UNCHANGED mishaps
     ELSE Mishap /\ (Goto("error") \/ Goto("crashed"))
  /\ UNCHANGED <<cancel, shared, name, tar, store, target, sessions>>

\* Raw_Read_Write
OpenImage ==
  /\ apc = "open" /\ folder /\ blk' = 0 /\ apc' = "image"
  /\ file' = [file EXCEPT ![<<Head(todo), 0, 0>>] = "part"]
  /\ UNCHANGED <<todo, ret, report, cancel, shared, name, tar, folder, digest, target, bounds>>

ImageFails ==
  /\ apc \in {"open", "image"} /\ Goto("error")
  /\ IF apc = "open" /\ ~folder THEN UNCHANGED mishaps ELSE Mishap
  /\ UNCHANGED <<cancel, shared, name, tar, store, target, sessions>>

\* Mutant: one block too many.
SaveBlock_Off ==
  /\ apc = "image" /\ blk' = blk + 1
  /\ apc' = IF stop_backup # 0 THEN "error" ELSE IF blk = ImageBlocks THEN "digest" ELSE "image"
  /\ UNCHANGED <<todo, ret, report, cancel, shared, name, tar, store, target, bounds>>

SaveBlock ==
  /\ apc = "image"
  /\ LET a == <<Head(todo), 0, 0>>
         last == blk + 1 = ImageBlocks
     IN /\ file' = IF last /\ file[a] = "part" THEN [file EXCEPT ![a] = "full"] ELSE file
        /\ blk' = IF last THEN 0 ELSE blk + 1
        /\ apc' = IF stop_backup # 0 THEN "error" ELSE IF last THEN "digest" ELSE "image"
  /\ UNCHANGED <<todo, ret, report, cancel, shared, name, tar, folder, digest, target, bounds>>

\* backup_error: Clean_Backup_Folder removes the extensions win, md5, sha2 and
\* info, so not the split archives (win000, ...).
Cleaned == [a \in Archives |-> IF Part[a[1]].split THEN file[a] ELSE "none"]
BackupError ==
  /\ apc = "error"
  /\ file' = Cleaned /\ digest' = {}
  /\ ret' = FALSE /\ apc' = "verdict"
  /\ UNCHANGED <<todo, blk, report, cancel, shared, name, tar, folder, target, bounds>>

Verdict ==
  /\ apc = "verdict" /\ apc' = "named"
  /\ report' = IF stop_backup # 0 THEN "cancelled" ELSE IF ret THEN "success" ELSE "failed"
  /\ UNCHANGED <<todo, blk, ret, cancel, shared, name, tar, store, target, bounds>>

ResetName ==
  /\ apc = "named" /\ name' = "auto" /\ Goto("idle")
  /\ UNCHANGED <<cancel, shared, tar, store, target, bounds>>

BackupStep ==
  \/ RunBackup \/ RunBackupFails \/ NextPartition \/ StopSeen \/ AllSaved \/ Fork \/ MountFails
  \/ ForkFails \/ ForkReturns \/ Reap \/ Digest \/ DigestFails \/ OpenImage \/ ImageFails
  \/ SaveBlock \/ BackupError \/ Verdict \/ ResetName

-----------------------------------------------------------------------------
(* A cancel, in the GUI thread: Cancel_Backup                              *)

\* The button is on the backup page; a press before Run_Backup clears
\* stop_backup is not considered.
PressCancel ==
  /\ cpc = "idle" /\ apc \in BackupPc /\ cpc' = "stop"
  /\ UNCHANGED <<action, own, hit, shared, name, tar, store, target, bounds>>

CancelStop ==
  /\ cpc = "stop" /\ stop_backup' = 1 /\ cpc' = "read"
  /\ UNCHANGED <<action, own, hit, tar_fork_pid, name, tar, store, target, bounds>>

\* The path is made from TW_BACKUP_NAME: not the folder's if the name was
\* "(Current Date)", nor in a Safestrap build.
CancelRead ==
  /\ cpc = "read"
  /\ IF tar_fork_pid = "zero"
     THEN cpc' = "idle" /\ UNCHANGED own
     ELSE cpc' = "kill" /\ own' = (~Safestrap /\ name = "typed")
  /\ UNCHANGED <<action, hit, shared, name, tar, store, target, bounds>>

CancelKill ==
  /\ cpc = "kill" /\ cpc' = "poll"
  /\ IF child = "run"
     THEN child' = "killed" /\ hit' = TRUE
     ELSE UNCHANGED <<child, hit>>
  /\ UNCHANGED <<action, own, shared, name, thr, cnt, filter, store, target, bounds>>

\* Mutant: waits for the pid to be cleared by the action thread.
Gone_Zero == tar_fork_pid = "zero"

\* kill(pid, 0) succeeds until the action thread has reaped the child; with
\* pid -1 for as long as there is any process.
Gone == child = "none" /\ tar_fork_pid # "minus one"
CancelPoll ==
  /\ cpc = "poll" /\ Gone /\ cpc' = "remove"
  /\ UNCHANGED <<action, own, hit, shared, name, tar, store, target, bounds>>

RemoveFiles ==
  /\ cpc = "remove" /\ cpc' = "rmdir"
  /\ IF own THEN file' = Empty /\ digest' = {} ELSE UNCHANGED <<file, digest>>
  /\ UNCHANGED <<action, own, hit, shared, name, tar, folder, target, bounds>>

RemoveFolder ==
  /\ cpc = "rmdir" /\ cpc' = "reset"
  /\ folder' = (folder /\ ~(own /\ file = Empty))
  /\ UNCHANGED <<action, own, hit, shared, name, tar, file, digest, target, bounds>>

CancelReset ==
  /\ cpc = "reset" /\ cpc' = "idle" /\ hit' = FALSE /\ tar_fork_pid' = "zero"
  /\ UNCHANGED <<action, own, stop_backup, name, tar, store, target, bounds>>

CancelStep ==
  /\ ~Ended
  /\ \/ CancelStop \/ CancelRead \/ CancelKill \/ CancelPoll \/ RemoveFiles \/ RemoveFolder
     \/ CancelReset

-----------------------------------------------------------------------------
(* The twrpTar child: tarList of every archive thread, and the filters     *)

archive(t) == <<Head(todo), t, cnt[t]>>
Set(f, t, v) == [f EXCEPT ![t] = v]

\* Thread 0 of a userdata encryption runs before the others are started.
Started(t) == t = 0 \/ ~part.userdata \/ thr[0] = "done"

CreateTar(t) ==
  /\ child = "run" /\ thr[t] = "start" /\ Started(t) /\ folder
  /\ file' = [file EXCEPT ![archive(t)] = "part"]
  /\ filter' = Set(filter, t, IF part.filter THEN "run" ELSE "none")
  /\ thr' = Set(thr, t, "add")
  /\ UNCHANGED <<action, cancel, shared, name, child, cnt, folder, digest, target, bounds>>

CreateTarFails(t) ==
  /\ child = "run" /\ thr[t] = "start" /\ Started(t)
  /\ IF folder THEN Mishap ELSE UNCHANGED mishaps
  /\ thr' = Set(thr, t, "failed")
  /\ UNCHANGED <<action, cancel, shared, name, child, cnt, filter, store, target, sessions>>

\* All files of the thread are written and closeTar closes the pipe.
AddFiles(t) ==
  /\ child = "run" /\ thr[t] = "add" /\ filter[t] # "bad"
  /\ thr' = Set(thr, t, "wait")
  /\ UNCHANGED <<action, cancel, shared, name, child, cnt, filter, store, target, bounds>>

\* A file cannot be read, or the pipe has no reader (SIGPIPE is ignored).
AddFilesFails(t) ==
  /\ child = "run" /\ thr[t] = "add"
  /\ IF filter[t] = "bad" THEN UNCHANGED mishaps ELSE Mishap
  /\ thr' = Set(thr, t, "failed")
  /\ UNCHANGED <<action, cancel, shared, name, child, cnt, filter, store, target, sessions>>

\* External: pigz and openaes end when their input does, or fail.
FilterEnds(t) ==
  /\ filter[t] = "run" /\ (thr[t] = "wait" \/ child # "run")
  /\ filter' = Set(filter, t, "ok")
  /\ file' = IF thr[t] = "wait" /\ file[archive(t)] = "part"
             THEN [file EXCEPT ![archive(t)] = "full"] ELSE file
  /\ UNCHANGED <<action, cancel, shared, name, child, thr, cnt, folder, digest, target, bounds>>

FilterFails(t) ==
  /\ filter[t] = "run" /\ Mishap /\ filter' = Set(filter, t, "bad")
  /\ UNCHANGED <<action, cancel, shared, name, child, thr, cnt, store, target, sessions>>

\* Mutant: the filters' status is not looked at.
ClosedWell_NoStatus(t) == file[archive(t)] # "none"

\* The rest of closeTar: the filters' status, then the size of the archive.
ClosedWell(t) == filter[t] # "bad" /\ file[archive(t)] # "none"
CloseTar(t) ==
  /\ child = "run" /\ thr[t] = "wait" /\ filter[t] # "run"
  /\ LET more == cnt[t] + 1 < part.archives[t]
     IN /\ thr' = Set(thr, t, IF ~ClosedWell(t) THEN "failed" ELSE IF more THEN "start" ELSE "done")
        /\ cnt' = IF ClosedWell(t) /\ more THEN Set(cnt, t, cnt[t] + 1) ELSE cnt
  /\ file' = IF ClosedWell(t) /\ ~part.filter THEN [file EXCEPT ![archive(t)] = "full"] ELSE file
  /\ UNCHANGED <<action, cancel, shared, name, child, filter, folder, digest, target, bounds>>

\* Mutant: waits for every thread to succeed.
ThreadsEnd_Well(r) == r = "ok" /\ \A t \in Threads : thr[t] = "done"

\* The main thread joins the others in order and exits at the first error.
ThreadsEnd(r) ==
  \/ r = "ok" /\ \A t \in Threads : thr[t] = "done"
  \/ r = "failed" /\ \E t \in Threads : thr[t] = "failed" /\ \A u \in Threads : u < t => thr[u] = "done"
ChildExits ==
  /\ child = "run" /\ \E r \in {"ok", "failed"} : ThreadsEnd(r) /\ child' = r
  /\ UNCHANGED <<action, cancel, shared, name, thr, cnt, filter, store, target, bounds>>

ThreadStep(t) ==
  \/ CreateTar(t) \/ CreateTarFails(t) \/ AddFiles(t) \/ AddFilesFails(t) \/ CloseTar(t)

-----------------------------------------------------------------------------
(* The action thread: a restore                                            *)

Damage ==
  /\ apc = "idle" /\ Mishap
  /\ \E a \in Archives : file[a] = "full" /\ file' = [file EXCEPT ![a] = "bad"]
  /\ UNCHANGED <<action, cancel, shared, name, tar, folder, digest, target, sessions>>

\* Set_Restore_Files offers a partition when its archive, or number 000, is
\* there; sub-partitions come with their parent.  The user selects among them.
Offered(f) == {p \in Partitions : Part[p].sub \/ f[<<p, 0, 0>>] # "none"}

\* A restore of the last backup, or of an older one that is whole.
StartRestore(f, s, verify) ==
  /\ apc = "idle" /\ Settled /\ sessions < MaxSessions /\ sessions' = sessions + 1
  /\ src' = f /\ signed' = s /\ checked' = FALSE /\ dev' = [p \in Partitions |-> "own"]
  /\ todo' \in {l \in RestoreLists : \A i \in DOMAIN l : l[i] \in Offered(f)}
  /\ apc' = IF verify THEN "check" ELSE "next"
  /\ UNCHANGED <<blk, ret, report, cancel, shared, name, tar, store, mishaps>>

RestoreLast == folder /\ \E verify \in BOOLEAN : StartRestore(file, digest, verify)
Whole == [a \in Archives |-> "full"]
RestoreOlder ==
  \E verify \in BOOLEAN : StartRestore(Whole, UNION {Numbered(p, Whole) : p \in Partitions}, verify)

RestoreEnds(r) == apc' = "idle" /\ report' = r /\ UNCHANGED <<todo, ret>>

\* Mutant: only the first partition's digest is checked.
Checked_First == Numbered(todo[1], src)

\* For a sub-partition the digest of the parent's archive is checked again.
Checked == UNION {Numbered(p, src) : p \in {todo[i] : i \in DOMAIN todo} \cap {q \in Partitions : ~Part[q].sub}}
CheckDigests ==
  /\ apc = "check"
  /\ IF \A a \in Checked : a \in signed /\ src[a] = "full"
     THEN Goto("next") /\ checked' = TRUE
     ELSE RestoreEnds("restore failed") /\ UNCHANGED <<blk, checked>>
  /\ UNCHANGED <<cancel, shared, name, tar, store, src, signed, dev, bounds>>

\* Opening or reading fails, as in DigestFails.
CheckFails ==
  /\ apc = "check" /\ Mishap
  /\ \/ RestoreEnds("restore failed") /\ UNCHANGED blk
     \/ Goto("crashed")
  /\ UNCHANGED <<cancel, shared, name, tar, store, target, sessions>>

RestoreNext ==
  /\ apc = "next" /\ todo # <<>> /\ blk' = 0
  /\ apc' = IF part.files THEN "extract" ELSE "write"
  /\ dev' = IF part.files THEN [dev EXCEPT ![Head(todo)] = "wiped"] ELSE dev
  /\ UNCHANGED <<todo, ret, report, cancel, shared, name, tar, store, src, signed, checked, bounds>>

AllRestored ==
  /\ apc = "next" /\ todo = <<>> /\ RestoreEnds("restored")
  /\ UNCHANGED <<blk, cancel, shared, name, tar, store, target, bounds>>

\* extractTarFork: the threads whose first archive is there, up to the first
\* that is not; of each, the archives up to the first that is not.
Found(p) ==
  {a \in Archives :
     /\ a[1] = p /\ \A j \in 0..a[3] : src[<<p, a[2], j>>] # "none"
     /\ \A t \in DOMAIN Part[p].archives : t <= a[2] => src[<<p, t, 0>>] # "none"}
Contents(p) == IF \A a \in Archives : a[1] = p => a \in Found(p) /\ src[a] = "full"
               THEN "restored" ELSE "bad"

\* libtar takes an archive that ends early for one that is at its end.
Extract ==
  /\ apc = "extract" /\ Found(Head(todo)) # {}
  /\ dev' = [dev EXCEPT ![Head(todo)] = Contents(Head(todo))]
  /\ todo' = Tail(todo) /\ apc' = "next"
  /\ UNCHANGED <<blk, ret, report, cancel, shared, name, tar, store, src, signed, checked, bounds>>

\* Wiping or extracting fails, or an archive is missing or unreadable.
ExtractFails ==
  /\ apc = "extract" /\ RestoreEnds("restore failed")
  /\ dev' = [dev EXCEPT ![Head(todo)] = "partial"]
  /\ IF Found(Head(todo)) # {} /\ \A a \in Found(Head(todo)) : src[a] = "full"
     THEN Mishap ELSE UNCHANGED mishaps
  /\ UNCHANGED <<blk, cancel, shared, name, tar, store, src, signed, checked, sessions>>

\* Raw_Read_Write again: it looks at stop_backup in a restore too.
Stops == stop_backup # 0
WriteBlock ==
  /\ apc = "write" /\ src[<<Head(todo), 0, 0>>] # "none"
  /\ LET last == blk + 1 = ImageBlocks
     IN IF Stops
        THEN /\ dev' = [dev EXCEPT ![Head(todo)] = "partial"]
             /\ RestoreEnds("restore failed") /\ UNCHANGED blk
        ELSE /\ blk' = IF last THEN 0 ELSE blk + 1
             /\ apc' = IF last THEN "next" ELSE "write"
             /\ todo' = IF last THEN Tail(todo) ELSE todo
             /\ dev' = [dev EXCEPT ![Head(todo)] = IF last THEN Contents(Head(todo)) ELSE "partial"]
             /\ UNCHANGED <<ret, report>>
  /\ UNCHANGED <<cancel, shared, name, tar, store, src, signed, checked, bounds>>

WriteFails ==
  /\ apc = "write" /\ RestoreEnds("restore failed")
  /\ IF src[<<Head(todo), 0, 0>>] = "none" THEN UNCHANGED mishaps ELSE Mishap
  /\ UNCHANGED <<blk, cancel, shared, name, tar, store, target, sessions>>

RestoreStep ==
  \/ CheckDigests \/ CheckFails \/ RestoreNext \/ AllRestored \/ Extract \/ ExtractFails
  \/ WriteBlock \/ WriteFails

-----------------------------------------------------------------------------
Next ==
  \/ \E n \in Names : StartBackup(n)
  \/ RestoreLast \/ RestoreOlder \/ BackupStep \/ RestoreStep
  \/ PressCancel \/ CancelStep
  \/ \E t \in Threads : ThreadStep(t) \/ FilterEnds(t) \/ FilterFails(t)
  \/ ChildExits \/ Damage

\* Threads and processes are scheduled, filters end with their input, and a
\* failing step is still a step.
Fairness ==
  /\ WF_vars(BackupStep) /\ WF_vars(RestoreStep) /\ WF_vars(CancelStep) /\ WF_vars(ChildExits)
  /\ \A t \in Threads : WF_vars(ThreadStep(t)) /\ WF_vars(FilterEnds(t))

Spec == Init /\ [][Next]_vars /\ Fairness

-----------------------------------------------------------------------------
(* Properties                                                              *)

Saved(a) == file[a] = "full" /\ (a[2] = 0 => a \in digest)

\* A backup that nandroid reports as a success has every archive of the
\* partitions it saved whole, and those of thread 0 digested, whatever thread,
\* filter or process failed on the way; until a cancel comes after the verdict.
SuccessIsWhole(l) == \A a \in Archives : a[1] \in {l[i] : i \in DOMAIN l} => Saved(a)
BackupIsWhole ==
  apc = "named" /\ report = "success" /\ stop_backup = 0 => \E l \in Lists : SuccessIsWhole(l)

\* Once the signal of Cancel_Backup has met the tar child, neither that child
\* nor a filter it left behind writes, and no further child is started, while
\* the folder is removed.
NoWriterInRemoval ==
  cpc \in {"remove", "rmdir", "reset"} /\ own /\ hit => child = "none" /\ \A t \in Threads : filter[t] # "run"

\* With the digests checked, a partition ends up with wrong contents only through
\* an archive Check_Digest does not look at: one of another thread than 0, one of a
\* sub-partition, or one it does not find by counting up (an earlier number of the
\* same archive is missing).
CheckedIsSound ==
  checked => \A p \in Partitions : dev[p] = "bad" =>
    \E a \in Archives : a[1] = p /\ src[a] # "full" /\ (Part[p].sub \/ a \notin Numbered(p, src))

\* A restore fails only for a cause of its own: a failed operation, a damaged or
\* a missing archive ("Signals partition backup to cancel").
RestoreFailsForCause ==
  report = "restore failed" => mishaps > 0 \/ \E a \in Archives : src[a] # "full" \/ (a[2] = 0 /\ a \notin signed)

\* The branch that createTarFork marks as the child process runs in the child.
ChildIsChild == apc # "exited"

\* A backup or restore ends, with its child reaped; or the recovery itself does,
\* in the child's code (Forked) or in a digest whose read failed.
SessionEnds == apc # "idle" ~> (apc = "idle" /\ child = "none") \/ Ended

\* A cancel ends: the loop on kill(pid, 0) does not wait for a child that the
\* action thread never reaps.  (After a failed fork the pid is -1 and it may.)
CancelEnds == cpc # "idle" ~> cpc = "idle" \/ Ended \/ tar_fork_pid = "minus one"
=============================================================================
