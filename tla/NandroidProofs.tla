--------------------------- MODULE NandroidProofs ---------------------------
(***************************************************************************)
(* Proofs about Nandroid, for any partitions, threads, splits and filters, *)
(* any lists and any number of sessions and failures: the types, that a    *)
(* backup reported as a success is whole, that nothing writes while a      *)
(* cancel removes the folder, what a check of the digests is worth, that   *)
(* nobody waits in vain, and why a restore can fail.                       *)
(***************************************************************************)
EXTENDS Nandroid, WellFoundedInduction, TLAPS

-----------------------------------------------------------------------------
(* Partitions and archives                                                 *)

LEMMA Bounds ==
  /\ MaxSessions \in Nat /\ MaxMishaps \in Nat /\ ImageBlocks \in Nat \ {0}
  /\ Names \subseteq {"typed", "auto", "date"}
  BY PartAssumption

LEMMA ListTypes == Lists \subseteq Seq(Partitions) /\ RestoreLists \subseteq Seq(Partitions) \ {<<>>}
  BY PartAssumption

LEMMA PartFacts ==
  ASSUME NEW p \in Partitions
  PROVE  /\ 0 \in DOMAIN Part[p].archives /\ DOMAIN Part[p].archives \subseteq Threads
         /\ \A t \in DOMAIN Part[p].archives : Part[p].archives[t] \in 1..100
         /\ ~Part[p].files => DOMAIN Part[p].archives = {0} /\ Part[p].archives[0] = 1
<1>1. DOMAIN Part[p].archives \subseteq Threads
  BY DEF Threads
<1>2. /\ 0 \in DOMAIN Part[p].archives
      /\ \A t \in DOMAIN Part[p].archives : Part[p].archives[t] \in 1..100
      /\ ~Part[p].files => DOMAIN Part[p].archives = {0} /\ Part[p].archives[0] = 1
  BY PartAssumption, Zenon
<1> QED BY <1>1, <1>2

LEMMA IsArchive ==
  ASSUME NEW p \in Partitions, NEW t \in DOMAIN Part[p].archives, NEW j \in Nat,
         j < Part[p].archives[t]
  PROVE  <<p, t, j>> \in Archives
<1>1. t \in Threads /\ j \in 0..99
  BY PartFacts
<1> QED BY <1>1 DEF Archives

LEMMA ArchiveFacts ==
  ASSUME NEW a \in Archives
  PROVE  /\ a = <<a[1], a[2], a[3]>> /\ a[1] \in Partitions /\ a[2] \in DOMAIN Part[a[1]].archives
         /\ a[3] \in Nat /\ a[3] < Part[a[1]].archives[a[2]]
  BY DEF Archives

-----------------------------------------------------------------------------
(* The types                                                               *)

Flags ==
  ret \in BOOLEAN /\ own \in BOOLEAN /\ hit \in BOOLEAN /\ folder \in BOOLEAN /\ checked \in BOOLEAN

LEMMA FlagsStep == Flags /\ [Next]_vars => Flags'
<1> SUFFICES ASSUME Flags, [Next]_vars PROVE Flags'
  OBVIOUS
<1>f. ret \in BOOLEAN /\ own \in BOOLEAN /\ hit \in BOOLEAN /\ folder \in BOOLEAN /\ checked \in BOOLEAN
  BY Zenon DEF Flags
<1>1. ASSUME NEW n \in Names, StartBackup(n) PROVE Flags'
  BY <1>1, <1>f, Zenon DEF Flags, StartBackup, Goto, cancel, shared, tar, store, target
<1>2. CASE RunBackup
  BY <1>2, <1>f, Zenon DEF Flags, RunBackup, cancel, tar, target, bounds
<1>3. CASE RunBackupFails
  BY <1>3, <1>f, Zenon DEF Flags, RunBackupFails, Mishap, cancel, tar, store, target
<1>4. CASE NextPartition
  BY <1>4, <1>f, Zenon DEF Flags, NextPartition, Goto, cancel, shared, tar, store, target, bounds
<1>5. CASE StopSeen
  BY <1>5, <1>f, Zenon DEF Flags, StopSeen, cancel, shared, tar, store, target, bounds
<1>6. CASE AllSaved
  BY <1>6, <1>f, Zenon DEF Flags, AllSaved, cancel, shared, tar, store, target, bounds
<1>7. CASE Fork
  BY <1>7, <1>f, Zenon DEF Flags, Fork, Goto, cancel, store, target, bounds
<1>8. CASE MountFails
  BY <1>8, <1>f, Zenon DEF Flags, MountFails, Goto, Mishap, cancel, shared, tar, store, target
<1>9. CASE ForkFails
  BY <1>9, <1>f, Zenon DEF Flags, ForkFails, Goto, Mishap, cancel, tar, store, target
<1>10. CASE ForkReturns
  BY <1>10, <1>f, Zenon DEF Flags, ForkReturns, Forked, cancel, shared, tar, store, target, bounds
<1>11. CASE Reap
  BY <1>11, <1>f, Zenon DEF Flags, Reap, Goto, cancel, shared, store, target, bounds
<1>12. CASE Digest
  BY <1>12, <1>f, Zenon DEF Flags, Digest, cancel, shared, tar, target, bounds
<1>13. CASE DigestFails
  BY <1>13, <1>f, Zenon DEF Flags, DigestFails, Goto, Mishap, cancel, shared, tar, store, target
<1>14. CASE OpenImage
  BY <1>14, <1>f, Zenon DEF Flags, OpenImage, cancel, shared, tar, target, bounds
<1>15. CASE ImageFails
  BY <1>15, <1>f, Zenon DEF Flags, ImageFails, Goto, Mishap, cancel, shared, tar, store, target
<1>16. CASE SaveBlock
  BY <1>16, <1>f, Zenon DEF Flags, SaveBlock, cancel, shared, tar, target, bounds
<1>17. CASE BackupError
  BY <1>17, <1>f, Zenon DEF Flags, BackupError, cancel, shared, tar, target, bounds
<1>18. CASE Verdict
  BY <1>18, <1>f, Zenon DEF Flags, Verdict, cancel, shared, tar, store, target, bounds
<1>19. CASE ResetName
  BY <1>19, <1>f, Zenon DEF Flags, ResetName, Goto, cancel, shared, tar, store, target, bounds
<1>20. CASE RestoreLast
  BY <1>20, <1>f, Zenon DEF Flags, RestoreLast, StartRestore, cancel, shared, tar, store
<1>21. CASE RestoreOlder
  BY <1>21, <1>f, Zenon DEF Flags, RestoreOlder, StartRestore, cancel, shared, tar, store
<1>22. CASE CheckDigests
  BY <1>22, <1>f, Zenon DEF Flags, CheckDigests, Goto, RestoreEnds, cancel, shared, tar, store,
       bounds
<1>22a. CASE CheckFails
  BY <1>22a, <1>f, Zenon DEF Flags, CheckFails, Mishap, Goto, RestoreEnds, cancel, shared, tar, store, target
<1>23. CASE RestoreNext
  BY <1>23, <1>f, Zenon DEF Flags, RestoreNext, cancel, shared, tar, store, bounds
<1>24. CASE AllRestored
  BY <1>24, <1>f, Zenon DEF Flags, AllRestored, RestoreEnds, cancel, shared, tar, store, target,
       bounds
<1>25. CASE Extract
  BY <1>25, <1>f, Zenon DEF Flags, Extract, cancel, shared, tar, store, bounds
<1>26. CASE ExtractFails
  BY <1>26, <1>f, Zenon DEF Flags, ExtractFails, Mishap, RestoreEnds, cancel, shared, tar, store
<1>27. CASE WriteBlock
  BY <1>27, <1>f, Zenon DEF Flags, WriteBlock, RestoreEnds, cancel, shared, tar, store, bounds
<1>28. CASE WriteFails
  BY <1>28, <1>f, Zenon DEF Flags, WriteFails, Mishap, RestoreEnds, cancel, shared, tar, store,
       target
<1>29. CASE PressCancel
  BY <1>29, <1>f, Zenon DEF Flags, PressCancel, action, shared, tar, store, target, bounds
<1>30. CASE CancelStop
  BY <1>30, <1>f, Zenon DEF Flags, CancelStop, action, tar, store, target, bounds
<1>31. CASE CancelRead
  BY <1>31, <1>f, Zenon DEF Flags, CancelRead, action, shared, tar, store, target, bounds
<1>32. CASE CancelKill
  BY <1>32, <1>f, Zenon DEF Flags, CancelKill, action, shared, store, target, bounds
<1>33. CASE CancelPoll
  BY <1>33, <1>f, Zenon DEF Flags, CancelPoll, action, shared, tar, store, target, bounds
<1>34. CASE RemoveFiles
  BY <1>34, <1>f, Zenon DEF Flags, RemoveFiles, action, shared, tar, target, bounds
<1>35. CASE RemoveFolder
  BY <1>35, <1>f, Zenon DEF Flags, RemoveFolder, action, shared, tar, target, bounds
<1>36. CASE CancelReset
  BY <1>36, <1>f, Zenon DEF Flags, CancelReset, action, tar, store, target, bounds
<1>37. ASSUME NEW t \in Threads, CreateTar(t) PROVE Flags'
  BY <1>37, <1>f, Zenon DEF Flags, CreateTar, Set, action, cancel, shared, target, bounds
<1>38. ASSUME NEW t \in Threads, CreateTarFails(t) PROVE Flags'
  BY <1>38, <1>f, Zenon DEF Flags, CreateTarFails, Mishap, Set, action, cancel, shared, store,
       target
<1>39. ASSUME NEW t \in Threads, AddFiles(t) PROVE Flags'
  BY <1>39, <1>f, Zenon DEF Flags, AddFiles, Set, action, cancel, shared, store, target, bounds
<1>40. ASSUME NEW t \in Threads, AddFilesFails(t) PROVE Flags'
  BY <1>40, <1>f, Zenon DEF Flags, AddFilesFails, Mishap, Set, action, cancel, shared, store, target
<1>41. ASSUME NEW t \in Threads, CloseTar(t) PROVE Flags'
  BY <1>41, <1>f, Zenon DEF Flags, CloseTar, Set, action, cancel, shared, target, bounds
<1>42. ASSUME NEW t \in Threads, FilterEnds(t) PROVE Flags'
  BY <1>42, <1>f, Zenon DEF Flags, FilterEnds, Set, action, cancel, shared, target, bounds
<1>43. ASSUME NEW t \in Threads, FilterFails(t) PROVE Flags'
  BY <1>43, <1>f, Zenon DEF Flags, FilterFails, Mishap, Set, action, cancel, shared, store, target
<1>44. CASE ChildExits
  BY <1>44, <1>f, Zenon DEF Flags, ChildExits, action, cancel, shared, store, target, bounds
<1>45. CASE Damage
  BY <1>45, <1>f, Zenon DEF Flags, Damage, Mishap, action, cancel, shared, tar, target
<1>46. CASE UNCHANGED vars
  BY <1>46, <1>f, Zenon DEF Flags, vars, action, cancel, store, target
<1> QED BY <1>1, <1>2, <1>3, <1>4, <1>5, <1>6, <1>7, <1>8, <1>9, <1>10, <1>11, <1>12, <1>13,
     <1>14, <1>15, <1>16, <1>17, <1>18, <1>19, <1>20, <1>21, <1>22, <1>22a, <1>23, <1>24,
     <1>25, <1>26, <1>27, <1>28, <1>29, <1>30, <1>31, <1>32, <1>33, <1>34, <1>35, <1>36,
     <1>37, <1>38, <1>39, <1>40, <1>41, <1>42, <1>43, <1>44, <1>45, <1>46, Zenon DEF Next,
     BackupStep, RestoreStep, CancelStep, ThreadStep

Pcs == {"idle", "begin", "exited", "crashed"} \cup BackupPc \cup RestorePc

\* The control state takes its values; what a step does not set it leaves.
LEMMA PcMembers ==
  /\ "idle" \in Pcs /\ "begin" \in Pcs /\ "exited" \in Pcs /\ "crashed" \in Pcs /\ "loop" \in Pcs /\ "mount" \in Pcs
  /\ "forked" \in Pcs /\ "progress" \in Pcs /\ "digest" \in Pcs /\ "open" \in Pcs /\ "image" \in Pcs
  /\ "error" \in Pcs /\ "verdict" \in Pcs /\ "named" \in Pcs /\ "check" \in Pcs /\ "next" \in Pcs
  /\ "extract" \in Pcs /\ "write" \in Pcs
  BY DEF Pcs, BackupPc, RestorePc

LEMMA PcStep == apc \in Pcs /\ [Next]_vars => apc' \in Pcs
<1> SUFFICES ASSUME apc \in Pcs, [Next]_vars PROVE apc' \in Pcs
  OBVIOUS
<1>1. ASSUME NEW n \in Names, StartBackup(n) PROVE apc' \in Pcs
  BY <1>1, PcMembers, Zenon DEF StartBackup, Goto
<1>2. CASE RunBackup
  BY <1>2, PcMembers, Zenon DEF RunBackup
<1>3. CASE RunBackupFails
  BY <1>3, PcMembers, Zenon DEF RunBackupFails, Mishap
<1>4. CASE NextPartition
  BY <1>4, PcMembers, Zenon DEF NextPartition, Goto
<1>5. CASE StopSeen
  BY <1>5, PcMembers, Zenon DEF StopSeen
<1>6. CASE AllSaved
  BY <1>6, PcMembers, Zenon DEF AllSaved
<1>7. CASE Fork
  BY <1>7, PcMembers, Zenon DEF Fork, Goto
<1>8. CASE MountFails
  BY <1>8, PcMembers, Zenon DEF MountFails, Goto, Mishap
<1>9. CASE ForkFails
  BY <1>9, PcMembers, Zenon DEF ForkFails, Goto, Mishap
<1>10. CASE ForkReturns
  BY <1>10, PcMembers, Zenon DEF ForkReturns, Forked
<1>11. CASE Reap
  BY <1>11, PcMembers, Zenon DEF Reap, Goto
<1>12. CASE Digest
  BY <1>12, PcMembers, Zenon DEF Digest
<1>13. CASE DigestFails
  BY <1>13, PcMembers, Zenon DEF DigestFails, Goto, Mishap
<1>14. CASE OpenImage
  BY <1>14, PcMembers, Zenon DEF OpenImage
<1>15. CASE ImageFails
  BY <1>15, PcMembers, Zenon DEF ImageFails, Goto, Mishap
<1>16. CASE SaveBlock
  BY <1>16, PcMembers, Zenon DEF SaveBlock
<1>17. CASE BackupError
  BY <1>17, PcMembers, Zenon DEF BackupError
<1>18. CASE Verdict
  BY <1>18, PcMembers, Zenon DEF Verdict
<1>19. CASE ResetName
  BY <1>19, PcMembers, Zenon DEF ResetName, Goto
<1>20. CASE RestoreLast
  BY <1>20, PcMembers, Zenon DEF RestoreLast, StartRestore
<1>21. CASE RestoreOlder
  BY <1>21, PcMembers, Zenon DEF RestoreOlder, StartRestore
<1>22. CASE CheckDigests
  BY <1>22, PcMembers, Zenon DEF CheckDigests, Goto, RestoreEnds
<1>22a. CASE CheckFails
  BY <1>22a, PcMembers, Zenon DEF CheckFails, Mishap, Goto, RestoreEnds, target
<1>23. CASE RestoreNext
  BY <1>23, PcMembers, Zenon DEF RestoreNext
<1>24. CASE AllRestored
  BY <1>24, PcMembers, Zenon DEF AllRestored, RestoreEnds
<1>25. CASE Extract
  BY <1>25, PcMembers, Zenon DEF Extract
<1>26. CASE ExtractFails
  BY <1>26, PcMembers, Zenon DEF ExtractFails, Mishap, RestoreEnds
<1>27. CASE WriteBlock
  BY <1>27, PcMembers, Zenon DEF WriteBlock, RestoreEnds
<1>28. CASE WriteFails
  BY <1>28, PcMembers, Zenon DEF WriteFails, Mishap, RestoreEnds
<1>29. CASE PressCancel \/ CancelStop \/ CancelRead \/ CancelKill \/ CancelPoll \/ RemoveFiles
         \/ RemoveFolder \/ CancelReset \/ (\E t \in Threads : CreateTar(t))
         \/ (\E t \in Threads : CreateTarFails(t)) \/ (\E t \in Threads : AddFiles(t))
         \/ (\E t \in Threads : AddFilesFails(t)) \/ (\E t \in Threads : CloseTar(t))
         \/ (\E t \in Threads : FilterEnds(t)) \/ (\E t \in Threads : FilterFails(t))
         \/ ChildExits \/ Damage
  BY <1>29, Zenon DEF action, PressCancel, CancelStop, CancelRead, CancelKill, CancelPoll,
       RemoveFiles, RemoveFolder, CancelReset, CreateTar, CreateTarFails, AddFiles,
       AddFilesFails, CloseTar, FilterEnds, FilterFails, ChildExits, Damage
<1>30. CASE UNCHANGED vars
  BY <1>30, Zenon DEF vars, action
<1> QED BY <1>1, <1>2, <1>3, <1>4, <1>5, <1>6, <1>7, <1>8, <1>9, <1>10, <1>11, <1>12, <1>13,
     <1>14, <1>15, <1>16, <1>17, <1>18, <1>19, <1>20, <1>21, <1>22, <1>22a, <1>23, <1>24,
     <1>25, <1>26, <1>27, <1>28, <1>29, <1>30, Zenon DEF Next, BackupStep, RestoreStep,
     CancelStep, ThreadStep

Controls ==
  /\ report \in {"none", "success", "failed", "cancelled", "restored", "restore failed"}
  /\ cpc \in {"idle", "stop", "read", "kill", "poll", "remove", "rmdir", "reset"}
  /\ stop_backup \in {0, 1} /\ tar_fork_pid \in {"zero", "child", "minus one"}
  /\ name \in {"typed", "auto", "date"}
  /\ child \in {"none", "run", "ok", "failed", "killed"}

LEMMA ControlsStep == Controls /\ [Next]_vars => Controls'
<1> SUFFICES ASSUME Controls, [Next]_vars PROVE Controls'
  OBVIOUS
<1>b. Names \subseteq {"typed", "auto", "date"}
  BY Bounds
<1> USE <1>b DEF Controls
<1>1. ASSUME NEW n \in Names, StartBackup(n) PROVE Controls'
  BY <1>1, Zenon DEF StartBackup, Goto, cancel, shared, tar, store, target
<1>2. CASE RunBackup
  BY <1>2, Zenon DEF RunBackup, cancel, tar, target, bounds
<1>3. CASE RunBackupFails
  BY <1>3, Zenon DEF RunBackupFails, Mishap, cancel, tar, store, target
<1>4. CASE NextPartition
  BY <1>4, Zenon DEF NextPartition, Goto, cancel, shared, tar, store, target, bounds
<1>5. CASE StopSeen
  BY <1>5, Zenon DEF StopSeen, cancel, shared, tar, store, target, bounds
<1>6. CASE AllSaved
  BY <1>6, Zenon DEF AllSaved, cancel, shared, tar, store, target, bounds
<1>7. CASE Fork
  BY <1>7, Zenon DEF Fork, Goto, cancel, store, target, bounds
<1>8. CASE MountFails
  BY <1>8, Zenon DEF MountFails, Goto, Mishap, cancel, shared, tar, store, target
<1>9. CASE ForkFails
  BY <1>9, Zenon DEF ForkFails, Goto, Mishap, cancel, tar, store, target
<1>10. CASE ForkReturns
  BY <1>10, Zenon DEF ForkReturns, Forked, cancel, shared, tar, store, target, bounds
<1>11. CASE Reap
  BY <1>11, Zenon DEF Reap, Goto, cancel, shared, store, target, bounds
<1>12. CASE Digest
  BY <1>12, Zenon DEF Digest, cancel, shared, tar, target, bounds
<1>13. CASE DigestFails
  BY <1>13, Zenon DEF DigestFails, Goto, Mishap, cancel, shared, tar, store, target
<1>14. CASE OpenImage
  BY <1>14, Zenon DEF OpenImage, cancel, shared, tar, target, bounds
<1>15. CASE ImageFails
  BY <1>15, Zenon DEF ImageFails, Goto, Mishap, cancel, shared, tar, store, target
<1>16. CASE SaveBlock
  BY <1>16, Zenon DEF SaveBlock, cancel, shared, tar, target, bounds
<1>17. CASE BackupError
  BY <1>17, Zenon DEF BackupError, cancel, shared, tar, target, bounds
<1>18. CASE Verdict
  BY <1>18, Zenon DEF Verdict, cancel, shared, tar, store, target, bounds
<1>19. CASE ResetName
  BY <1>19, Zenon DEF ResetName, Goto, cancel, shared, tar, store, target, bounds
<1>20. CASE RestoreLast
  BY <1>20, Zenon DEF RestoreLast, StartRestore, cancel, shared, tar, store
<1>21. CASE RestoreOlder
  BY <1>21, Zenon DEF RestoreOlder, StartRestore, cancel, shared, tar, store
<1>22. CASE CheckDigests
  BY <1>22, Zenon DEF CheckDigests, Goto, RestoreEnds, cancel, shared, tar, store, bounds
<1>22a. CASE CheckFails
  BY <1>22a, Zenon DEF CheckFails, Mishap, Goto, RestoreEnds, cancel, shared, tar, store, target
<1>23. CASE RestoreNext
  BY <1>23, Zenon DEF RestoreNext, cancel, shared, tar, store, bounds
<1>24. CASE AllRestored
  BY <1>24, Zenon DEF AllRestored, RestoreEnds, cancel, shared, tar, store, target, bounds
<1>25. CASE Extract
  BY <1>25, Zenon DEF Extract, cancel, shared, tar, store, bounds
<1>26. CASE ExtractFails
  BY <1>26, Zenon DEF ExtractFails, Mishap, RestoreEnds, cancel, shared, tar, store
<1>27. CASE WriteBlock
  BY <1>27, Zenon DEF WriteBlock, RestoreEnds, cancel, shared, tar, store, bounds
<1>28. CASE WriteFails
  BY <1>28, Zenon DEF WriteFails, Mishap, RestoreEnds, cancel, shared, tar, store, target
<1>29. CASE PressCancel
  BY <1>29, Zenon DEF PressCancel, action, shared, tar, store, target, bounds
<1>30. CASE CancelStop
  BY <1>30, Zenon DEF CancelStop, action, tar, store, target, bounds
<1>31. CASE CancelRead
  BY <1>31, Zenon DEF CancelRead, action, shared, tar, store, target, bounds
<1>32. CASE CancelKill
  BY <1>32, Zenon DEF CancelKill, action, shared, store, target, bounds
<1>33. CASE CancelPoll
  BY <1>33, Zenon DEF CancelPoll, action, shared, tar, store, target, bounds
<1>34. CASE RemoveFiles
  BY <1>34, Zenon DEF RemoveFiles, action, shared, tar, target, bounds
<1>35. CASE RemoveFolder
  BY <1>35, Zenon DEF RemoveFolder, action, shared, tar, target, bounds
<1>36. CASE CancelReset
  BY <1>36, Zenon DEF CancelReset, action, tar, store, target, bounds
<1>37. ASSUME NEW t \in Threads, CreateTar(t) PROVE Controls'
  BY <1>37, Zenon DEF CreateTar, Set, action, cancel, shared, target, bounds
<1>38. ASSUME NEW t \in Threads, CreateTarFails(t) PROVE Controls'
  BY <1>38, Zenon DEF CreateTarFails, Mishap, Set, action, cancel, shared, store, target
<1>39. ASSUME NEW t \in Threads, AddFiles(t) PROVE Controls'
  BY <1>39, Zenon DEF AddFiles, Set, action, cancel, shared, store, target, bounds
<1>40. ASSUME NEW t \in Threads, AddFilesFails(t) PROVE Controls'
  BY <1>40, Zenon DEF AddFilesFails, Mishap, Set, action, cancel, shared, store, target
<1>41. ASSUME NEW t \in Threads, CloseTar(t) PROVE Controls'
  BY <1>41, Zenon DEF CloseTar, Set, action, cancel, shared, target, bounds
<1>42. ASSUME NEW t \in Threads, FilterEnds(t) PROVE Controls'
  BY <1>42, Zenon DEF FilterEnds, Set, action, cancel, shared, target, bounds
<1>43. ASSUME NEW t \in Threads, FilterFails(t) PROVE Controls'
  BY <1>43, Zenon DEF FilterFails, Mishap, Set, action, cancel, shared, store, target
<1>44. CASE ChildExits
  BY <1>44, Zenon DEF ChildExits, action, cancel, shared, store, target, bounds
<1>45. CASE Damage
  BY <1>45, Zenon DEF Damage, Mishap, action, cancel, shared, tar, target
<1>46. CASE UNCHANGED vars
  BY <1>46, Zenon DEF vars, action, cancel, shared, tar
<1> QED BY <1>1, <1>2, <1>3, <1>4, <1>5, <1>6, <1>7, <1>8, <1>9, <1>10, <1>11, <1>12, <1>13,
     <1>14, <1>15, <1>16, <1>17, <1>18, <1>19, <1>20, <1>21, <1>22, <1>22a, <1>23, <1>24,
     <1>25, <1>26, <1>27, <1>28, <1>29, <1>30, <1>31, <1>32, <1>33, <1>34, <1>35, <1>36,
     <1>37, <1>38, <1>39, <1>40, <1>41, <1>42, <1>43, <1>44, <1>45, <1>46, Zenon DEF Next,
     BackupStep, RestoreStep, CancelStep, ThreadStep

Counters == blk \in 0..(ImageBlocks - 1) /\ sessions \in 0..MaxSessions /\ mishaps \in 0..MaxMishaps

LEMMA CountersStep == Counters /\ [Next]_vars => Counters'
<1> SUFFICES ASSUME Counters, [Next]_vars PROVE Counters'
  OBVIOUS
<1>b. MaxSessions \in Nat /\ MaxMishaps \in Nat /\ ImageBlocks \in Nat \ {0}
  BY Bounds
<1>m. CASE Mishap /\ UNCHANGED <<blk, sessions>>
  BY <1>m, <1>b DEF Counters, Mishap
<1>s. CASE sessions < MaxSessions /\ sessions' = sessions + 1 /\ UNCHANGED <<blk, mishaps>>
  BY <1>s, <1>b DEF Counters
<1>u. CASE blk' \in {0, blk} /\ UNCHANGED <<sessions, mishaps>>
  BY <1>u, <1>b DEF Counters
<1>w. CASE blk' = (IF blk + 1 = ImageBlocks THEN 0 ELSE blk + 1) /\ UNCHANGED <<sessions, mishaps>>
  BY <1>w, <1>b DEF Counters
<1>1. ASSUME NEW n \in Names, StartBackup(n) PROVE Counters'
  BY <1>1, <1>s, Zenon DEF StartBackup, Goto, cancel, shared, tar, store, target
<1>2. CASE RunBackup
  BY <1>2, <1>u, Zenon DEF RunBackup, cancel, tar, target, bounds
<1>3. CASE RunBackupFails
  BY <1>3, <1>m, Zenon DEF RunBackupFails, cancel, tar, store, target
<1>4. CASE NextPartition
  BY <1>4, <1>u, Zenon DEF NextPartition, Goto, cancel, shared, tar, store, target, bounds
<1>5. CASE StopSeen
  BY <1>5, <1>u, Zenon DEF StopSeen, cancel, shared, tar, store, target, bounds
<1>6. CASE AllSaved
  BY <1>6, <1>u, Zenon DEF AllSaved, cancel, shared, tar, store, target, bounds
<1>7. CASE Fork
  BY <1>7, <1>u, Zenon DEF Fork, Goto, cancel, store, target, bounds
<1>8. CASE MountFails
  BY <1>8, <1>m, Zenon DEF MountFails, Goto, cancel, shared, tar, store, target
<1>9. CASE ForkFails
  BY <1>9, <1>m, Zenon DEF ForkFails, Goto, cancel, tar, store, target
<1>10. CASE ForkReturns
  BY <1>10, <1>u, Zenon DEF ForkReturns, Forked, cancel, shared, tar, store, target, bounds
<1>11. CASE Reap
  BY <1>11, <1>u, Zenon DEF Reap, Goto, cancel, shared, store, target, bounds
<1>12. CASE Digest
  BY <1>12, <1>u, Zenon DEF Digest, cancel, shared, tar, target, bounds
<1>13. CASE DigestFails
  BY <1>13, <1>m, <1>u, Zenon DEF DigestFails, Goto, cancel, shared, tar, store, target
<1>14. CASE OpenImage
  BY <1>14, <1>u, Zenon DEF OpenImage, cancel, shared, tar, target, bounds
<1>15. CASE ImageFails
  BY <1>15, <1>m, <1>u, Zenon DEF ImageFails, Goto, cancel, shared, tar, store, target
<1>16. CASE SaveBlock
  BY <1>16, <1>w, Zenon DEF SaveBlock, cancel, shared, tar, target, bounds
<1>17. CASE BackupError
  BY <1>17, <1>u, Zenon DEF BackupError, cancel, shared, tar, target, bounds
<1>18. CASE Verdict
  BY <1>18, <1>u, Zenon DEF Verdict, cancel, shared, tar, store, target, bounds
<1>19. CASE ResetName
  BY <1>19, <1>u, Zenon DEF ResetName, Goto, cancel, shared, tar, store, target, bounds
<1>20. CASE RestoreLast
  BY <1>20, <1>s, Zenon DEF RestoreLast, StartRestore, cancel, shared, tar, store
<1>21. CASE RestoreOlder
  BY <1>21, <1>s, Zenon DEF RestoreOlder, StartRestore, cancel, shared, tar, store
<1>22. CASE CheckDigests
  BY <1>22, <1>u, Zenon DEF CheckDigests, Goto, RestoreEnds, cancel, shared, tar, store, bounds
<1>22a. CASE CheckFails
  BY <1>22a, <1>m, Zenon DEF CheckFails, Goto, RestoreEnds, cancel, shared, tar, store, target
<1>23. CASE RestoreNext
  BY <1>23, <1>u, Zenon DEF RestoreNext, cancel, shared, tar, store, bounds
<1>24. CASE AllRestored
  BY <1>24, <1>u, Zenon DEF AllRestored, RestoreEnds, cancel, shared, tar, store, target, bounds
<1>25. CASE Extract
  BY <1>25, <1>u, Zenon DEF Extract, cancel, shared, tar, store, bounds
<1>26. CASE ExtractFails
  BY <1>26, <1>m, <1>u, Zenon DEF ExtractFails, RestoreEnds, cancel, shared, tar, store
<1>27. CASE WriteBlock
  BY <1>27, <1>u, <1>w, Zenon DEF WriteBlock, RestoreEnds, cancel, shared, tar, store, bounds
<1>28. CASE WriteFails
  BY <1>28, <1>m, <1>u, Zenon DEF WriteFails, RestoreEnds, cancel, shared, tar, store, target
<1>29. CASE PressCancel
  BY <1>29, <1>u, Zenon DEF PressCancel, action, shared, tar, store, target, bounds
<1>30. CASE CancelStop
  BY <1>30, <1>u, Zenon DEF CancelStop, action, tar, store, target, bounds
<1>31. CASE CancelRead
  BY <1>31, <1>u, Zenon DEF CancelRead, action, shared, tar, store, target, bounds
<1>32. CASE CancelKill
  BY <1>32, <1>u, Zenon DEF CancelKill, action, shared, store, target, bounds
<1>33. CASE CancelPoll
  BY <1>33, <1>u, Zenon DEF CancelPoll, action, shared, tar, store, target, bounds
<1>34. CASE RemoveFiles
  BY <1>34, <1>u, Zenon DEF RemoveFiles, action, shared, tar, target, bounds
<1>35. CASE RemoveFolder
  BY <1>35, <1>u, Zenon DEF RemoveFolder, action, shared, tar, target, bounds
<1>36. CASE CancelReset
  BY <1>36, <1>u, Zenon DEF CancelReset, action, tar, store, target, bounds
<1>37. ASSUME NEW t \in Threads, CreateTar(t) PROVE Counters'
  BY <1>37, <1>u, Zenon DEF CreateTar, Set, action, cancel, shared, target, bounds
<1>38. ASSUME NEW t \in Threads, CreateTarFails(t) PROVE Counters'
  BY <1>38, <1>m, <1>u, Zenon DEF CreateTarFails, Set, action, cancel, shared, store, target
<1>39. ASSUME NEW t \in Threads, AddFiles(t) PROVE Counters'
  BY <1>39, <1>u, Zenon DEF AddFiles, Set, action, cancel, shared, store, target, bounds
<1>40. ASSUME NEW t \in Threads, AddFilesFails(t) PROVE Counters'
  BY <1>40, <1>m, <1>u, Zenon DEF AddFilesFails, Set, action, cancel, shared, store, target
<1>41. ASSUME NEW t \in Threads, CloseTar(t) PROVE Counters'
  BY <1>41, <1>u, Zenon DEF CloseTar, Set, action, cancel, shared, target, bounds
<1>42. ASSUME NEW t \in Threads, FilterEnds(t) PROVE Counters'
  BY <1>42, <1>u, Zenon DEF FilterEnds, Set, action, cancel, shared, target, bounds
<1>43. ASSUME NEW t \in Threads, FilterFails(t) PROVE Counters'
  BY <1>43, <1>m, Zenon DEF FilterFails, Set, action, cancel, shared, store, target
<1>44. CASE ChildExits
  BY <1>44, <1>u, Zenon DEF ChildExits, action, cancel, shared, store, target, bounds
<1>45. CASE Damage
  BY <1>45, <1>m, Zenon DEF Damage, action, cancel, shared, tar, target
<1>46. CASE UNCHANGED vars
  BY <1>46, <1>u, Zenon DEF vars, action, bounds
<1> QED BY <1>1, <1>2, <1>3, <1>4, <1>5, <1>6, <1>7, <1>8, <1>9, <1>10, <1>11, <1>12, <1>13,
     <1>14, <1>15, <1>16, <1>17, <1>18, <1>19, <1>20, <1>21, <1>22, <1>22a, <1>23, <1>24,
     <1>25, <1>26, <1>27, <1>28, <1>29, <1>30, <1>31, <1>32, <1>33, <1>34, <1>35, <1>36,
     <1>37, <1>38, <1>39, <1>40, <1>41, <1>42, <1>43, <1>44, <1>45, <1>46, Zenon DEF Next,
     BackupStep, RestoreStep, CancelStep, ThreadStep

Busy    == {"forked", "progress", "exited"}
Working == {"mount", "open", "digest", "image"} \cup Busy

\* There is a partition to work on, and images are made of partitions without files.
TodoInv ==
  /\ todo \in Seq(Partitions)
  /\ apc \in Working \cup {"extract", "write"} => todo # <<>>
  /\ apc \in {"open", "image"} => ~part.files

LEMMA TodoStep == TodoInv /\ [Next]_vars => TodoInv'
<1> SUFFICES ASSUME TodoInv, [Next]_vars PROVE TodoInv'
  OBVIOUS
<1>t. todo \in Seq(Partitions)
  BY DEF TodoInv
<1>l. \A l \in Lists \cup RestoreLists : l \in Seq(Partitions)
  BY ListTypes, Zenon
<1>s. CASE UNCHANGED <<apc, todo>>
  BY <1>s DEF TodoInv, part
\* nothing is worked on
<1>q. CASE todo' \in Seq(Partitions) /\ apc' \notin Working \cup {"extract", "write"}
  BY <1>q DEF TodoInv, Working
\* the work goes on with the same partition
<1>w. CASE todo' = todo /\ todo # <<>> /\ (apc' \in {"open", "image"} => ~part.files)
  BY <1>w, <1>t DEF TodoInv, part
<1>1. ASSUME NEW n \in Names, StartBackup(n) PROVE TodoInv'
  BY <1>1, <1>t, <1>q DEF Working, Busy, StartBackup, Goto
<1>2. CASE RunBackup
  BY <1>2, <1>l, <1>q DEF RunBackup, Working, Busy
<1>3. CASE RunBackupFails
  BY <1>3, <1>t, <1>q DEF Working, Busy, RunBackupFails
<1>4. CASE NextPartition
  BY <1>4, <1>w DEF NextPartition, Goto
<1>5. CASE StopSeen
  BY <1>5, <1>t, <1>q DEF Working, Busy, StopSeen
<1>6. CASE AllSaved
  BY <1>6, <1>t, <1>q DEF Working, Busy, AllSaved
<1>7. CASE Fork
  BY <1>7, <1>w DEF TodoInv, Working, Busy, Fork, Goto
<1>8. CASE MountFails
  BY <1>8, <1>t, <1>q DEF Working, Busy, MountFails, Goto
<1>9. CASE ForkFails
  BY <1>9, <1>t, <1>q DEF Working, Busy, ForkFails, Goto
<1>10. CASE ForkReturns
  BY <1>10, <1>w DEF TodoInv, Working, Busy, ForkReturns, Forked
<1>11. CASE Reap
  BY <1>11, <1>w DEF TodoInv, Working, Busy, Reap, Goto
<1>12. CASE Digest
  <2>1. todo # <<>> /\ todo' = Tail(todo)
    BY <1>12 DEF Digest, TodoInv, Working, Busy
  <2> QED BY <1>12, <2>1, <1>t, <1>q DEF Digest, Working, Busy
<1>13. CASE DigestFails
  BY <1>13, <1>t, <1>q DEF Working, Busy, DigestFails, Goto
<1>14. CASE OpenImage
  BY <1>14, <1>w DEF TodoInv, Working, Busy, OpenImage
<1>15. CASE ImageFails
  BY <1>15, <1>t, <1>q DEF Working, Busy, ImageFails, Goto
<1>16. CASE SaveBlock
  <2>1. todo' = todo /\ apc = "image"
    BY <1>16 DEF SaveBlock
  <2> QED BY <2>1, <1>w DEF TodoInv, Working, Busy
<1>17. CASE BackupError
  BY <1>17, <1>t, <1>q DEF Working, Busy, BackupError
<1>18. CASE Verdict
  BY <1>18, <1>t, <1>q DEF Working, Busy, Verdict
<1>19. CASE ResetName
  BY <1>19, <1>t, <1>q DEF Working, Busy, ResetName, Goto
<1>20. CASE RestoreLast
  <2>1. todo' \in RestoreLists /\ apc' \in {"check", "next"}
    BY <1>20, Zenon DEF RestoreLast, StartRestore
  <2> QED BY <2>1, <1>l, <1>q DEF Working, Busy
<1>21. CASE RestoreOlder
  <2>1. todo' \in RestoreLists /\ apc' \in {"check", "next"}
    BY <1>21, Zenon DEF RestoreOlder, StartRestore
  <2> QED BY <2>1, <1>l, <1>q DEF Working, Busy
<1>22. CASE CheckDigests
  BY <1>22, <1>t, <1>q DEF Working, Busy, CheckDigests, Goto, RestoreEnds
<1>22a. CASE CheckFails
  BY <1>22a, <1>t, <1>q DEF Working, Busy, CheckFails, Mishap, Goto, RestoreEnds, target
<1>23. CASE RestoreNext
  BY <1>23, <1>w DEF TodoInv, Working, Busy, RestoreNext
<1>24. CASE AllRestored
  BY <1>24, <1>t, <1>q DEF Working, Busy, AllRestored, RestoreEnds
<1>25. CASE Extract
  <2>1. todo # <<>> /\ todo' = Tail(todo)
    BY <1>25 DEF Extract, TodoInv, Working, Busy
  <2> QED BY <1>25, <2>1, <1>t, <1>q DEF Extract, Working, Busy
<1>26. CASE ExtractFails
  BY <1>26, <1>t, <1>q DEF Working, Busy, ExtractFails, RestoreEnds
<1>27. CASE WriteBlock
  <2>0. todo # <<>>
    BY <1>27 DEF WriteBlock, TodoInv, Working, Busy
  <2>1. todo # <<>> /\ Tail(todo) \in Seq(Partitions) /\ todo' \in {todo, Tail(todo)}
    <3>1. todo' \in {todo, Tail(todo)}
      BY <1>27, Zenon DEF WriteBlock, RestoreEnds
    <3> QED BY <2>0, <3>1, <1>t
  <2>2. apc' \in {"idle", "next"} \/ (apc' = "write" /\ todo' = todo)
    BY <1>27 DEF WriteBlock, RestoreEnds
  <2>3. CASE apc' \in {"idle", "next"}
    BY <2>1, <2>3, <1>t, <1>q DEF Working, Busy
  <2> QED BY <2>1, <2>2, <2>3, <1>w
<1>28. CASE WriteFails
  BY <1>28, <1>t, <1>q DEF Working, Busy, WriteFails, RestoreEnds
<1>29. CASE PressCancel \/ CancelStop \/ CancelRead \/ CancelKill \/ CancelPoll \/ RemoveFiles
         \/ RemoveFolder \/ CancelReset \/ (\E t \in Threads : CreateTar(t))
         \/ (\E t \in Threads : CreateTarFails(t)) \/ (\E t \in Threads : AddFiles(t))
         \/ (\E t \in Threads : AddFilesFails(t)) \/ (\E t \in Threads : CloseTar(t))
         \/ (\E t \in Threads : FilterEnds(t)) \/ (\E t \in Threads : FilterFails(t))
         \/ ChildExits \/ Damage
  BY <1>29, <1>s, Zenon DEF action, PressCancel, CancelStop, CancelRead, CancelKill, CancelPoll,
       RemoveFiles, RemoveFolder, CancelReset, CreateTar, CreateTarFails, AddFiles,
       AddFilesFails, CloseTar, FilterEnds, FilterFails, ChildExits, Damage
<1>30. CASE UNCHANGED vars
  BY <1>30, <1>s, Zenon DEF vars, action
<1> QED BY <1>1, <1>2, <1>3, <1>4, <1>5, <1>6, <1>7, <1>8, <1>9, <1>10, <1>11, <1>12, <1>13,
     <1>14, <1>15, <1>16, <1>17, <1>18, <1>19, <1>20, <1>21, <1>22, <1>22a, <1>23, <1>24,
     <1>25, <1>26, <1>27, <1>28, <1>29, <1>30, Zenon DEF Next, BackupStep, RestoreStep,
     CancelStep, ThreadStep

DevState == {"own", "wiped", "partial", "bad", "restored"}

Stores ==
  /\ file \in [Archives -> FileState] /\ digest \subseteq Archives
  /\ src \in [Archives -> FileState] /\ signed \subseteq Archives
  /\ dev \in [Partitions -> DevState]

LEMMA NumberedArchives == \A p, f : Numbered(p, f) \subseteq Archives
  BY DEF Numbered

LEMMA ContentsType == ASSUME NEW p PROVE Contents(p) \in {"restored", "bad"}
  BY DEF Contents

LEMMA StoresStep == Stores /\ [Next]_vars => Stores'
<1> SUFFICES ASSUME Stores, [Next]_vars PROVE Stores'
  OBVIOUS
<1>s. /\ file \in [Archives -> FileState] /\ digest \subseteq Archives
      /\ src \in [Archives -> FileState] /\ signed \subseteq Archives
      /\ dev \in [Partitions -> DevState]
  BY Zenon DEF Stores
<1>v. /\ "none" \in FileState /\ "part" \in FileState /\ "full" \in FileState /\ "bad" \in FileState
      /\ "own" \in DevState /\ "wiped" \in DevState /\ "partial" \in DevState /\ "bad" \in DevState
      /\ "restored" \in DevState
  BY DEF FileState, DevState
<1>u. CASE UNCHANGED <<file, digest, src, signed, dev>>
  BY <1>u, <1>s, Zenon DEF Stores
<1>f. CASE /\ \E a, v : v \in FileState /\ file' \in {file, [file EXCEPT ![a] = v]}
           /\ UNCHANGED <<digest, src, signed, dev>>
  <2>1. PICK a, v : v \in FileState /\ file' \in {file, [file EXCEPT ![a] = v]}
    BY <1>f, Zenon
  <2>2. file' \in [Archives -> FileState]
    BY <2>1, <1>s
  <2> QED BY <2>2, <1>f, <1>s, Zenon DEF Stores
<1>d. CASE /\ \E p, v : v \in DevState /\ dev' \in {dev, [dev EXCEPT ![p] = v]}
           /\ UNCHANGED <<file, digest, src, signed>>
  <2>1. PICK p, v : v \in DevState /\ dev' \in {dev, [dev EXCEPT ![p] = v]}
    BY <1>d, Zenon
  <2>2. dev' \in [Partitions -> DevState]
    BY <2>1, <1>s
  <2> QED BY <2>2, <1>d, <1>s, Zenon DEF Stores
<1>e. /\ Empty \in [Archives -> FileState] /\ Whole \in [Archives -> FileState]
      /\ Cleaned \in [Archives -> FileState]
      /\ [p \in Partitions |-> "own"] \in [Partitions -> DevState] /\ {} \subseteq Archives
  BY <1>s, <1>v DEF Empty, Whole, Cleaned
<1>1. CASE RunBackup
  BY <1>1, <1>s, <1>e, Zenon DEF Stores, RunBackup, cancel, tar, target, bounds
<1>2. CASE Digest
  <2>1. digest' \subseteq Archives
    BY <1>2, <1>s, NumberedArchives, Zenon DEF Digest
  <2> QED BY <1>2, <2>1, <1>s, Zenon DEF Digest, Stores, target
<1>3. CASE OpenImage
  BY <1>3, <1>f, <1>v, Zenon DEF OpenImage, cancel, shared, tar, target, bounds
<1>4. CASE SaveBlock
  BY <1>4, <1>f, <1>v, Zenon DEF SaveBlock, cancel, shared, tar, target, bounds
<1>5. CASE BackupError
  BY <1>5, <1>s, <1>e, Zenon DEF Stores, BackupError, cancel, shared, tar, target, bounds
<1>6. CASE RestoreLast
  <2>1. src' \in [Archives -> FileState] /\ signed' \subseteq Archives
        /\ dev' = [p \in Partitions |-> "own"] /\ UNCHANGED store
    BY <1>6, <1>s, <1>e, Zenon DEF RestoreLast, StartRestore
  <2> QED BY <2>1, <1>s, <1>e, Zenon DEF Stores, store
<1>7. CASE RestoreOlder
  <2>0. UNION {Numbered(p, Whole) : p \in Partitions} \subseteq Archives
    BY NumberedArchives
  <2>1. src' \in [Archives -> FileState] /\ signed' \subseteq Archives
        /\ dev' = [p \in Partitions |-> "own"] /\ UNCHANGED store
    BY <1>7, <2>0, <1>s, <1>e, Zenon DEF RestoreOlder, StartRestore
  <2> QED BY <2>1, <1>s, <1>e, Zenon DEF Stores, store
<1>8. CASE RestoreNext
  BY <1>8, <1>d, <1>v, ContentsType, Zenon DEF RestoreNext, cancel, shared, tar, store, bounds
<1>9. CASE Extract
  BY <1>9, <1>d, <1>v, ContentsType, Zenon DEF Extract, cancel, shared, tar, store, bounds
<1>10. CASE ExtractFails
  BY <1>10, <1>d, <1>v, ContentsType, Zenon DEF ExtractFails, RestoreEnds, cancel, shared, tar,
       store
<1>11. CASE WriteBlock
  BY <1>11, <1>d, <1>v, ContentsType, Zenon DEF WriteBlock, RestoreEnds, cancel, shared, tar,
       store, bounds
<1>12. CASE RemoveFiles
  BY <1>12, <1>s, <1>e, Zenon DEF Stores, RemoveFiles, action, shared, tar, target, bounds
<1>13. ASSUME NEW t \in Threads, CreateTar(t) PROVE Stores'
  BY <1>13, <1>f, <1>v, Zenon DEF CreateTar, action, cancel, shared, target, bounds
<1>14. ASSUME NEW t \in Threads, CloseTar(t) PROVE Stores'
  BY <1>14, <1>f, <1>v, Zenon DEF CloseTar, action, cancel, shared, target, bounds
<1>15. ASSUME NEW t \in Threads, FilterEnds(t) PROVE Stores'
  BY <1>15, <1>f, <1>v, Zenon DEF FilterEnds, action, cancel, shared, target, bounds
<1>16. CASE Damage
  BY <1>16, <1>f, <1>v, Zenon DEF Damage, action, cancel, shared, tar, target
<1>17. ASSUME NEW n \in Names, StartBackup(n) PROVE Stores'
  BY <1>17, <1>u, Zenon DEF StartBackup, store, target
<1>18. CASE RunBackupFails
  BY <1>18, <1>u, Zenon DEF RunBackupFails, store, target
<1>19. CASE NextPartition
  BY <1>19, <1>u, Zenon DEF NextPartition, store, target
<1>20. CASE StopSeen
  BY <1>20, <1>u, Zenon DEF StopSeen, store, target
<1>21. CASE AllSaved
  BY <1>21, <1>u, Zenon DEF AllSaved, store, target
<1>22. CASE Fork
  BY <1>22, <1>u, Zenon DEF Fork, store, target
<1>23. CASE MountFails
  BY <1>23, <1>u, Zenon DEF MountFails, store, target
<1>24. CASE ForkFails
  BY <1>24, <1>u, Zenon DEF ForkFails, store, target
<1>25. CASE ForkReturns
  BY <1>25, <1>u, Zenon DEF ForkReturns, store, target
<1>26. CASE Reap
  BY <1>26, <1>u, Zenon DEF Reap, store, target
<1>27. CASE DigestFails
  BY <1>27, <1>u, Zenon DEF DigestFails, store, target
<1>28. CASE ImageFails
  BY <1>28, <1>u, Zenon DEF ImageFails, store, target
<1>29. CASE Verdict
  BY <1>29, <1>u, Zenon DEF Verdict, store, target
<1>30. CASE ResetName
  BY <1>30, <1>u, Zenon DEF ResetName, store, target
<1>31. CASE CheckDigests
  BY <1>31, <1>u, Zenon DEF CheckDigests, store
<1>31a. CASE CheckFails
  BY <1>31a, <1>u, Zenon DEF CheckFails, Mishap, store, target
<1>32. CASE AllRestored
  BY <1>32, <1>u, Zenon DEF AllRestored, store, target
<1>33. CASE WriteFails
  BY <1>33, <1>u, Zenon DEF WriteFails, store, target
<1>34. CASE PressCancel
  BY <1>34, <1>u, Zenon DEF PressCancel, store, target
<1>35. CASE CancelStop
  BY <1>35, <1>u, Zenon DEF CancelStop, store, target
<1>36. CASE CancelRead
  BY <1>36, <1>u, Zenon DEF CancelRead, store, target
<1>37. CASE CancelKill
  BY <1>37, <1>u, Zenon DEF CancelKill, store, target
<1>38. CASE CancelPoll
  BY <1>38, <1>u, Zenon DEF CancelPoll, store, target
<1>39. CASE RemoveFolder
  BY <1>39, <1>u, Zenon DEF RemoveFolder, target
<1>40. CASE CancelReset
  BY <1>40, <1>u, Zenon DEF CancelReset, store, target
<1>41. ASSUME NEW t \in Threads, CreateTarFails(t) PROVE Stores'
  BY <1>41, <1>u, Zenon DEF CreateTarFails, store, target
<1>42. ASSUME NEW t \in Threads, AddFiles(t) PROVE Stores'
  BY <1>42, <1>u, Zenon DEF AddFiles, store, target
<1>43. ASSUME NEW t \in Threads, AddFilesFails(t) PROVE Stores'
  BY <1>43, <1>u, Zenon DEF AddFilesFails, store, target
<1>44. ASSUME NEW t \in Threads, FilterFails(t) PROVE Stores'
  BY <1>44, <1>u, Zenon DEF FilterFails, store, target
<1>45. CASE ChildExits
  BY <1>45, <1>u, Zenon DEF ChildExits, store, target
<1>46. CASE UNCHANGED vars
  BY <1>46, <1>u, Zenon DEF vars, store, target
<1> QED BY <1>1, <1>2, <1>3, <1>4, <1>5, <1>6, <1>7, <1>8, <1>9, <1>10, <1>11, <1>12, <1>13,
     <1>14, <1>15, <1>16, <1>17, <1>18, <1>19, <1>20, <1>21, <1>22, <1>23, <1>24, <1>25,
     <1>26, <1>27, <1>28, <1>29, <1>30, <1>31, <1>31a, <1>32, <1>33, <1>34, <1>35, <1>36,
     <1>37, <1>38, <1>39, <1>40, <1>41, <1>42, <1>43, <1>44, <1>45, <1>46, Zenon DEF Next,
     BackupStep, RestoreStep, CancelStep, ThreadStep

\* The child and its filters work for the first partition of the list: they are there only
\* while the action thread is in createTarFork, and only threads of that partition run.
TarInv ==
  /\ thr \in [Threads -> {"start", "add", "wait", "done", "failed"}]
  /\ cnt \in [Threads -> 0..99] /\ filter \in [Threads -> {"none", "run", "ok", "bad"}]
  /\ child # "none" => apc \in Busy
  /\ apc = "forked" => child # "none"
  /\ \A t \in Threads : filter[t] = "run" => apc \in Busy
  /\ apc \in Busy => \A t \in Threads :
       /\ thr[t] # "done" => t \in DOMAIN part.archives
       /\ t \in DOMAIN part.archives => cnt[t] < part.archives[t]

LEMMA WorkedOn ==
  ASSUME TodoInv, apc \in Working \cup {"extract", "write"}
  PROVE  /\ Head(todo) \in Partitions /\ part = Part[Head(todo)]
         /\ 0 \in DOMAIN part.archives /\ DOMAIN part.archives \subseteq Threads
         /\ \A t \in DOMAIN part.archives : part.archives[t] \in 1..100
<1>1. Head(todo) \in Partitions
  BY DEF TodoInv
<1> QED BY <1>1, PartFacts DEF part

LEMMA TarStep == TodoInv /\ TarInv /\ [Next]_vars => TarInv'
<1> SUFFICES ASSUME TodoInv, TarInv, [Next]_vars PROVE TarInv'
  OBVIOUS
<1>t. /\ thr \in [Threads -> {"start", "add", "wait", "done", "failed"}]
      /\ cnt \in [Threads -> 0..99] /\ filter \in [Threads -> {"none", "run", "ok", "bad"}]
  BY DEF TarInv
<1>u. CASE UNCHANGED <<apc, todo, thr, cnt, filter>> /\ (child' # "none" <=> child # "none")
  BY <1>u DEF TarInv, part
\* outside createTarFork
<1>o. CASE apc \notin Busy /\ apc' \notin Busy /\ UNCHANGED <<child, thr, cnt, filter>>
  BY <1>o DEF TarInv, Busy
\* a thread or a filter goes on, its counter stays
<1>f. CASE /\ UNCHANGED <<apc, todo, child, cnt>>
           /\ \E t \in Threads : \E s \in {"add", "wait", "failed", thr[t]} :
                \E v \in {"none", "run", "ok", "bad"} :
                /\ thr' = [thr EXCEPT ![t] = s] /\ filter' = [filter EXCEPT ![t] = v]
                /\ s # thr[t] => child = "run" /\ thr[t] # "done"
                /\ v = "run" => child = "run" \/ filter[t] = "run"
  <2>1. PICK t \in Threads : \E s \in {"add", "wait", "failed", thr[t]} :
                \E v \in {"none", "run", "ok", "bad"} :
                /\ thr' = [thr EXCEPT ![t] = s] /\ filter' = [filter EXCEPT ![t] = v]
                /\ s # thr[t] => child = "run" /\ thr[t] # "done"
                /\ v = "run" => child = "run" \/ filter[t] = "run"
    BY <1>f, Zenon
  <2>2. PICK s \in {"add", "wait", "failed", thr[t]}, v \in {"none", "run", "ok", "bad"} :
                /\ thr' = [thr EXCEPT ![t] = s] /\ filter' = [filter EXCEPT ![t] = v]
                /\ s # thr[t] => child = "run" /\ thr[t] # "done"
                /\ v = "run" => child = "run" \/ filter[t] = "run"
    BY <2>1, Zenon
  <2>3. /\ thr' \in [Threads -> {"start", "add", "wait", "done", "failed"}]
        /\ filter' \in [Threads -> {"none", "run", "ok", "bad"}]
    BY <2>2, <1>t
  <2>4. \A u \in Threads : filter'[u] = "run" => apc' \in Busy
    BY <2>2, <1>t, <1>f DEF TarInv
  <2>5. apc \in Busy => \A u \in Threads : thr'[u] # "done" => u \in DOMAIN part.archives
    BY <2>2, <1>t DEF TarInv
  <2>6. part' = part
    BY <1>f DEF part
  <2> QED BY <2>3, <2>4, <2>5, <2>6, <1>f, <1>t DEF TarInv
<1>1. ASSUME NEW n \in Names, StartBackup(n) PROVE TarInv'
  BY <1>1, <1>o DEF Busy, tar, StartBackup, Goto
<1>2. CASE RunBackup
  BY <1>2, <1>o DEF Busy, tar, RunBackup
<1>3. CASE RunBackupFails
  BY <1>3, <1>o DEF Busy, tar, RunBackupFails
<1>4. CASE NextPartition
  BY <1>4, <1>o DEF Busy, tar, NextPartition, Goto
<1>5. CASE StopSeen
  BY <1>5, <1>o DEF Busy, tar, StopSeen
<1>6. CASE AllSaved
  BY <1>6, <1>o DEF Busy, tar, AllSaved
<1>7. CASE MountFails
  BY <1>7, <1>o DEF Busy, tar, MountFails, Goto
<1>8. CASE ForkFails
  BY <1>8, <1>o DEF Busy, tar, ForkFails, Goto
<1>9. CASE Digest
  BY <1>9, <1>o DEF Busy, tar, Digest
<1>10. CASE DigestFails
  BY <1>10, <1>o DEF Busy, tar, DigestFails, Goto, Mishap
<1>11. CASE OpenImage
  BY <1>11, <1>o DEF Busy, tar, OpenImage
<1>12. CASE ImageFails
  BY <1>12, <1>o DEF Busy, tar, ImageFails, Goto
<1>13. CASE SaveBlock
  BY <1>13, <1>o DEF Busy, tar, SaveBlock
<1>14. CASE BackupError
  BY <1>14, <1>o DEF Busy, tar, BackupError
<1>15. CASE Verdict
  BY <1>15, <1>o DEF Busy, tar, Verdict
<1>16. CASE ResetName
  BY <1>16, <1>o DEF Busy, tar, ResetName, Goto
<1>17. CASE RestoreLast
  <2>1. apc = "idle" /\ apc' \in {"check", "next"} /\ UNCHANGED tar
    BY <1>17, Zenon DEF RestoreLast, StartRestore
  <2> QED BY <2>1, <1>o DEF Busy, tar
<1>18. CASE RestoreOlder
  <2>1. apc = "idle" /\ apc' \in {"check", "next"} /\ UNCHANGED tar
    BY <1>18, Zenon DEF RestoreOlder, StartRestore
  <2> QED BY <2>1, <1>o DEF Busy, tar
<1>19. CASE CheckDigests
  BY <1>19, <1>o DEF Busy, tar, CheckDigests, Goto, RestoreEnds
<1>19a. CASE CheckFails
  BY <1>19a, <1>o DEF Busy, tar, CheckFails, Mishap, Goto, RestoreEnds, target
<1>20. CASE RestoreNext
  BY <1>20, <1>o DEF Busy, tar, RestoreNext
<1>21. CASE AllRestored
  BY <1>21, <1>o DEF Busy, tar, AllRestored, RestoreEnds
<1>22. CASE Extract
  BY <1>22, <1>o DEF Busy, tar, Extract
<1>23. CASE ExtractFails
  BY <1>23, <1>o DEF Busy, tar, ExtractFails, RestoreEnds
<1>24. CASE WriteBlock
  BY <1>24, <1>o DEF Busy, tar, WriteBlock, RestoreEnds
<1>25. CASE WriteFails
  BY <1>25, <1>o DEF Busy, tar, WriteFails, RestoreEnds
<1>26. CASE Fork
  <2>1. apc = "mount" /\ apc' = "forked" /\ todo' = todo /\ child' = "run"
    BY <1>26 DEF Fork, Goto
  <2>2. /\ thr' = [t \in Threads |-> IF t \in DOMAIN part.archives THEN "start" ELSE "done"]
        /\ cnt' = [t \in Threads |-> 0] /\ filter' = [t \in Threads |-> "none"]
    BY <1>26 DEF Fork
  <2>3. \A t \in DOMAIN part.archives : part.archives[t] \in 1..100
    BY <2>1, WorkedOn DEF Working
  <2>4. part' = part
    BY <2>1 DEF part
  <2> QED BY <2>1, <2>2, <2>3, <2>4 DEF TarInv, Busy
<1>27. CASE ForkReturns
  <2>1. apc = "forked" /\ apc' \in {"exited", "progress"} /\ UNCHANGED <<todo, child, thr, cnt, filter>>
    BY <1>27 DEF ForkReturns, Forked, tar
  <2>2. part' = part
    BY <2>1 DEF part
  <2> QED BY <2>1, <2>2 DEF TarInv, Busy
<1>28. CASE Reap
  <2>1. /\ child' = "none" /\ apc' \in {"digest", "error"} /\ UNCHANGED <<thr, cnt, filter>>
        /\ \A t \in Threads : filter[t] # "run"
    BY <1>28 DEF Reap, Goto, PipeEnds
  <2> QED BY <2>1, <1>t DEF TarInv, Busy
<1>29. CASE PressCancel
  BY <1>29, <1>u DEF action, tar, PressCancel
<1>30. CASE CancelStop
  BY <1>30, <1>u DEF action, tar, CancelStop
<1>31. CASE CancelRead
  BY <1>31, <1>u DEF action, tar, CancelRead
<1>32. CASE CancelKill
  BY <1>32, <1>u DEF action, tar, CancelKill
<1>33. CASE CancelPoll
  BY <1>33, <1>u DEF action, tar, CancelPoll
<1>34. CASE RemoveFiles
  BY <1>34, <1>u DEF action, tar, RemoveFiles
<1>35. CASE RemoveFolder
  BY <1>35, <1>u DEF action, tar, RemoveFolder
<1>36. CASE CancelReset
  BY <1>36, <1>u DEF action, tar, CancelReset
<1>37. CASE ChildExits
  BY <1>37, <1>u DEF action, tar, ChildExits
<1>38. CASE Damage
  BY <1>38, <1>u DEF action, tar, Damage
<1>39. ASSUME NEW t \in Threads, CreateTar(t) PROVE TarInv'
  <2>1. PICK v \in {"none", "run"} : filter' = [filter EXCEPT ![t] = v]
    BY <1>39, Zenon DEF CreateTar, Set
  <2>2. /\ UNCHANGED <<apc, todo, child, cnt>> /\ thr' = [thr EXCEPT ![t] = "add"]
        /\ child = "run" /\ thr[t] = "start"
    BY <1>39 DEF CreateTar, Set, action
  <2>3. "add" \in {"add", "wait", "failed", thr[t]} /\ v \in {"none", "run", "ok", "bad"}
    BY <2>1
  <2> QED BY <2>1, <2>2, <2>3, <1>f, <1>t
<1>40. ASSUME NEW t \in Threads, CreateTarFails(t) PROVE TarInv'
  <2>1. /\ UNCHANGED <<apc, todo, child, cnt>> /\ thr' = [thr EXCEPT ![t] = "failed"]
        /\ filter' = filter /\ child = "run" /\ thr[t] # "done"
    BY <1>40 DEF CreateTarFails, Set, action
  <2>2. filter' = [filter EXCEPT ![t] = filter[t]] /\ filter[t] \in {"none", "run", "ok", "bad"}
    BY <2>1, <1>t
  <2>3. "failed" \in {"add", "wait", "failed", thr[t]}
    OBVIOUS
  <2> QED BY <2>1, <2>2, <2>3, <1>f
<1>41. ASSUME NEW t \in Threads, AddFiles(t) PROVE TarInv'
  <2>1. /\ UNCHANGED <<apc, todo, child, cnt>> /\ thr' = [thr EXCEPT ![t] = "wait"]
        /\ filter' = filter /\ child = "run" /\ thr[t] # "done"
    BY <1>41 DEF AddFiles, Set, action
  <2>2. filter' = [filter EXCEPT ![t] = filter[t]] /\ filter[t] \in {"none", "run", "ok", "bad"}
    BY <2>1, <1>t
  <2>3. "wait" \in {"add", "wait", "failed", thr[t]}
    OBVIOUS
  <2> QED BY <2>1, <2>2, <2>3, <1>f
<1>42. ASSUME NEW t \in Threads, AddFilesFails(t) PROVE TarInv'
  <2>1. /\ UNCHANGED <<apc, todo, child, cnt>> /\ thr' = [thr EXCEPT ![t] = "failed"]
        /\ filter' = filter /\ child = "run" /\ thr[t] # "done"
    BY <1>42 DEF AddFilesFails, Set, action
  <2>2. filter' = [filter EXCEPT ![t] = filter[t]] /\ filter[t] \in {"none", "run", "ok", "bad"}
    BY <2>1, <1>t
  <2>3. "failed" \in {"add", "wait", "failed", thr[t]}
    OBVIOUS
  <2> QED BY <2>1, <2>2, <2>3, <1>f
<1>43. ASSUME NEW t \in Threads, CloseTar(t) PROVE TarInv'
  <2>1. /\ UNCHANGED <<apc, todo, child, filter>> /\ child = "run" /\ thr[t] = "wait"
        /\ \E s \in {"failed", "start", "done"} : thr' = [thr EXCEPT ![t] = s]
    BY <1>43, Zenon DEF CloseTar, Set, action
  <2>2. PICK s \in {"failed", "start", "done"} : thr' = [thr EXCEPT ![t] = s]
    BY <2>1
  <2>3. cnt' = cnt \/ (cnt[t] + 1 < part.archives[t] /\ cnt' = [cnt EXCEPT ![t] = cnt[t] + 1])
    BY <1>43, Zenon DEF CloseTar, Set
  <2>4. apc \in Busy /\ t \in DOMAIN part.archives
    BY <2>1 DEF TarInv
  <2>5. part.archives[t] \in 1..100
    BY <2>4, WorkedOn DEF Working
  <2>6. /\ thr' \in [Threads -> {"start", "add", "wait", "done", "failed"}]
        /\ cnt' \in [Threads -> 0..99]
        /\ \A u \in DOMAIN part.archives \cap Threads : cnt'[u] < part.archives[u]
    BY <2>2, <2>3, <2>4, <2>5, <1>t DEF TarInv
  <2>7. \A u \in Threads : thr'[u] # "done" => u \in DOMAIN part.archives
    BY <2>2, <2>4, <1>t DEF TarInv
  <2>8. part' = part
    BY <2>1 DEF part
  <2> QED BY <2>1, <2>4, <2>6, <2>7, <2>8, <1>t DEF TarInv
<1>44. ASSUME NEW t \in Threads, FilterEnds(t) PROVE TarInv'
  <2>1. /\ UNCHANGED <<apc, todo, child, cnt>> /\ thr' = thr
        /\ filter' = [filter EXCEPT ![t] = "ok"]
    BY <1>44 DEF FilterEnds, Set, action
  <2>2. thr' = [thr EXCEPT ![t] = thr[t]] /\ thr[t] \in {"add", "wait", "failed", thr[t]}
    BY <2>1, <1>t
  <2>3. "ok" \in {"none", "run", "ok", "bad"} /\ "ok" # "run"
    OBVIOUS
  <2> QED BY <2>1, <2>2, <2>3, <1>f
<1>45. ASSUME NEW t \in Threads, FilterFails(t) PROVE TarInv'
  <2>1. /\ UNCHANGED <<apc, todo, child, cnt>> /\ thr' = thr
        /\ filter' = [filter EXCEPT ![t] = "bad"]
    BY <1>45 DEF FilterFails, Set, action
  <2>2. thr' = [thr EXCEPT ![t] = thr[t]] /\ thr[t] \in {"add", "wait", "failed", thr[t]}
    BY <2>1, <1>t
  <2>3. "bad" \in {"none", "run", "ok", "bad"} /\ "bad" # "run"
    OBVIOUS
  <2> QED BY <2>1, <2>2, <2>3, <1>f
<1>46. CASE UNCHANGED vars
  BY <1>46, <1>u DEF vars, action, tar
<1> QED BY <1>1, <1>2, <1>3, <1>4, <1>5, <1>6, <1>7, <1>8, <1>9, <1>10, <1>11, <1>12, <1>13,
     <1>14, <1>15, <1>16, <1>17, <1>18, <1>19, <1>19a, <1>20, <1>21, <1>22, <1>23, <1>24,
     <1>25, <1>26, <1>27, <1>28, <1>29, <1>30, <1>31, <1>32, <1>33, <1>34, <1>35, <1>36,
     <1>37, <1>38, <1>39, <1>40, <1>41, <1>42, <1>43, <1>44, <1>45, <1>46, Zenon DEF Next,
     BackupStep, RestoreStep, CancelStep, ThreadStep

TypeInv == Flags /\ apc \in Pcs /\ Controls /\ Counters /\ TodoInv /\ Stores /\ TarInv

LEMMA TypeInvInit == Init => TypeInv
<1> SUFFICES ASSUME Init PROVE TypeInv
  OBVIOUS
<1>1. Flags
  BY Zenon DEF Init, Flags
<1>2. apc \in Pcs
  BY PcMembers DEF Init
<1>3. Controls
  BY DEF Init, Controls
<1>4. Counters
  BY Bounds DEF Init, Counters
<1>5. TodoInv
  BY DEF Init, TodoInv, Working, Busy
<1>6. Stores
  BY DEF Init, Stores, Empty, FileState, DevState
<1>7. TarInv
  BY DEF Init, TarInv, Busy
<1> QED BY <1>1, <1>2, <1>3, <1>4, <1>5, <1>6, <1>7, Zenon DEF TypeInv

LEMMA TypeInvStep == TypeInv /\ [Next]_vars => TypeInv'
  BY FlagsStep, PcStep, ControlsStep, CountersStep, TodoStep, StoresStep, TarStep, Zenon DEF TypeInv

LEMMA TypeInvImplies == TypeInv => TypeOK
<1> SUFFICES ASSUME TypeInv PROVE TypeOK
  OBVIOUS
<1>1. ret \in BOOLEAN /\ own \in BOOLEAN /\ hit \in BOOLEAN /\ folder \in BOOLEAN /\ checked \in BOOLEAN
  BY Zenon DEF TypeInv, Flags
<1>2. apc \in {"idle", "begin", "exited", "crashed"} \cup BackupPc \cup RestorePc
  BY Zenon DEF TypeInv, Pcs
<1>3. /\ thr \in [Threads -> {"start", "add", "wait", "done", "failed"}]
      /\ cnt \in [Threads -> 0..99] /\ filter \in [Threads -> {"none", "run", "ok", "bad"}]
      /\ todo \in Seq(Partitions)
  BY Zenon DEF TypeInv, TarInv, TodoInv
<1> QED BY <1>1, <1>2, <1>3, Zenon DEF TypeInv, Controls, Counters, Stores, DevState, TypeOK

\* The variables have their types: block and archive counters stay in their range, the
\* partition list is never read beyond its end.
THEOREM Types == Spec => []TypeOK
  BY TypeInvInit, TypeInvStep, TypeInvImplies, PTL DEF Spec

-----------------------------------------------------------------------------
(* A cancel                                                                *)

Removing == {"remove", "rmdir", "reset"}

\* A session whose result can still be a success.
InBackup ==
  \/ apc \in {"loop", "mount", "forked", "progress", "digest", "open", "image"}
  \/ apc \in {"verdict", "named"} /\ ret

\* A cancel that is under way when stop_backup is cleared has the folder of an earlier backup.
CancelInv ==
  /\ apc = "begin" => Settled
  /\ cpc \in {"read", "kill", "poll"} => stop_backup = 1
  /\ cpc \in Removing /\ InBackup /\ stop_backup = 0 => ~own

\* Once the signal has met the child the action thread can only reap it and end the session
\* as a failure; the next backup makes a folder of its own.
HitInv ==
  /\ hit => cpc \in {"poll"} \cup Removing
  /\ hit /\ cpc = "poll" =>
       \/ child = "killed"
       \/ child = "none" /\ apc \in {"error", "verdict", "named", "idle"}
  /\ hit /\ own /\ cpc \in Removing =>
       apc \in {"error", "verdict", "named", "idle", "begin", "crashed"} \cup RestorePc

LEMMA CancelInvStep == CancelInv /\ [Next]_vars => CancelInv'
<1> SUFFICES ASSUME CancelInv, [Next]_vars PROVE CancelInv'
  OBVIOUS
<1> USE DEF CancelInv, Settled, Removing
\* a cancel stays where it is
<1>a. CASE /\ UNCHANGED <<cpc, own, stop_backup>> /\ (apc' = "begin" => apc = "begin" \/ Settled)
           /\ InBackup' => InBackup \/ stop_backup # 0
  BY <1>a
<1>1. ASSUME NEW n \in Names, StartBackup(n) PROVE CancelInv'
  BY <1>1, <1>a DEF InBackup, StartBackup, Goto, cancel, shared
<1>2. CASE RunBackup
  BY <1>2 DEF InBackup, RunBackup, cancel
<1>3. CASE RunBackupFails
  BY <1>3 DEF InBackup, RunBackupFails, cancel
<1>4. CASE NextPartition
  BY <1>4, <1>a DEF InBackup, NextPartition, Goto, cancel, shared
<1>5. CASE StopSeen
  BY <1>5, <1>a DEF InBackup, StopSeen, cancel, shared
<1>6. CASE AllSaved
  BY <1>6, <1>a DEF InBackup, AllSaved, cancel, shared
<1>7. CASE Fork
  BY <1>7, <1>a DEF InBackup, Fork, Goto, cancel
<1>8. CASE MountFails
  BY <1>8, <1>a DEF InBackup, MountFails, Goto, cancel, shared
<1>9. CASE ForkFails
  BY <1>9, <1>a DEF InBackup, ForkFails, Goto, cancel
<1>10. CASE ForkReturns
  BY <1>10, <1>a DEF InBackup, ForkReturns, Forked, cancel, shared
<1>11. CASE Reap
  BY <1>11, <1>a DEF InBackup, Reap, Goto, cancel, shared
<1>12. CASE Digest
  BY <1>12, <1>a DEF InBackup, Digest, cancel, shared
<1>13. CASE DigestFails
  BY <1>13, <1>a DEF InBackup, DigestFails, Goto, cancel, shared
<1>14. CASE OpenImage
  BY <1>14, <1>a DEF InBackup, OpenImage, cancel, shared
<1>15. CASE ImageFails
  BY <1>15, <1>a DEF InBackup, ImageFails, Goto, cancel, shared
<1>16. CASE SaveBlock
  BY <1>16, <1>a DEF InBackup, SaveBlock, cancel, shared
<1>17. CASE BackupError
  BY <1>17, <1>a DEF InBackup, BackupError, cancel, shared
<1>18. CASE Verdict
  BY <1>18, <1>a DEF InBackup, Verdict, cancel, shared
<1>19. CASE ResetName
  BY <1>19, <1>a DEF InBackup, ResetName, Goto, cancel, shared
<1>20. CASE RestoreLast
  <2>1. apc' \in {"check", "next"} /\ UNCHANGED <<cpc, own, stop_backup>>
    BY <1>20, Zenon DEF RestoreLast, StartRestore, cancel, shared
  <2> QED BY <2>1, <1>a DEF InBackup
<1>21. CASE RestoreOlder
  <2>1. apc' \in {"check", "next"} /\ UNCHANGED <<cpc, own, stop_backup>>
    BY <1>21, Zenon DEF RestoreOlder, StartRestore, cancel, shared
  <2> QED BY <2>1, <1>a DEF InBackup
<1>22. CASE CheckDigests
  BY <1>22, <1>a DEF InBackup, CheckDigests, Goto, RestoreEnds, cancel, shared
<1>22a. CASE CheckFails
  BY <1>22a, <1>a DEF InBackup, CheckFails, Mishap, Goto, RestoreEnds, cancel, shared, target
<1>23. CASE RestoreNext
  BY <1>23, <1>a DEF InBackup, RestoreNext, cancel, shared
<1>24. CASE AllRestored
  BY <1>24, <1>a DEF InBackup, AllRestored, RestoreEnds, cancel, shared
<1>25. CASE Extract
  BY <1>25, <1>a DEF InBackup, Extract, cancel, shared
<1>26. CASE ExtractFails
  BY <1>26, <1>a DEF InBackup, ExtractFails, RestoreEnds, cancel, shared
<1>27. CASE WriteBlock
  BY <1>27, <1>a DEF InBackup, WriteBlock, RestoreEnds, cancel, shared
<1>28. CASE WriteFails
  BY <1>28, <1>a DEF InBackup, WriteFails, RestoreEnds, cancel, shared
<1>29. CASE PressCancel
  BY <1>29 DEF PressCancel, InBackup, action, shared, BackupPc
<1>30. CASE CancelStop
  BY <1>30 DEF CancelStop, InBackup, action
<1>31. CASE CancelRead
  BY <1>31 DEF CancelRead, InBackup, action, shared, BackupPc
<1>32. CASE CancelKill
  BY <1>32 DEF CancelKill, InBackup, action, shared, BackupPc
<1>33. CASE CancelPoll
  BY <1>33 DEF CancelPoll, InBackup, action, shared, BackupPc
<1>34. CASE RemoveFiles
  BY <1>34 DEF RemoveFiles, InBackup, action, shared, BackupPc
<1>35. CASE RemoveFolder
  BY <1>35 DEF RemoveFolder, InBackup, action, shared, BackupPc
<1>36. CASE CancelReset
  BY <1>36 DEF CancelReset, InBackup, action, shared, BackupPc
<1>37. ASSUME NEW t \in Threads, CreateTar(t) PROVE CancelInv'
  BY <1>37, <1>a DEF InBackup, action, cancel, shared, CreateTar
<1>38. ASSUME NEW t \in Threads, CreateTarFails(t) PROVE CancelInv'
  BY <1>38, <1>a DEF InBackup, action, cancel, shared, CreateTarFails
<1>39. ASSUME NEW t \in Threads, AddFiles(t) PROVE CancelInv'
  BY <1>39, <1>a DEF InBackup, action, cancel, shared, AddFiles
<1>40. ASSUME NEW t \in Threads, AddFilesFails(t) PROVE CancelInv'
  BY <1>40, <1>a DEF InBackup, action, cancel, shared, AddFilesFails
<1>41. ASSUME NEW t \in Threads, CloseTar(t) PROVE CancelInv'
  BY <1>41, <1>a DEF InBackup, action, cancel, shared, CloseTar
<1>42. ASSUME NEW t \in Threads, FilterEnds(t) PROVE CancelInv'
  BY <1>42, <1>a DEF InBackup, action, cancel, shared, FilterEnds
<1>43. ASSUME NEW t \in Threads, FilterFails(t) PROVE CancelInv'
  BY <1>43, <1>a DEF InBackup, action, cancel, shared, FilterFails
<1>44. CASE ChildExits
  BY <1>44, <1>a DEF InBackup, action, cancel, shared, ChildExits
<1>45. CASE Damage
  BY <1>45, <1>a DEF InBackup, action, cancel, shared, Damage
<1>46. CASE UNCHANGED vars
  BY <1>46, <1>a DEF InBackup, vars, action, cancel, shared
<1> QED BY <1>1, <1>2, <1>3, <1>4, <1>5, <1>6, <1>7, <1>8, <1>9, <1>10, <1>11, <1>12, <1>13,
     <1>14, <1>15, <1>16, <1>17, <1>18, <1>19, <1>20, <1>21, <1>22, <1>22a, <1>23, <1>24,
     <1>25, <1>26, <1>27, <1>28, <1>29, <1>30, <1>31, <1>32, <1>33, <1>34, <1>35, <1>36,
     <1>37, <1>38, <1>39, <1>40, <1>41, <1>42, <1>43, <1>44, <1>45, <1>46, Zenon DEF Next,
     BackupStep, RestoreStep, CancelStep, ThreadStep

LEMMA HitInvStep == TypeInv /\ CancelInv /\ HitInv /\ [Next]_vars => HitInv'
<1> SUFFICES ASSUME TypeInv, CancelInv, HitInv, [Next]_vars PROVE HitInv'
  OBVIOUS
<1>h. hit \in BOOLEAN
  BY Zenon DEF TypeInv, Flags
<1>b. child # "none" => apc \in Busy
  BY Zenon DEF TypeInv, TarInv
<1> USE DEF HitInv, Removing
<1>u. CASE UNCHANGED <<cpc, own, hit, apc, child>>
  BY <1>u
\* the action thread works on, and was not stopped
<1>w. CASE /\ UNCHANGED <<cpc, own, hit>> /\ child' = child
           /\ apc \notin {"error", "verdict", "named", "idle", "begin", "crashed"} \cup RestorePc
           /\ child = "none" \/ child = "killed"
  BY <1>w
\* the session ends, or a restore runs
<1>e. CASE /\ UNCHANGED <<cpc, own, hit>> /\ child' = child
           /\ \/ apc' \in {"error", "verdict", "named", "idle"}
              \/ apc' \in {"begin"} \cup RestorePc /\ cpc # "poll"
  BY <1>e
<1>1. ASSUME NEW n \in Names, StartBackup(n) PROVE HitInv'
  BY <1>1, <1>e DEF StartBackup, Goto, cancel, tar, Settled
<1>2. CASE RunBackup
  BY <1>2 DEF RunBackup, cancel, tar, CancelInv, Settled
<1>3. CASE RunBackupFails
  BY <1>3, <1>e DEF RunBackupFails, cancel, tar
<1>4. CASE NextPartition
  <2>1. UNCHANGED <<cpc, own, hit, child>> /\ apc \in {"loop", "mount", "digest", "open", "image"}
    BY <1>4 DEF NextPartition, Goto, cancel, tar
  <2>2. child = "none" /\ apc \notin {"error", "verdict", "named", "idle", "begin", "crashed"} \cup RestorePc
    BY <2>1, <1>b DEF Busy, RestorePc
  <2> QED BY <2>1, <2>2
<1>5. CASE StopSeen
  <2>1. UNCHANGED <<cpc, own, hit, child>> /\ apc \in {"loop", "mount", "digest", "open", "image"}
    BY <1>5 DEF StopSeen, cancel, tar
  <2>2. child = "none" /\ apc \notin {"error", "verdict", "named", "idle", "begin", "crashed"} \cup RestorePc
    BY <2>1, <1>b DEF Busy, RestorePc
  <2> QED BY <2>1, <2>2
<1>6. CASE AllSaved
  <2>1. UNCHANGED <<cpc, own, hit, child>> /\ apc \in {"loop", "mount", "digest", "open", "image"}
    BY <1>6 DEF AllSaved, cancel, tar
  <2>2. child = "none" /\ apc \notin {"error", "verdict", "named", "idle", "begin", "crashed"} \cup RestorePc
    BY <2>1, <1>b DEF Busy, RestorePc
  <2> QED BY <2>1, <2>2
<1>7. CASE Fork
  <2>1. UNCHANGED <<cpc, own, hit>> /\ apc = "mount"
    BY <1>7 DEF Fork, cancel
  <2>2. child = "none" /\ apc \notin {"error", "verdict", "named", "idle", "begin", "crashed"} \cup RestorePc
    BY <2>1, <1>b DEF Busy, RestorePc
  <2> QED BY <2>1, <2>2
<1>8. CASE MountFails
  <2>1. UNCHANGED <<cpc, own, hit, child>> /\ apc \in {"loop", "mount", "digest", "open", "image"}
    BY <1>8 DEF MountFails, Goto, cancel, tar
  <2>2. child = "none" /\ apc \notin {"error", "verdict", "named", "idle", "begin", "crashed"} \cup RestorePc
    BY <2>1, <1>b DEF Busy, RestorePc
  <2> QED BY <2>1, <2>2
<1>9. CASE ForkFails
  <2>1. UNCHANGED <<cpc, own, hit, child>> /\ apc \in {"loop", "mount", "digest", "open", "image"}
    BY <1>9 DEF ForkFails, Goto, cancel, tar
  <2>2. child = "none" /\ apc \notin {"error", "verdict", "named", "idle", "begin", "crashed"} \cup RestorePc
    BY <2>1, <1>b DEF Busy, RestorePc
  <2> QED BY <2>1, <2>2
<1>10. CASE ForkReturns
  <2>1. UNCHANGED <<cpc, own, hit, child>> /\ apc = "forked"
    BY <1>10 DEF ForkReturns, cancel, tar
  <2> QED BY <2>1 DEF RestorePc
<1>11. CASE Reap
  <2>1. /\ UNCHANGED <<cpc, own, hit>> /\ apc = "progress" /\ child' = "none"
        /\ apc' = IF child = "ok" THEN "digest" ELSE "error"
    BY <1>11 DEF Reap, Goto, cancel
  <2> QED BY <2>1 DEF RestorePc
<1>12. CASE Digest
  <2>1. UNCHANGED <<cpc, own, hit, child>> /\ apc \in {"loop", "mount", "digest", "open", "image"}
    BY <1>12 DEF Digest, cancel, tar
  <2>2. child = "none" /\ apc \notin {"error", "verdict", "named", "idle", "begin", "crashed"} \cup RestorePc
    BY <2>1, <1>b DEF Busy, RestorePc
  <2> QED BY <2>1, <2>2
<1>13. CASE DigestFails
  <2>1. UNCHANGED <<cpc, own, hit, child>> /\ apc \in {"loop", "mount", "digest", "open", "image"}
    BY <1>13 DEF DigestFails, Goto, cancel, tar
  <2>2. child = "none" /\ apc \notin {"error", "verdict", "named", "idle", "begin", "crashed"} \cup RestorePc
    BY <2>1, <1>b DEF Busy, RestorePc
  <2> QED BY <2>1, <2>2
<1>14. CASE OpenImage
  <2>1. UNCHANGED <<cpc, own, hit, child>> /\ apc \in {"loop", "mount", "digest", "open", "image"}
    BY <1>14 DEF OpenImage, cancel, tar
  <2>2. child = "none" /\ apc \notin {"error", "verdict", "named", "idle", "begin", "crashed"} \cup RestorePc
    BY <2>1, <1>b DEF Busy, RestorePc
  <2> QED BY <2>1, <2>2
<1>15. CASE ImageFails
  <2>1. UNCHANGED <<cpc, own, hit, child>> /\ apc \in {"loop", "mount", "digest", "open", "image"}
    BY <1>15 DEF ImageFails, Goto, cancel, tar
  <2>2. child = "none" /\ apc \notin {"error", "verdict", "named", "idle", "begin", "crashed"} \cup RestorePc
    BY <2>1, <1>b DEF Busy, RestorePc
  <2> QED BY <2>1, <2>2
<1>16. CASE SaveBlock
  <2>1. UNCHANGED <<cpc, own, hit, child>> /\ apc \in {"loop", "mount", "digest", "open", "image"}
    BY <1>16 DEF SaveBlock, cancel, tar
  <2>2. child = "none" /\ apc \notin {"error", "verdict", "named", "idle", "begin", "crashed"} \cup RestorePc
    BY <2>1, <1>b DEF Busy, RestorePc
  <2> QED BY <2>1, <2>2
<1>17. CASE BackupError
  BY <1>17, <1>e DEF BackupError, cancel, tar
<1>18. CASE Verdict
  BY <1>18, <1>e DEF Verdict, cancel, tar
<1>19. CASE ResetName
  BY <1>19, <1>e DEF ResetName, Goto, cancel, tar
<1>20. CASE RestoreLast
  <2>1. apc' \in {"check", "next"} /\ UNCHANGED <<cpc, own, hit, child>> /\ Settled
    BY <1>20, Zenon DEF RestoreLast, StartRestore, cancel, tar
  <2> QED BY <2>1, <1>e DEF Settled, RestorePc
<1>21. CASE RestoreOlder
  <2>1. apc' \in {"check", "next"} /\ UNCHANGED <<cpc, own, hit, child>> /\ Settled
    BY <1>21, Zenon DEF RestoreOlder, StartRestore, cancel, tar
  <2> QED BY <2>1, <1>e DEF Settled, RestorePc
<1>22. CASE CheckDigests
  <2>1. apc \in RestorePc /\ apc' \in {"idle"} \cup RestorePc /\ UNCHANGED <<cpc, own, hit, child>>
    BY <1>22 DEF CheckDigests, Goto, RestoreEnds, cancel, tar, RestorePc
  <2>2. child = "none" /\ apc \notin {"error", "verdict", "named", "idle", "begin"}
    BY <2>1, <1>b DEF Busy, RestorePc
  <2> QED BY <2>1, <2>2
<1>22a. CASE CheckFails
  <2>1. apc \in RestorePc /\ apc' \in {"idle", "crashed"} \cup RestorePc /\ UNCHANGED <<cpc, own, hit, child>>
    BY <1>22a DEF CheckFails, Mishap, Goto, RestoreEnds, cancel, tar, RestorePc
  <2>2. child = "none" /\ apc \notin {"error", "verdict", "named", "idle", "begin"}
    BY <2>1, <1>b DEF Busy, RestorePc
  <2> QED BY <2>1, <2>2
<1>23. CASE RestoreNext
  <2>1. apc \in RestorePc /\ apc' \in {"idle"} \cup RestorePc /\ UNCHANGED <<cpc, own, hit, child>>
    BY <1>23 DEF RestoreNext, Goto, RestoreEnds, cancel, tar, RestorePc
  <2>2. child = "none" /\ apc \notin {"error", "verdict", "named", "idle", "begin"}
    BY <2>1, <1>b DEF Busy, RestorePc
  <2> QED BY <2>1, <2>2
<1>24. CASE AllRestored
  BY <1>24, <1>e DEF AllRestored, RestoreEnds, cancel, tar
<1>25. CASE Extract
  <2>1. apc \in RestorePc /\ apc' \in {"idle"} \cup RestorePc /\ UNCHANGED <<cpc, own, hit, child>>
    BY <1>25 DEF Extract, Goto, RestoreEnds, cancel, tar, RestorePc
  <2>2. child = "none" /\ apc \notin {"error", "verdict", "named", "idle", "begin"}
    BY <2>1, <1>b DEF Busy, RestorePc
  <2> QED BY <2>1, <2>2
<1>26. CASE ExtractFails
  BY <1>26, <1>e DEF ExtractFails, RestoreEnds, cancel, tar
<1>27. CASE WriteBlock
  <2>1. apc \in RestorePc /\ apc' \in {"idle"} \cup RestorePc /\ UNCHANGED <<cpc, own, hit, child>>
    BY <1>27 DEF WriteBlock, Goto, RestoreEnds, cancel, tar, RestorePc
  <2>2. child = "none" /\ apc \notin {"error", "verdict", "named", "idle", "begin"}
    BY <2>1, <1>b DEF Busy, RestorePc
  <2> QED BY <2>1, <2>2
<1>28. CASE WriteFails
  BY <1>28, <1>e DEF WriteFails, RestoreEnds, cancel, tar
<1>29. CASE PressCancel
  <2>1. UNCHANGED <<apc, child, hit>> /\ cpc \notin {"poll"} \cup Removing
    BY <1>29 DEF PressCancel, action, tar
  <2> QED BY <2>1
<1>30. CASE CancelStop
  <2>1. UNCHANGED <<apc, child, hit>> /\ cpc \notin {"poll"} \cup Removing
    BY <1>30 DEF CancelStop, action, tar
  <2> QED BY <2>1
<1>31. CASE CancelRead
  <2>1. UNCHANGED <<apc, child, hit>> /\ cpc \notin {"poll"} \cup Removing
    BY <1>31 DEF CancelRead, action, tar
  <2> QED BY <2>1
<1>32. CASE CancelKill
  <2>1. cpc = "kill" /\ ~hit /\ cpc' = "poll" /\ apc' = apc
    BY <1>32 DEF CancelKill, action
  <2>2. hit' => child' = "killed"
    BY <1>32, <2>1 DEF CancelKill
  <2> QED BY <2>1, <2>2
<1>33. CASE CancelPoll
  BY <1>33 DEF CancelPoll, Gone, action, tar
<1>34. CASE RemoveFiles
  BY <1>34 DEF RemoveFiles, action, tar
<1>35. CASE RemoveFolder
  BY <1>35 DEF RemoveFolder, action, tar
<1>36. CASE CancelReset
  <2>1. hit' = FALSE
    BY <1>36, Zenon DEF CancelReset
  <2> QED BY <2>1
<1>37. ASSUME NEW t \in Threads, CreateTar(t) PROVE HitInv'
  BY <1>37, <1>u DEF action, cancel, CreateTar
<1>38. ASSUME NEW t \in Threads, CreateTarFails(t) PROVE HitInv'
  BY <1>38, <1>u DEF action, cancel, CreateTarFails
<1>39. ASSUME NEW t \in Threads, AddFiles(t) PROVE HitInv'
  BY <1>39, <1>u DEF action, cancel, AddFiles
<1>40. ASSUME NEW t \in Threads, AddFilesFails(t) PROVE HitInv'
  BY <1>40, <1>u DEF action, cancel, AddFilesFails
<1>41. ASSUME NEW t \in Threads, CloseTar(t) PROVE HitInv'
  BY <1>41, <1>u DEF action, cancel, CloseTar
<1>42. ASSUME NEW t \in Threads, FilterEnds(t) PROVE HitInv'
  BY <1>42, <1>u DEF action, cancel, FilterEnds
<1>43. ASSUME NEW t \in Threads, FilterFails(t) PROVE HitInv'
  BY <1>43, <1>u DEF action, cancel, FilterFails
<1>44. CASE ChildExits
  <2>1. UNCHANGED <<cpc, own, hit, apc>> /\ child = "run"
    BY <1>44 DEF ChildExits, action, cancel
  <2> QED BY <2>1, <1>b DEF Busy, RestorePc
<1>45. CASE Damage
  BY <1>45, <1>u DEF Damage, action, cancel, tar
<1>46. CASE UNCHANGED vars
  BY <1>46, <1>u DEF vars, action, cancel, tar
<1> QED BY <1>1, <1>2, <1>3, <1>4, <1>5, <1>6, <1>7, <1>8, <1>9, <1>10, <1>11, <1>12, <1>13,
     <1>14, <1>15, <1>16, <1>17, <1>18, <1>19, <1>20, <1>21, <1>22, <1>22a, <1>23, <1>24,
     <1>25, <1>26, <1>27, <1>28, <1>29, <1>30, <1>31, <1>32, <1>33, <1>34, <1>35, <1>36,
     <1>37, <1>38, <1>39, <1>40, <1>41, <1>42, <1>43, <1>44, <1>45, <1>46, Zenon DEF Next,
     BackupStep, RestoreStep, CancelStep, ThreadStep

WriterInv == TypeInv /\ CancelInv /\ HitInv

LEMMA WriterInvInit == Init => WriterInv
<1> SUFFICES ASSUME Init PROVE WriterInv
  OBVIOUS
<1>1. TypeInv
  BY TypeInvInit
<1>2. CancelInv
  BY DEF Init, CancelInv, Removing, Settled
<1>3. HitInv
  BY DEF Init, HitInv
<1> QED BY <1>1, <1>2, <1>3 DEF WriterInv

LEMMA WriterInvStep == WriterInv /\ [Next]_vars => WriterInv'
  BY TypeInvStep, CancelInvStep, HitInvStep DEF WriterInv

LEMMA WriterInvImplies == WriterInv => NoWriterInRemoval
<1> SUFFICES ASSUME WriterInv, cpc \in Removing, own, hit
             PROVE  child = "none" /\ \A t \in Threads : filter[t] # "run"
  BY Zenon DEF NoWriterInRemoval, Removing
<1>1. apc \in {"error", "verdict", "named", "idle", "begin", "crashed"} \cup RestorePc
  BY Zenon DEF WriterInv, HitInv
<1>2. apc \notin Busy
  BY <1>1 DEF Busy, RestorePc
<1> QED BY <1>2 DEF WriterInv, TypeInv, TarInv

\* While Cancel_Backup removes the folder of the backup it has stopped, the tar child is gone
\* and no filter it left behind still runs, for any number of archive threads and whatever the
\* action thread does meanwhile, a failed attempt to start the next backup included.
THEOREM NothingWritesInRemoval == Spec => []NoWriterInRemoval
  BY WriterInvInit, WriterInvStep, WriterInvImplies, PTL DEF Spec

-----------------------------------------------------------------------------
(* A restore with its digests checked                                      *)

Sound(p) == \A a \in Numbered(p, src) : src[a] = "full"
Excuse(p) ==
  \E a \in Archives : a[1] = p /\ src[a] # "full" /\ (Part[p].sub \/ a \notin Numbered(p, src))

\* What is still to be restored was looked at; nothing was restored before that.
CheckInv ==
  /\ apc = "check" => \A p \in Partitions : dev[p] = "own"
  /\ checked /\ apc \in {"next", "extract", "write"} =>
       \A i \in DOMAIN todo : Part[todo[i]].sub \/ Sound(todo[i])
  /\ checked => \A p \in Partitions : dev[p] = "bad" => Excuse(p)

\* An archive the extraction does not find is missing, or follows one that is.
LEMMA BadHasCause ==
  ASSUME NEW p \in Partitions, Contents(p) = "bad"
  PROVE  \E a \in Archives : a[1] = p /\ src[a] # "full"
<1>1. PICK a \in Archives : a[1] = p /\ ~(a \in Found(p) /\ src[a] = "full")
  BY DEF Contents
<1>2. CASE src[a] # "full"
  BY <1>1, <1>2
<1>3. CASE a \notin Found(p)
  <2>1. /\ a = <<p, a[2], a[3]>> /\ a[2] \in DOMAIN Part[p].archives
        /\ a[3] \in Nat /\ a[3] < Part[p].archives[a[2]] /\ Part[p].archives[a[2]] \in 1..100
    BY <1>1, ArchiveFacts, PartFacts
  <2>2. CASE \E j \in 0..a[3] : src[<<p, a[2], j>>] = "none"
    <3>1. PICK j \in 0..a[3] : src[<<p, a[2], j>>] = "none"
      BY <2>2
    <3>2. j \in Nat /\ j < Part[p].archives[a[2]]
      BY <2>1, <3>1
    <3>3. <<p, a[2], j>> \in Archives
      BY <2>1, <3>2, IsArchive
    <3> QED BY <3>1, <3>3
  <2>3. CASE \E t \in DOMAIN Part[p].archives : src[<<p, t, 0>>] = "none"
    <3>1. PICK t \in DOMAIN Part[p].archives : src[<<p, t, 0>>] = "none"
      BY <2>3
    <3>2. <<p, t, 0>> \in Archives
      BY PartFacts, IsArchive
    <3> QED BY <3>1, <3>2
  <2> QED BY <1>1, <1>3, <2>2, <2>3 DEF Found
<1> QED BY <1>1, <1>2, <1>3

LEMMA BadIsExcused ==
  ASSUME NEW p \in Partitions, Contents(p) = "bad", Part[p].sub \/ Sound(p)
  PROVE  Excuse(p)
<1>1. PICK a \in Archives : a[1] = p /\ src[a] # "full"
  BY BadHasCause
<1> QED BY <1>1, Zenon DEF Excuse, Sound

LEMMA CheckInvStep == TypeInv /\ CheckInv /\ [Next]_vars => CheckInv'
<1> SUFFICES ASSUME TypeInv, CheckInv, [Next]_vars PROVE CheckInv'
  OBVIOUS
<1>t. TodoInv /\ todo \in Seq(Partitions) /\ dev \in [Partitions -> DevState]
  BY DEF TypeInv, TodoInv, Stores
\* a backup or a cancel: the restore's variables stay
<1>b. CASE apc' \notin RestorePc /\ UNCHANGED target
  <2>1. UNCHANGED <<src, checked, dev>>
    BY <1>b DEF target
  <2> QED BY <1>b, <2>1 DEF CheckInv, Excuse, Numbered, RestorePc
<1>u. CASE UNCHANGED <<apc, todo, target>>
  <2>1. UNCHANGED <<apc, todo, src, checked, dev>>
    BY <1>u DEF target
  <2> QED BY <2>1 DEF CheckInv, Excuse, Sound, Numbered
\* the restore goes on; the partition it works on may get new contents
<1> DEFINE Goes(v) ==
      /\ apc \in {"next", "extract", "write"} /\ UNCHANGED <<src, checked>>
      /\ dev' \in {dev, [dev EXCEPT ![Head(todo)] = v]}
      /\ v # "bad" \/ (apc \in {"extract", "write"} /\ v = Contents(Head(todo)))
      /\ apc' = "idle" \/ (apc' \in {"next", "extract", "write"} /\ todo' \in {todo, Tail(todo)})
      /\ apc \in {"extract", "write"} \/ todo' = todo
<1>r. ASSUME NEW v, Goes(v) PROVE CheckInv'
  <2>1. ASSUME checked PROVE \A p \in Partitions : dev'[p] = "bad" => Excuse(p)
    <3> SUFFICES ASSUME NEW p \in Partitions, dev'[p] = "bad" PROVE Excuse(p)
      OBVIOUS
    <3>1. CASE dev[p] = "bad"
      BY <2>1, <3>1 DEF CheckInv
    <3>2. CASE dev[p] # "bad"
      <4>1. p = Head(todo) /\ v = "bad"
        BY <3>2, <1>r, <1>t
      <4>2. apc \in {"extract", "write"} /\ Contents(p) = "bad"
        BY <4>1, <1>r
      <4>3. todo # <<>>
        BY <4>2, <1>t DEF TodoInv
      <4>4. Part[p].sub \/ Sound(p)
        BY <4>1, <4>2, <4>3, <2>1, <1>t DEF CheckInv
      <4> QED BY <4>2, <4>4, BadIsExcused
    <3> QED BY <3>1, <3>2
  <2>2. ASSUME checked, apc' \in {"next", "extract", "write"}, NEW i \in DOMAIN todo'
        PROVE  Part[todo'[i]].sub \/ Sound(todo'[i])
    <3>1. CASE todo' = todo
      BY <3>1, <2>2, <1>r DEF CheckInv
    <3>2. CASE todo' = Tail(todo) /\ apc \in {"extract", "write"}
      <4>1. todo # <<>>
        BY <3>2, <1>t DEF TodoInv
      <4>2. i + 1 \in DOMAIN todo /\ todo'[i] = todo[i + 1]
        BY <3>2, <4>1, <2>2, <1>t
      <4> QED BY <4>2, <2>2, <1>r DEF CheckInv
    <3> QED BY <3>1, <3>2, <2>2, <1>r
  <2>3. \A p : (Excuse(p) => Excuse(p)') /\ (Sound(p) => Sound(p)')
    BY <1>r DEF Excuse, Sound, Numbered
  <2> QED BY <2>1, <2>2, <2>3, <1>r DEF CheckInv
<1> HIDE DEF Goes
<1>1. ASSUME NEW n \in Names, StartBackup(n) PROVE CheckInv'
  BY <1>1, <1>b DEF RestorePc, StartBackup, Goto
<1>2. CASE RunBackup
  BY <1>2, <1>b DEF RestorePc, RunBackup
<1>3. CASE RunBackupFails
  BY <1>3, <1>b DEF RestorePc, RunBackupFails
<1>4. CASE NextPartition
  BY <1>4, <1>b DEF RestorePc, NextPartition, Goto
<1>5. CASE StopSeen
  BY <1>5, <1>b DEF RestorePc, StopSeen
<1>6. CASE AllSaved
  BY <1>6, <1>b DEF RestorePc, AllSaved
<1>7. CASE Fork
  BY <1>7, <1>b DEF RestorePc, Fork, Goto
<1>8. CASE MountFails
  BY <1>8, <1>b DEF RestorePc, MountFails, Goto
<1>9. CASE ForkFails
  BY <1>9, <1>b DEF RestorePc, ForkFails, Goto
<1>10. CASE ForkReturns
  BY <1>10, <1>b DEF RestorePc, ForkReturns, Forked
<1>11. CASE Reap
  BY <1>11, <1>b DEF RestorePc, Reap, Goto
<1>12. CASE Digest
  BY <1>12, <1>b DEF RestorePc, Digest
<1>13. CASE DigestFails
  BY <1>13, <1>b DEF RestorePc, DigestFails, Goto
<1>14. CASE OpenImage
  BY <1>14, <1>b DEF RestorePc, OpenImage
<1>15. CASE ImageFails
  BY <1>15, <1>b DEF RestorePc, ImageFails, Goto
<1>16. CASE SaveBlock
  BY <1>16, <1>b DEF RestorePc, SaveBlock
<1>17. CASE BackupError
  BY <1>17, <1>b DEF RestorePc, BackupError
<1>18. CASE Verdict
  BY <1>18, <1>b DEF RestorePc, Verdict
<1>19. CASE ResetName
  BY <1>19, <1>b DEF RestorePc, ResetName, Goto
<1>20. CASE RestoreLast
  <2>1. checked' = FALSE /\ dev' = [p \in Partitions |-> "own"]
    BY <1>20, Zenon DEF RestoreLast, StartRestore
  <2> QED BY <2>1 DEF CheckInv
<1>21. CASE RestoreOlder
  <2>1. checked' = FALSE /\ dev' = [p \in Partitions |-> "own"]
    BY <1>21, Zenon DEF RestoreOlder, StartRestore
  <2> QED BY <2>1 DEF CheckInv
<1>22. CASE CheckDigests
  <2>1. apc = "check" /\ UNCHANGED <<src, dev>> /\ \A p \in Partitions : dev[p] # "bad"
    BY <1>22 DEF CheckDigests, CheckInv
  <2>2. CASE \A a \in Checked : a \in signed /\ src[a] = "full"
    <3>1. apc' = "next" /\ todo' = todo
      BY <1>22, <2>2 DEF CheckDigests, Goto
    <3>2. ASSUME NEW i \in DOMAIN todo, ~Part[todo[i]].sub PROVE Sound(todo[i])
      <4>1. todo[i] \in Partitions
        BY <1>t
      <4>2. Numbered(todo[i], src) \subseteq Checked
        BY <4>1, <3>2 DEF Checked
      <4> QED BY <4>2, <2>2 DEF Sound
    <3>3. \A p : Sound(p) => Sound(p)'
      BY <2>1 DEF Sound, Numbered
    <3> QED BY <2>1, <3>1, <3>2, <3>3 DEF CheckInv
  <2>3. CASE ~ \A a \in Checked : a \in signed /\ src[a] = "full"
    <3>1. apc' = "idle"
      BY <1>22, <2>3 DEF CheckDigests, RestoreEnds
    <3> QED BY <2>1, <3>1 DEF CheckInv
  <2> QED BY <2>2, <2>3
<1>22a. CASE CheckFails
  BY <1>22a, <1>b DEF CheckFails, Goto, RestoreEnds, RestorePc, target
<1>23. CASE RestoreNext
  <2>1. dev' \in {dev, [dev EXCEPT ![Head(todo)] = "wiped"]}
    BY <1>23, Zenon DEF RestoreNext
  <2>2. "wiped" # "bad"
    OBVIOUS
  <2>3. Goes("wiped")
    BY <1>23, <2>1, <2>2 DEF RestoreNext, Goes
  <2> QED BY <2>3, <1>r
<1>24. CASE AllRestored
  BY <1>24, <1>b DEF AllRestored, RestoreEnds, RestorePc
<1>25. CASE Extract
  <2>1. dev' = [dev EXCEPT ![Head(todo)] = Contents(Head(todo))]
    BY <1>25 DEF Extract
  <2>2. Goes(Contents(Head(todo)))
    BY <1>25, <2>1 DEF Extract, Goes
  <2> QED BY <2>2, <1>r
<1>26. CASE ExtractFails
  <2>1. dev' = [dev EXCEPT ![Head(todo)] = "partial"] /\ "partial" # "bad"
    BY <1>26 DEF ExtractFails
  <2>2. Goes("partial")
    BY <1>26, <2>1 DEF ExtractFails, RestoreEnds, Goes
  <2> QED BY <2>2, <1>r
<1>27. CASE WriteBlock
  <2>1. PICK v : /\ dev' = [dev EXCEPT ![Head(todo)] = v]
                 /\ v = "partial" \/ v = Contents(Head(todo))
    BY <1>27, Zenon DEF WriteBlock
  <2>2. apc' = "idle" \/ (apc' \in {"next", "extract", "write"} /\ todo' \in {todo, Tail(todo)})
    BY <1>27, Zenon DEF WriteBlock, RestoreEnds
  <2>3. apc = "write" /\ UNCHANGED <<src, checked>>
    BY <1>27 DEF WriteBlock
  <2>4. "partial" # "bad"
    OBVIOUS
  <2>5. Goes(v)
    BY <2>1, <2>2, <2>3, <2>4 DEF Goes
  <2> QED BY <2>5, <1>r
<1>28. CASE WriteFails
  BY <1>28, <1>b DEF WriteFails, RestoreEnds, RestorePc
<1>29. CASE PressCancel
  BY <1>29, <1>u DEF action, PressCancel
<1>30. CASE CancelStop
  BY <1>30, <1>u DEF action, CancelStop
<1>31. CASE CancelRead
  BY <1>31, <1>u DEF action, CancelRead
<1>32. CASE CancelKill
  BY <1>32, <1>u DEF action, CancelKill
<1>33. CASE CancelPoll
  BY <1>33, <1>u DEF action, CancelPoll
<1>34. CASE RemoveFiles
  BY <1>34, <1>u DEF action, RemoveFiles
<1>35. CASE RemoveFolder
  BY <1>35, <1>u DEF action, RemoveFolder
<1>36. CASE CancelReset
  BY <1>36, <1>u DEF action, CancelReset
<1>37. ASSUME NEW t \in Threads, CreateTar(t) PROVE CheckInv'
  BY <1>37, <1>u DEF action, CreateTar
<1>38. ASSUME NEW t \in Threads, CreateTarFails(t) PROVE CheckInv'
  BY <1>38, <1>u DEF action, CreateTarFails
<1>39. ASSUME NEW t \in Threads, AddFiles(t) PROVE CheckInv'
  BY <1>39, <1>u DEF action, AddFiles
<1>40. ASSUME NEW t \in Threads, AddFilesFails(t) PROVE CheckInv'
  BY <1>40, <1>u DEF action, AddFilesFails
<1>41. ASSUME NEW t \in Threads, CloseTar(t) PROVE CheckInv'
  BY <1>41, <1>u DEF action, CloseTar
<1>42. ASSUME NEW t \in Threads, FilterEnds(t) PROVE CheckInv'
  BY <1>42, <1>u DEF action, FilterEnds
<1>43. ASSUME NEW t \in Threads, FilterFails(t) PROVE CheckInv'
  BY <1>43, <1>u DEF action, FilterFails
<1>44. CASE ChildExits
  BY <1>44, <1>u DEF action, ChildExits
<1>45. CASE Damage
  BY <1>45, <1>u DEF action, Damage
<1>46. CASE UNCHANGED vars
  BY <1>46, <1>u DEF vars, action
<1> QED BY <1>1, <1>2, <1>3, <1>4, <1>5, <1>6, <1>7, <1>8, <1>9, <1>10, <1>11, <1>12, <1>13,
     <1>14, <1>15, <1>16, <1>17, <1>18, <1>19, <1>20, <1>21, <1>22, <1>22a, <1>23, <1>24,
     <1>25, <1>26, <1>27, <1>28, <1>29, <1>30, <1>31, <1>32, <1>33, <1>34, <1>35, <1>36,
     <1>37, <1>38, <1>39, <1>40, <1>41, <1>42, <1>43, <1>44, <1>45, <1>46, Zenon DEF Next,
     BackupStep, RestoreStep, CancelStep, ThreadStep

LEMMA CheckInvInit == Init => CheckInv
  BY DEF Init, CheckInv

LEMMA CheckInvImplies == CheckInv => CheckedIsSound
  BY Zenon DEF CheckInv, Excuse, CheckedIsSound

\* When Run_Restore has checked the digests, a partition can end up with wrong contents only
\* through an archive that Check_Digest does not look at, for any way the backup was split,
\* damaged or cut short.
THEOREM ChecksAreSound == Spec => []CheckedIsSound
  BY TypeInvInit, TypeInvStep, CheckInvInit, CheckInvStep, CheckInvImplies, PTL DEF Spec

-----------------------------------------------------------------------------
(* A backup reported as a success is whole                                 *)

Written(p)   == \A a \in Archives : a[1] = p => file[a] = "full"
WholePart(p) == \A a \in Archives : a[1] = p => Saved(a)

\* The archives a thread has closed are whole; one that goes through a filter is whole when the
\* filter has ended well, and a thread that waits for its filter has one.
ThreadOK(t) ==
  /\ \A j \in Nat : j < cnt[t] => file[<<Head(todo), t, j>>] = "full"
  /\ thr[t] = "done" => \A j \in Nat : j < part.archives[t] => file[<<Head(todo), t, j>>] = "full"
  /\ part.filter =>
       /\ thr[t] \in {"add", "wait"} /\ filter[t] = "run" => file[archive(t)] = "part"
       /\ child = "run" /\ thr[t] = "add" => filter[t] \in {"run", "bad"}
       /\ thr[t] = "wait" => filter[t] # "none" /\ (filter[t] = "ok" => file[archive(t)] = "full")

ThreadInv ==
  /\ \A t \in DOMAIN part.archives : ThreadOK(t)
  /\ child = "ok" => \A t \in Threads : thr[t] = "done"

\* What is known of the partition that is being saved, while nothing has been cancelled.
Saving ==
  /\ apc = "digest" => Written(Head(todo))
  /\ apc = "image" => file[<<Head(todo), 0, 0>>] = "part"
  /\ apc \in {"forked", "progress"} => ThreadInv

FileInv == stop_backup = 0 => Saving

\* A thread is not disturbed by a step of another.
LEMMA OtherThread ==
  ASSUME TypeInv, apc \in Busy, NEW t, NEW u \in DOMAIN part.archives, u # t, ThreadOK(u),
         UNCHANGED <<todo, child>>, thr'[u] = thr[u], cnt'[u] = cnt[u], filter'[u] = filter[u],
         \A a \in Archives : a[2] # t => file'[a] = file[a]
  PROVE  ThreadOK(u)'
<1>1. /\ Head(todo) \in Partitions /\ part = Part[Head(todo)] /\ u \in Threads
      /\ part.archives[u] \in 1..100
  BY WorkedOn DEF TypeInv, Working
<1>2. cnt[u] \in Nat /\ cnt[u] < part.archives[u]
  BY <1>1 DEF TypeInv, TarInv
<1>3. ASSUME NEW j \in Nat, j < part.archives[u]
      PROVE  file'[<<Head(todo), u, j>>] = file[<<Head(todo), u, j>>]
  <2>1. <<Head(todo), u, j>> \in Archives
    BY <1>1, <1>3, IsArchive
  <2>2. <<Head(todo), u, j>>[2] = u
    OBVIOUS
  <2> QED BY <2>1, <2>2
<1>4. file'[<<Head(todo), u, cnt[u]>>] = file[<<Head(todo), u, cnt[u]>>]
  BY <1>2, <1>3
<1>5. part' = part /\ todo' = todo /\ archive(u)' = archive(u)
  BY DEF part, archive
<1>6. \A j \in Nat : j < cnt[u] => file'[<<Head(todo), u, j>>] = "full"
  BY <1>1, <1>2, <1>3 DEF ThreadOK
<1>7. thr[u] = "done" => \A j \in Nat : j < part.archives[u] => file'[<<Head(todo), u, j>>] = "full"
  BY <1>3 DEF ThreadOK
<1> QED BY <1>4, <1>5, <1>6, <1>7 DEF ThreadOK, archive

\* What a step of thread t needs to know.
LEMMA OfThread ==
  ASSUME TypeInv, apc \in Busy, NEW t \in DOMAIN part.archives
  PROVE  /\ Head(todo) \in Partitions /\ part = Part[Head(todo)] /\ t \in Threads
         /\ part.archives[t] \in 1..100 /\ cnt[t] \in Nat /\ cnt[t] < part.archives[t]
         /\ archive(t) \in Archives /\ archive(t) = <<Head(todo), t, cnt[t]>>
         /\ \A j \in Nat : j < part.archives[t] => <<Head(todo), t, j>> \in Archives
         /\ thr \in [Threads -> {"start", "add", "wait", "done", "failed"}]
         /\ cnt \in [Threads -> 0..99] /\ filter \in [Threads -> {"none", "run", "ok", "bad"}]
         /\ file \in [Archives -> FileState]
<1>1. /\ Head(todo) \in Partitions /\ part = Part[Head(todo)] /\ t \in Threads
      /\ part.archives[t] \in 1..100
  BY WorkedOn DEF TypeInv, Working
<1>2. /\ thr \in [Threads -> {"start", "add", "wait", "done", "failed"}]
      /\ cnt \in [Threads -> 0..99] /\ filter \in [Threads -> {"none", "run", "ok", "bad"}]
      /\ file \in [Archives -> FileState]
  BY Zenon DEF TypeInv, TarInv, Stores
<1>3. cnt[t] \in Nat /\ cnt[t] < part.archives[t]
  BY <1>1, <1>2 DEF TypeInv, TarInv
<1>4. \A j \in Nat : j < part.archives[t] => <<Head(todo), t, j>> \in Archives
  BY <1>1, IsArchive
<1> QED BY <1>1, <1>2, <1>3, <1>4 DEF archive

LEMMA ThreadSteps ==
  ASSUME TypeInv, ThreadInv, apc \in {"forked", "progress"}, NEW t \in Threads,
         ThreadStep(t) \/ FilterEnds(t) \/ FilterFails(t)
  PROVE  ThreadInv'
<1>b. apc \in Busy
  BY DEF Busy
<1>t. /\ thr \in [Threads -> {"start", "add", "wait", "done", "failed"}]
      /\ cnt \in [Threads -> 0..99] /\ filter \in [Threads -> {"none", "run", "ok", "bad"}]
      /\ file \in [Archives -> FileState]
  BY Zenon DEF TypeInv, TarInv, Stores
<1>u. UNCHANGED <<todo, child>> /\ part' = part
  BY DEF ThreadStep, CreateTar, CreateTarFails, AddFiles, AddFilesFails, CloseTar, FilterEnds,
         FilterFails, action, part
<1>o. /\ \A u \in Threads : u # t => thr'[u] = thr[u] /\ cnt'[u] = cnt[u] /\ filter'[u] = filter[u]
      /\ \E v : file' \in {file, [file EXCEPT ![archive(t)] = v]}
  <2>1. CASE CreateTar(t)
    <3>1. \A u \in Threads : u # t => thr'[u] = thr[u] /\ cnt'[u] = cnt[u] /\ filter'[u] = filter[u]
      BY <2>1, <1>t DEF CreateTar, Set
    <3>2. \E v : file' \in {file, [file EXCEPT ![archive(t)] = v]}
      BY <2>1, Zenon DEF CreateTar, store
    <3> QED BY <3>1, <3>2
  <2>2. CASE CreateTarFails(t)
    <3>1. \A u \in Threads : u # t => thr'[u] = thr[u] /\ cnt'[u] = cnt[u] /\ filter'[u] = filter[u]
      BY <2>2, <1>t DEF CreateTarFails, Set
    <3>2. \E v : file' \in {file, [file EXCEPT ![archive(t)] = v]}
      BY <2>2, Zenon DEF CreateTarFails, store
    <3> QED BY <3>1, <3>2
  <2>3. CASE AddFiles(t)
    <3>1. \A u \in Threads : u # t => thr'[u] = thr[u] /\ cnt'[u] = cnt[u] /\ filter'[u] = filter[u]
      BY <2>3, <1>t DEF AddFiles, Set
    <3>2. \E v : file' \in {file, [file EXCEPT ![archive(t)] = v]}
      BY <2>3, Zenon DEF AddFiles, store
    <3> QED BY <3>1, <3>2
  <2>4. CASE AddFilesFails(t)
    <3>1. \A u \in Threads : u # t => thr'[u] = thr[u] /\ cnt'[u] = cnt[u] /\ filter'[u] = filter[u]
      BY <2>4, <1>t DEF AddFilesFails, Set
    <3>2. \E v : file' \in {file, [file EXCEPT ![archive(t)] = v]}
      BY <2>4, Zenon DEF AddFilesFails, store
    <3> QED BY <3>1, <3>2
  <2>5. CASE CloseTar(t)
    <3>1. \A u \in Threads : u # t => thr'[u] = thr[u] /\ cnt'[u] = cnt[u] /\ filter'[u] = filter[u]
      BY <2>5, <1>t DEF CloseTar, Set
    <3>2. \E v : file' \in {file, [file EXCEPT ![archive(t)] = v]}
      BY <2>5, Zenon DEF CloseTar, store
    <3> QED BY <3>1, <3>2
  <2>6. CASE FilterEnds(t)
    <3>1. \A u \in Threads : u # t => thr'[u] = thr[u] /\ cnt'[u] = cnt[u] /\ filter'[u] = filter[u]
      BY <2>6, <1>t DEF FilterEnds, Set
    <3>2. \E v : file' \in {file, [file EXCEPT ![archive(t)] = v]}
      BY <2>6, Zenon DEF FilterEnds, store
    <3> QED BY <3>1, <3>2
  <2>7. CASE FilterFails(t)
    <3>1. \A u \in Threads : u # t => thr'[u] = thr[u] /\ cnt'[u] = cnt[u] /\ filter'[u] = filter[u]
      BY <2>7, <1>t DEF FilterFails, Set
    <3>2. \E v : file' \in {file, [file EXCEPT ![archive(t)] = v]}
      BY <2>7, Zenon DEF FilterFails, store
    <3> QED BY <3>1, <3>2
  <2> QED BY <2>1, <2>2, <2>3, <2>4, <2>5, <2>6, <2>7 DEF ThreadStep
<1>f. \A a \in Archives : a[2] # t => file'[a] = file[a]
  <2>1. PICK v : file' \in {file, [file EXCEPT ![archive(t)] = v]}
    BY <1>o
  <2>2. archive(t)[2] = t
    BY DEF archive
  <2> QED BY <2>1, <2>2, <1>t
<1>1. ASSUME NEW u \in DOMAIN part.archives, u # t PROVE ThreadOK(u)'
  <2>1. u \in Threads
    BY <1>b, OfThread
  <2> QED BY <1>1, <2>1, <1>b, <1>u, <1>o, <1>f, OtherThread DEF ThreadInv
<1>2. ASSUME t \in DOMAIN part.archives PROVE ThreadOK(t)'
  <2> DEFINE p == Head(todo)
             a == <<p, t, cnt[t]>>
  <2>1. /\ part.archives[t] \in 1..100 /\ cnt[t] \in Nat /\ cnt[t] < part.archives[t]
        /\ a \in Archives /\ archive(t) = a
        /\ \A j \in Nat : j < part.archives[t] => <<p, t, j>> \in Archives
    BY <1>2, <1>b, OfThread
  <2>2. ThreadOK(t)
    BY <1>2 DEF ThreadInv
  <2>3. /\ \A j \in Nat : j < cnt[t] => file[<<p, t, j>>] = "full"
        /\ thr[t] = "done" => \A j \in Nat : j < part.archives[t] => file[<<p, t, j>>] = "full"
        /\ part.filter =>
             /\ thr[t] \in {"add", "wait"} /\ filter[t] = "run" => file[a] = "part"
             /\ child = "run" /\ thr[t] = "add" => filter[t] \in {"run", "bad"}
             /\ thr[t] = "wait" => filter[t] # "none" /\ (filter[t] = "ok" => file[a] = "full")
    BY <2>1, <2>2 DEF ThreadOK
  <2>4. SUFFICES
        /\ \A j \in Nat : j < cnt'[t] => file'[<<p, t, j>>] = "full"
        /\ thr'[t] = "done" => \A j \in Nat : j < part.archives[t] => file'[<<p, t, j>>] = "full"
        /\ part.filter =>
             /\ thr'[t] \in {"add", "wait"} /\ filter'[t] = "run" => file'[<<p, t, cnt'[t]>>] = "part"
             /\ child = "run" /\ thr'[t] = "add" => filter'[t] \in {"run", "bad"}
             /\ thr'[t] = "wait" =>
                  filter'[t] # "none" /\ (filter'[t] = "ok" => file'[<<p, t, cnt'[t]>>] = "full")
    BY <1>u DEF ThreadOK, archive
  \* the archives before the current one stay
  <2>5. \A j \in Nat : j < part.archives[t] /\ j # cnt[t] => file'[<<p, t, j>>] = file[<<p, t, j>>]
    <3>1. PICK v : file' \in {file, [file EXCEPT ![a] = v]}
      BY <1>o, <2>1
    <3> QED BY <3>1, <2>1, <1>t
  <2>6. CASE CreateTar(t)
    <3>1. /\ thr'[t] = "add" /\ cnt' = cnt /\ filter'[t] = IF part.filter THEN "run" ELSE "none"
          /\ file'[a] = "part"
      BY <2>6, <2>1, <1>t DEF CreateTar, Set
    <3> QED BY <3>1, <2>1, <2>3, <2>5
  <2>7. CASE CreateTarFails(t)
    <3>1. thr'[t] = "failed" /\ cnt' = cnt /\ file' = file
      BY <2>7, <1>t DEF CreateTarFails, Set, store
    <3> QED BY <3>1, <2>3
  <2>8. CASE AddFiles(t)
    <3>1. /\ thr'[t] = "wait" /\ cnt' = cnt /\ file' = file /\ filter' = filter
          /\ child = "run" /\ thr[t] = "add" /\ filter[t] # "bad"
      BY <2>8, <1>t DEF AddFiles, Set, store
    <3> QED BY <3>1, <2>3
  <2>9. CASE AddFilesFails(t)
    <3>1. thr'[t] = "failed" /\ cnt' = cnt /\ file' = file
      BY <2>9, <1>t DEF AddFilesFails, Set, store
    <3> QED BY <3>1, <2>3
  <2>10. CASE FilterEnds(t)
    <3>1. /\ thr' = thr /\ cnt' = cnt /\ filter'[t] = "ok" /\ filter[t] = "run"
          /\ thr[t] = "wait" \/ child # "run"
      BY <2>10, <1>t DEF FilterEnds, Set
    <3>2. file' = IF thr[t] = "wait" /\ file[a] = "part" THEN [file EXCEPT ![a] = "full"] ELSE file
      BY <2>10, <2>1 DEF FilterEnds
    <3>3. thr[t] # "wait" => file' = file
      BY <3>2
    <3>4. part.filter /\ thr[t] = "wait" => file'[a] = "full"
      BY <3>1, <3>2, <2>1, <2>3, <1>t
    <3> QED BY <3>1, <3>3, <3>4, <2>1, <2>3, <2>5
  <2>11. CASE FilterFails(t)
    <3>1. thr' = thr /\ cnt' = cnt /\ filter'[t] = "bad" /\ filter[t] = "run" /\ file' = file
      BY <2>11, <1>t DEF FilterFails, Set, store
    <3> QED BY <3>1, <2>1, <2>3
  <2>12. CASE CloseTar(t)
    <3>1. /\ child = "run" /\ thr[t] = "wait" /\ filter[t] # "run" /\ filter' = filter
          /\ file' = IF ClosedWell(t) /\ ~part.filter THEN [file EXCEPT ![a] = "full"] ELSE file
      BY <2>12, <2>1 DEF CloseTar
    <3>2. CASE ~ClosedWell(t)
      <4>1. thr'[t] = "failed" /\ cnt' = cnt /\ file' = file
        BY <2>12, <3>1, <3>2, <1>t DEF CloseTar, Set
      <4> QED BY <4>1, <2>3
    <3>3. CASE ClosedWell(t)
      <4>1. filter[t] # "bad" /\ filter[t] \in {"none", "run", "ok", "bad"}
        BY <3>3, <1>t DEF ClosedWell
      <4>2. file'[a] = "full"
        BY <3>1, <3>3, <4>1, <2>1, <2>3, <1>t
      <4>3. CASE cnt[t] + 1 < part.archives[t]
        <5>1. thr'[t] = "start" /\ cnt'[t] = cnt[t] + 1
          BY <2>12, <3>3, <4>3, <1>t DEF CloseTar, Set
        <5>2. ASSUME NEW j \in Nat, j < cnt[t] + 1 PROVE file'[<<p, t, j>>] = "full"
          <6>1. CASE j = cnt[t]
            BY <6>1, <4>2
          <6>2. CASE j < cnt[t]
            BY <6>2, <2>1, <2>3, <2>5
          <6> QED BY <5>2, <6>1, <6>2, <2>1
        <5> QED BY <5>1, <5>2
      <4>4. CASE ~(cnt[t] + 1 < part.archives[t])
        <5>1. thr'[t] = "done" /\ cnt' = cnt
          BY <2>12, <3>3, <4>4, <1>t DEF CloseTar, Set
        <5>2. ASSUME NEW j \in Nat, j < part.archives[t] PROVE file'[<<p, t, j>>] = "full"
          <6>1. CASE j = cnt[t]
            BY <6>1, <4>2
          <6>2. CASE j < cnt[t]
            BY <6>2, <2>1, <2>3, <2>5
          <6> QED BY <5>2, <6>1, <6>2, <4>4, <2>1
        <5> QED BY <5>1, <5>2, <2>1
      <4> QED BY <4>3, <4>4
    <3> QED BY <3>2, <3>3
  <2> QED BY <2>6, <2>7, <2>8, <2>9, <2>10, <2>11, <2>12 DEF ThreadStep
<1>3. child' = "ok" => \A u \in Threads : thr'[u] = "done"
  <2>1. CASE child = "run"
    BY <2>1, <1>u
  <2>2. CASE child # "run"
    <3>1. thr' = thr
      BY <2>2 DEF ThreadStep, CreateTar, CreateTarFails, AddFiles, AddFilesFails, CloseTar,
                  FilterEnds, FilterFails
    <3> QED BY <3>1, <1>u DEF ThreadInv
  <2> QED BY <2>1, <2>2
<1> QED BY <1>1, <1>2, <1>3, <1>u DEF ThreadInv

LEMMA FileInvStep == TypeInv /\ CancelInv /\ FileInv /\ [Next]_vars => FileInv'
<1> SUFFICES ASSUME TypeInv, CancelInv, FileInv, [Next]_vars, stop_backup' = 0
             PROVE  Saving'
  BY DEF FileInv
<1> USE DEF Saving
<1>t. /\ thr \in [Threads -> {"start", "add", "wait", "done", "failed"}]
      /\ cnt \in [Threads -> 0..99] /\ filter \in [Threads -> {"none", "run", "ok", "bad"}]
      /\ file \in [Archives -> FileState]
  BY Zenon DEF TypeInv, TarInv, Stores
<1>q. CASE apc' \notin {"digest", "image", "forked", "progress"}
  BY <1>q
<1>s. CASE UNCHANGED <<apc, todo, child, thr, cnt, filter, file, stop_backup>>
  <2>1. part' = part
    BY <1>s DEF part
  <2>2. \A t : ThreadOK(t)' <=> ThreadOK(t)
    BY <1>s, <2>1 DEF ThreadOK, archive
  <2>3. Written(Head(todo))' <=> Written(Head(todo))
    BY <1>s DEF Written
  <2>4. ThreadInv' <=> ThreadInv
    BY <1>s, <2>1, <2>2 DEF ThreadInv
  <2> QED BY <1>s, <2>3, <2>4 DEF FileInv
<1>1. ASSUME NEW n \in Names, StartBackup(n) PROVE Saving'
  BY <1>1, <1>q DEF StartBackup, Goto
<1>2. CASE RunBackup
  BY <1>2, <1>q DEF RunBackup
<1>3. CASE RunBackupFails
  BY <1>3, <1>q DEF RunBackupFails
<1>4. CASE NextPartition
  BY <1>4, <1>q DEF NextPartition, Goto
<1>5. CASE StopSeen
  BY <1>5, <1>q DEF StopSeen
<1>6. CASE AllSaved
  BY <1>6, <1>q DEF AllSaved
<1>7. CASE Fork
  <2>1. apc = "mount" /\ apc' = "forked" /\ todo' = todo /\ child' = "run"
    BY <1>7 DEF Fork, Goto
  <2>2. /\ thr' = [t \in Threads |-> IF t \in DOMAIN part.archives THEN "start" ELSE "done"]
        /\ cnt' = [t \in Threads |-> 0]
    BY <1>7 DEF Fork
  <2>3. DOMAIN part.archives \subseteq Threads /\ part' = part
    BY <2>1, WorkedOn DEF TypeInv, Working, part
  <2>4. ASSUME NEW t \in DOMAIN part.archives PROVE ThreadOK(t)'
    <3>1. thr'[t] = "start" /\ cnt'[t] = 0
      BY <2>2, <2>3
    <3> QED BY <3>1 DEF ThreadOK
  <2>5. ThreadInv'
    BY <2>1, <2>3, <2>4 DEF ThreadInv
  <2> QED BY <2>1, <2>5
<1>8. CASE MountFails
  BY <1>8, <1>q DEF MountFails, Goto
<1>9. CASE ForkFails
  BY <1>9, <1>q DEF ForkFails, Goto
<1>10. CASE ForkReturns
  <2>1. /\ apc = "forked" /\ apc' \in {"exited", "progress"}
        /\ UNCHANGED <<todo, child, thr, cnt, filter, file, stop_backup>>
    BY <1>10 DEF ForkReturns, Forked, tar, store, shared
  <2>2. ThreadInv
    BY <2>1 DEF FileInv
  <2>3. part' = part
    BY <2>1 DEF part
  <2>4. \A t : ThreadOK(t)' <=> ThreadOK(t)
    BY <2>1, <2>3 DEF ThreadOK, archive
  <2>5. ThreadInv'
    BY <2>1, <2>2, <2>3, <2>4 DEF ThreadInv
  <2> QED BY <2>1, <2>5
<1>11. CASE Reap
  <2>1. /\ apc = "progress" /\ UNCHANGED <<todo, thr, file, stop_backup>>
        /\ apc' = IF child = "ok" THEN "digest" ELSE "error"
    BY <1>11 DEF Reap, Goto, store, shared
  <2>2. CASE child # "ok"
    BY <2>1, <2>2, <1>q
  <2>3. CASE child = "ok"
    <3>1. ThreadInv
      BY <2>1 DEF FileInv
    <3>2. /\ part = Part[Head(todo)] /\ DOMAIN part.archives \subseteq Threads
      BY <2>1, WorkedOn DEF TypeInv, Working, Busy
    <3>3. ASSUME NEW a \in Archives, a[1] = Head(todo) PROVE file[a] = "full"
      <4>1. /\ a = <<Head(todo), a[2], a[3]>> /\ a[2] \in DOMAIN part.archives
            /\ a[3] \in Nat /\ a[3] < part.archives[a[2]]
        BY <3>2, <3>3, ArchiveFacts
      <4>2. thr[a[2]] = "done" /\ ThreadOK(a[2])
        BY <4>1, <3>1, <3>2, <2>3 DEF ThreadInv
      <4>3. file[<<Head(todo), a[2], a[3]>>] = "full"
        BY <4>1, <4>2 DEF ThreadOK
      <4> QED BY <4>1, <4>3
    <3>4. Written(Head(todo))'
      BY <3>3, <2>1 DEF Written
    <3> QED BY <2>1, <2>3, <3>4
  <2> QED BY <2>2, <2>3
<1>12. CASE Digest
  BY <1>12, <1>q DEF Digest
<1>13. CASE DigestFails
  BY <1>13, <1>q DEF DigestFails, Goto
<1>14. CASE OpenImage
  <2>1. apc = "open" /\ apc' = "image" /\ todo' = todo
        /\ file' = [file EXCEPT ![<<Head(todo), 0, 0>>] = "part"]
    BY <1>14 DEF OpenImage
  <2>2. /\ Head(todo) \in Partitions /\ part = Part[Head(todo)] /\ 0 \in DOMAIN part.archives
        /\ part.archives[0] \in 1..100
    BY <2>1, WorkedOn DEF TypeInv, Working
  <2>3. <<Head(todo), 0, 0>> \in Archives
    BY <2>2, IsArchive
  <2> QED BY <2>1, <2>3, <1>t
<1>15. CASE ImageFails
  BY <1>15, <1>q DEF ImageFails, Goto
<1>16. CASE SaveBlock
  <2> DEFINE a == <<Head(todo), 0, 0>>
  <2>1. /\ apc = "image" /\ todo' = todo /\ stop_backup = 0
        /\ file' = IF blk + 1 = ImageBlocks /\ file[a] = "part"
                   THEN [file EXCEPT ![a] = "full"] ELSE file
        /\ apc' = IF stop_backup # 0 THEN "error"
                  ELSE IF blk + 1 = ImageBlocks THEN "digest" ELSE "image"
    BY <1>16 DEF SaveBlock, shared
  <2>2. file[a] = "part"
    BY <2>1 DEF FileInv
  <2>3. CASE blk + 1 # ImageBlocks
    BY <2>1, <2>2, <2>3
  <2>4. CASE blk + 1 = ImageBlocks
    <3>1. /\ Head(todo) \in Partitions /\ part = Part[Head(todo)] /\ ~part.files
      BY <2>1, WorkedOn DEF TypeInv, Working, TodoInv
    <3>2. DOMAIN part.archives = {0} /\ part.archives[0] = 1
      BY <3>1, PartFacts
    <3>3. a \in Archives
      BY <3>1, <3>2, IsArchive
    <3>4. file'[a] = "full"
      BY <2>1, <2>2, <2>4, <3>3, <1>t
    <3>5. ASSUME NEW b \in Archives, b[1] = Head(todo) PROVE file'[b] = "full"
      <4>1. b = <<Head(todo), b[2], b[3]>> /\ b[2] = 0 /\ b[3] = 0
        BY <3>1, <3>2, <3>5, ArchiveFacts
      <4>2. b = a
        BY <4>1
      <4> QED BY <4>2, <3>4
    <3>6. Written(Head(todo))'
      BY <3>5, <2>1 DEF Written
    <3> QED BY <2>1, <2>4, <3>6
  <2> QED BY <2>3, <2>4
<1>17. CASE BackupError
  BY <1>17, <1>q DEF BackupError
<1>18. CASE Verdict
  BY <1>18, <1>q DEF Verdict
<1>19. CASE ResetName
  BY <1>19, <1>q DEF ResetName, Goto
<1>20. CASE RestoreLast
  <2>1. apc' \in {"check", "next"}
    BY <1>20, Zenon DEF RestoreLast, StartRestore
  <2> QED BY <2>1, <1>q
<1>21. CASE RestoreOlder
  <2>1. apc' \in {"check", "next"}
    BY <1>21, Zenon DEF RestoreOlder, StartRestore
  <2> QED BY <2>1, <1>q
<1>22. CASE CheckDigests
  BY <1>22, <1>q DEF CheckDigests, Goto, RestoreEnds
<1>22a. CASE CheckFails
  BY <1>22a, <1>q DEF CheckFails, Mishap, Goto, RestoreEnds, target
<1>23. CASE RestoreNext
  BY <1>23, <1>q DEF RestoreNext
<1>24. CASE AllRestored
  BY <1>24, <1>q DEF AllRestored, RestoreEnds
<1>25. CASE Extract
  BY <1>25, <1>q DEF Extract
<1>26. CASE ExtractFails
  BY <1>26, <1>q DEF ExtractFails, RestoreEnds
<1>27. CASE WriteBlock
  BY <1>27, <1>q DEF WriteBlock, RestoreEnds
<1>28. CASE WriteFails
  BY <1>28, <1>q DEF WriteFails, RestoreEnds
<1>29. CASE PressCancel
  BY <1>29, <1>s DEF PressCancel, action, shared, tar, store
<1>30. CASE CancelStop
  BY <1>30 DEF CancelStop
<1>31. CASE CancelRead
  BY <1>31, <1>s DEF CancelRead, action, shared, tar, store
<1>32. CASE CancelKill
  BY <1>32 DEF CancelKill, CancelInv, shared
<1>33. CASE CancelPoll
  BY <1>33, <1>s DEF CancelPoll, action, shared, tar, store
<1>34. CASE RemoveFiles
  <2>1. cpc \in Removing /\ UNCHANGED <<apc, todo, child, thr, cnt, filter, stop_backup>>
    BY <1>34 DEF RemoveFiles, action, shared, tar, Removing
  <2>2. CASE apc \in {"digest", "image", "forked", "progress"}
    <3>1. ~own
      BY <2>1, <2>2 DEF CancelInv, InBackup
    <3>2. file' = file
      BY <1>34, <3>1, Zenon DEF RemoveFiles
    <3> QED BY <2>1, <3>2, <1>s
  <2>3. CASE apc \notin {"digest", "image", "forked", "progress"}
    BY <2>1, <2>3, <1>q
  <2> QED BY <2>2, <2>3
<1>35. CASE RemoveFolder
  BY <1>35, <1>s DEF RemoveFolder, action, shared, tar
<1>36. CASE CancelReset
  BY <1>36, <1>s DEF CancelReset, action, tar, store
<1>37. ASSUME NEW t \in Threads, CreateTar(t) PROVE Saving'
  <2>1. UNCHANGED <<apc, todo, stop_backup>>
    BY <1>37 DEF CreateTar, action, shared
  <2>2. CASE apc \in {"forked", "progress"}
    <3>1. ThreadInv
      BY <2>1, <2>2 DEF FileInv
    <3>2. ThreadInv'
      BY <1>37, <2>2, <3>1, ThreadSteps DEF ThreadStep
    <3> QED BY <2>1, <2>2, <3>2
  <2>3. CASE apc \notin {"forked", "progress"}
    <3>1. apc \notin {"digest", "image"}
      BY <1>37, <1>t DEF CreateTar, TypeInv, TarInv, Busy
    <3> QED BY <2>1, <2>3, <3>1, <1>q
  <2> QED BY <2>2, <2>3
<1>38. ASSUME NEW t \in Threads, CreateTarFails(t) PROVE Saving'
  <2>1. UNCHANGED <<apc, todo, stop_backup>>
    BY <1>38 DEF CreateTarFails, action, shared
  <2>2. CASE apc \in {"forked", "progress"}
    <3>1. ThreadInv
      BY <2>1, <2>2 DEF FileInv
    <3>2. ThreadInv'
      BY <1>38, <2>2, <3>1, ThreadSteps DEF ThreadStep
    <3> QED BY <2>1, <2>2, <3>2
  <2>3. CASE apc \notin {"forked", "progress"}
    <3>1. apc \notin {"digest", "image"}
      BY <1>38, <1>t DEF CreateTarFails, TypeInv, TarInv, Busy
    <3> QED BY <2>1, <2>3, <3>1, <1>q
  <2> QED BY <2>2, <2>3
<1>39. ASSUME NEW t \in Threads, AddFiles(t) PROVE Saving'
  <2>1. UNCHANGED <<apc, todo, stop_backup>>
    BY <1>39 DEF AddFiles, action, shared
  <2>2. CASE apc \in {"forked", "progress"}
    <3>1. ThreadInv
      BY <2>1, <2>2 DEF FileInv
    <3>2. ThreadInv'
      BY <1>39, <2>2, <3>1, ThreadSteps DEF ThreadStep
    <3> QED BY <2>1, <2>2, <3>2
  <2>3. CASE apc \notin {"forked", "progress"}
    <3>1. apc \notin {"digest", "image"}
      BY <1>39, <1>t DEF AddFiles, TypeInv, TarInv, Busy
    <3> QED BY <2>1, <2>3, <3>1, <1>q
  <2> QED BY <2>2, <2>3
<1>40. ASSUME NEW t \in Threads, AddFilesFails(t) PROVE Saving'
  <2>1. UNCHANGED <<apc, todo, stop_backup>>
    BY <1>40 DEF AddFilesFails, action, shared
  <2>2. CASE apc \in {"forked", "progress"}
    <3>1. ThreadInv
      BY <2>1, <2>2 DEF FileInv
    <3>2. ThreadInv'
      BY <1>40, <2>2, <3>1, ThreadSteps DEF ThreadStep
    <3> QED BY <2>1, <2>2, <3>2
  <2>3. CASE apc \notin {"forked", "progress"}
    <3>1. apc \notin {"digest", "image"}
      BY <1>40, <1>t DEF AddFilesFails, TypeInv, TarInv, Busy
    <3> QED BY <2>1, <2>3, <3>1, <1>q
  <2> QED BY <2>2, <2>3
<1>41. ASSUME NEW t \in Threads, CloseTar(t) PROVE Saving'
  <2>1. UNCHANGED <<apc, todo, stop_backup>>
    BY <1>41 DEF CloseTar, action, shared
  <2>2. CASE apc \in {"forked", "progress"}
    <3>1. ThreadInv
      BY <2>1, <2>2 DEF FileInv
    <3>2. ThreadInv'
      BY <1>41, <2>2, <3>1, ThreadSteps DEF ThreadStep
    <3> QED BY <2>1, <2>2, <3>2
  <2>3. CASE apc \notin {"forked", "progress"}
    <3>1. apc \notin {"digest", "image"}
      BY <1>41, <1>t DEF CloseTar, TypeInv, TarInv, Busy
    <3> QED BY <2>1, <2>3, <3>1, <1>q
  <2> QED BY <2>2, <2>3
<1>42. ASSUME NEW t \in Threads, FilterEnds(t) PROVE Saving'
  <2>1. UNCHANGED <<apc, todo, stop_backup>>
    BY <1>42 DEF FilterEnds, action, shared
  <2>2. CASE apc \in {"forked", "progress"}
    <3>1. ThreadInv
      BY <2>1, <2>2 DEF FileInv
    <3>2. ThreadInv'
      BY <1>42, <2>2, <3>1, ThreadSteps DEF ThreadStep
    <3> QED BY <2>1, <2>2, <3>2
  <2>3. CASE apc \notin {"forked", "progress"}
    <3>1. apc \notin {"digest", "image"}
      BY <1>42, <1>t DEF FilterEnds, TypeInv, TarInv, Busy
    <3> QED BY <2>1, <2>3, <3>1, <1>q
  <2> QED BY <2>2, <2>3
<1>43. ASSUME NEW t \in Threads, FilterFails(t) PROVE Saving'
  <2>1. UNCHANGED <<apc, todo, stop_backup>>
    BY <1>43 DEF FilterFails, action, shared
  <2>2. CASE apc \in {"forked", "progress"}
    <3>1. ThreadInv
      BY <2>1, <2>2 DEF FileInv
    <3>2. ThreadInv'
      BY <1>43, <2>2, <3>1, ThreadSteps DEF ThreadStep
    <3> QED BY <2>1, <2>2, <3>2
  <2>3. CASE apc \notin {"forked", "progress"}
    <3>1. apc \notin {"digest", "image"}
      BY <1>43, <1>t DEF FilterFails, TypeInv, TarInv, Busy
    <3> QED BY <2>1, <2>3, <3>1, <1>q
  <2> QED BY <2>2, <2>3
<1>44. CASE ChildExits
  <2>1. UNCHANGED <<apc, todo, thr, cnt, filter, file, stop_backup>> /\ child = "run"
    BY <1>44 DEF ChildExits, action, shared, store
  <2>2. child' # "run" /\ (child' = "ok" => \A t \in Threads : thr[t] = "done")
    BY <1>44 DEF ChildExits, ThreadsEnd
  <2>3. apc \notin {"digest", "image"}
    BY <2>1 DEF TypeInv, TarInv, Busy
  <2>4. part' = part
    BY <2>1 DEF part
  <2>5. \A t : ThreadOK(t) => ThreadOK(t)'
    BY <2>1, <2>2, <2>4 DEF ThreadOK, archive
  <2>6. ThreadInv => ThreadInv'
    BY <2>1, <2>2, <2>4, <2>5 DEF ThreadInv
  <2> QED BY <2>1, <2>3, <2>6 DEF FileInv
<1>45. CASE Damage
  BY <1>45, <1>q DEF Damage, action
<1>46. CASE UNCHANGED vars
  BY <1>46, <1>s DEF vars, action, tar, store, shared
<1> QED BY <1>1, <1>2, <1>3, <1>4, <1>5, <1>6, <1>7, <1>8, <1>9, <1>10, <1>11, <1>12, <1>13,
     <1>14, <1>15, <1>16, <1>17, <1>18, <1>19, <1>20, <1>21, <1>22, <1>22a, <1>23, <1>24,
     <1>25, <1>26, <1>27, <1>28, <1>29, <1>30, <1>31, <1>32, <1>33, <1>34, <1>35, <1>36,
     <1>37, <1>38, <1>39, <1>40, <1>41, <1>42, <1>43, <1>44, <1>45, <1>46, Zenon DEF Next,
     BackupStep, RestoreStep, CancelStep, ThreadStep

EndOf(s, l) == Len(s) <= Len(l) /\ \A i \in 1..Len(s) : s[i] = l[Len(l) - Len(s) + i]

\* The partitions of the list that are no longer to do are whole, but for the one that is worked
\* on should the list name it twice.
DoneOf(l) ==
  /\ EndOf(todo, l)
  /\ \A i \in 1..(Len(l) - Len(todo)) : WholePart(l[i]) \/ (apc \in Working /\ l[i] = Head(todo))

DoneInv == stop_backup = 0 /\ InBackup => \E l \in Lists : DoneOf(l)

\* A session ends well only at the end of its list.
VerdictInv ==
  /\ apc \in {"verdict", "named"} /\ ret /\ stop_backup = 0 => todo = <<>>
  /\ apc = "named" /\ report = "success" => ret

LEMMA VerdictInvStep == TypeInv /\ VerdictInv /\ [Next]_vars => VerdictInv'
<1> SUFFICES ASSUME TypeInv, VerdictInv, [Next]_vars PROVE VerdictInv'
  OBVIOUS
<1>r. ret \in BOOLEAN /\ stop_backup \in {0, 1}
  BY Zenon DEF TypeInv, Flags, Controls
<1> USE DEF VerdictInv
<1>q. CASE apc' \notin {"verdict", "named"}
  BY <1>q
<1>s. CASE UNCHANGED <<apc, todo, ret, report>> /\ stop_backup' \in {stop_backup, 1}
  BY <1>s, <1>r
<1>1. ASSUME NEW n \in Names, StartBackup(n) PROVE VerdictInv'
  BY <1>1, <1>q DEF StartBackup, Goto
<1>2. CASE RunBackup
  BY <1>2, <1>q DEF RunBackup
<1>3. CASE RunBackupFails
  <2>1. apc' = "verdict" /\ ret' = FALSE
    BY <1>3, Zenon DEF RunBackupFails
  <2> QED BY <2>1
<1>4. CASE NextPartition
  BY <1>4, <1>q DEF NextPartition, Goto
<1>5. CASE StopSeen
  BY <1>5 DEF StopSeen, shared
<1>6. CASE AllSaved
  BY <1>6 DEF AllSaved
<1>7. CASE Fork
  BY <1>7, <1>q DEF Fork, Goto
<1>8. CASE MountFails
  BY <1>8, <1>q DEF MountFails, Goto
<1>9. CASE ForkFails
  BY <1>9, <1>q DEF ForkFails, Goto
<1>10. CASE ForkReturns
  BY <1>10, <1>q DEF ForkReturns, Forked
<1>11. CASE Reap
  BY <1>11, <1>q DEF Reap, Goto
<1>12. CASE Digest
  BY <1>12, <1>q DEF Digest
<1>13. CASE DigestFails
  BY <1>13, <1>q DEF DigestFails, Goto
<1>14. CASE OpenImage
  BY <1>14, <1>q DEF OpenImage
<1>15. CASE ImageFails
  BY <1>15, <1>q DEF ImageFails, Goto
<1>16. CASE SaveBlock
  BY <1>16, <1>q DEF SaveBlock
<1>17. CASE BackupError
  <2>1. apc' = "verdict" /\ ret' = FALSE
    BY <1>17, Zenon DEF BackupError
  <2> QED BY <2>1
<1>18. CASE Verdict
  <2>1. UNCHANGED <<todo, ret, stop_backup>> /\ apc = "verdict"
    BY <1>18 DEF Verdict, shared
  <2>2. report' = "success" => ret
    BY <1>18 DEF Verdict
  <2> QED BY <2>1, <2>2
<1>19. CASE ResetName
  BY <1>19, <1>q DEF ResetName, Goto
<1>20. CASE RestoreLast
  <2>1. apc' \in {"check", "next"}
    BY <1>20, Zenon DEF RestoreLast, StartRestore
  <2> QED BY <2>1, <1>q
<1>21. CASE RestoreOlder
  <2>1. apc' \in {"check", "next"}
    BY <1>21, Zenon DEF RestoreOlder, StartRestore
  <2> QED BY <2>1, <1>q
<1>22. CASE CheckDigests
  BY <1>22, <1>q DEF CheckDigests, Goto, RestoreEnds
<1>22a. CASE CheckFails
  BY <1>22a, <1>q DEF CheckFails, Mishap, Goto, RestoreEnds, target
<1>23. CASE RestoreNext
  BY <1>23, <1>q DEF RestoreNext
<1>24. CASE AllRestored
  BY <1>24, <1>q DEF AllRestored, RestoreEnds
<1>25. CASE Extract
  BY <1>25, <1>q DEF Extract
<1>26. CASE ExtractFails
  BY <1>26, <1>q DEF ExtractFails, RestoreEnds
<1>27. CASE WriteBlock
  BY <1>27, <1>q DEF WriteBlock, RestoreEnds
<1>28. CASE WriteFails
  BY <1>28, <1>q DEF WriteFails, RestoreEnds
<1>29. CASE PressCancel
  BY <1>29, <1>s DEF PressCancel, action, shared
<1>30. CASE CancelStop
  BY <1>30, <1>s DEF CancelStop, action, shared
<1>31. CASE CancelRead
  BY <1>31, <1>s DEF CancelRead, action, shared
<1>32. CASE CancelKill
  BY <1>32, <1>s DEF CancelKill, action, shared
<1>33. CASE CancelPoll
  BY <1>33, <1>s DEF CancelPoll, action, shared
<1>34. CASE RemoveFiles
  BY <1>34, <1>s DEF RemoveFiles, action, shared
<1>35. CASE RemoveFolder
  BY <1>35, <1>s DEF RemoveFolder, action, shared
<1>36. CASE CancelReset
  BY <1>36, <1>s DEF CancelReset, action, shared
<1>37. ASSUME NEW t \in Threads, CreateTar(t) PROVE VerdictInv'
  BY <1>37, <1>s DEF CreateTar, action, shared
<1>38. ASSUME NEW t \in Threads, CreateTarFails(t) PROVE VerdictInv'
  BY <1>38, <1>s DEF CreateTarFails, action, shared
<1>39. ASSUME NEW t \in Threads, AddFiles(t) PROVE VerdictInv'
  BY <1>39, <1>s DEF AddFiles, action, shared
<1>40. ASSUME NEW t \in Threads, AddFilesFails(t) PROVE VerdictInv'
  BY <1>40, <1>s DEF AddFilesFails, action, shared
<1>41. ASSUME NEW t \in Threads, CloseTar(t) PROVE VerdictInv'
  BY <1>41, <1>s DEF CloseTar, action, shared
<1>42. ASSUME NEW t \in Threads, FilterEnds(t) PROVE VerdictInv'
  BY <1>42, <1>s DEF FilterEnds, action, shared
<1>43. ASSUME NEW t \in Threads, FilterFails(t) PROVE VerdictInv'
  BY <1>43, <1>s DEF FilterFails, action, shared
<1>44. CASE ChildExits
  BY <1>44, <1>s DEF ChildExits, action, shared
<1>45. CASE Damage
  BY <1>45, <1>s DEF Damage, action, shared
<1>46. CASE UNCHANGED vars
  BY <1>46, <1>s DEF vars, action, shared
<1> QED BY <1>1, <1>2, <1>3, <1>4, <1>5, <1>6, <1>7, <1>8, <1>9, <1>10, <1>11, <1>12, <1>13,
     <1>14, <1>15, <1>16, <1>17, <1>18, <1>19, <1>20, <1>21, <1>22, <1>22a, <1>23, <1>24,
     <1>25, <1>26, <1>27, <1>28, <1>29, <1>30, <1>31, <1>32, <1>33, <1>34, <1>35, <1>36,
     <1>37, <1>38, <1>39, <1>40, <1>41, <1>42, <1>43, <1>44, <1>45, <1>46, Zenon DEF Next,
     BackupStep, RestoreStep, CancelStep, ThreadStep

LEMMA DoneInvStep == TypeInv /\ CancelInv /\ FileInv /\ DoneInv /\ [Next]_vars => DoneInv'
<1> SUFFICES ASSUME TypeInv, CancelInv, FileInv, DoneInv, [Next]_vars, stop_backup' = 0, InBackup'
             PROVE  \E l \in Lists : DoneOf(l)'
  BY DEF DoneInv
<1>t. /\ todo \in Seq(Partitions) /\ file \in [Archives -> FileState] /\ digest \subseteq Archives
      /\ \A l \in Lists : l \in Seq(Partitions)
  BY ListTypes DEF TypeInv, TodoInv, Stores
<1>n. CASE ~InBackup'
  BY <1>n
\* the work goes on with the same partition: only its archives change
<1>w. CASE /\ stop_backup = 0 /\ InBackup /\ todo' = todo /\ apc' \in Working /\ digest' = digest
           /\ \A a \in Archives : a[1] # Head(todo) => file'[a] = file[a]
  <2>1. PICK l \in Lists : DoneOf(l)
    BY <1>w DEF DoneInv
  <2>2. EndOf(todo', l)
    BY <2>1, <1>w DEF DoneOf, EndOf
  <2>3. ASSUME NEW i \in 1..(Len(l) - Len(todo)), l[i] # Head(todo) PROVE WholePart(l[i])'
    <3>1. WholePart(l[i])
      BY <2>1, <2>3 DEF DoneOf
    <3> QED BY <3>1, <2>3, <1>w DEF WholePart, Saved
  <2>4. DoneOf(l)'
    BY <2>2, <2>3, <1>w DEF DoneOf
  <2> QED BY <2>4
\* between partitions
<1>i. CASE /\ stop_backup = 0 /\ InBackup /\ UNCHANGED <<todo, file, digest>>
           /\ apc \notin Working \/ apc' \in Working
  <2>1. PICK l \in Lists : DoneOf(l)
    BY <1>i DEF DoneInv
  <2>2. \A p : WholePart(p)' <=> WholePart(p)
    BY <1>i DEF WholePart, Saved
  <2>3. DoneOf(l)'
    BY <2>1, <2>2, <1>i DEF DoneOf, EndOf
  <2> QED BY <2>3
<1>k. CASE UNCHANGED <<apc, todo, ret, file, digest, stop_backup>>
  BY <1>k, <1>i DEF InBackup
<1>1. ASSUME NEW n \in Names, StartBackup(n) PROVE \E l \in Lists : DoneOf(l)'
  BY <1>1, <1>n DEF InBackup, StartBackup, Goto
<1>2. CASE RunBackup
  <2>1. todo' \in Lists
    BY <1>2 DEF RunBackup
  <2>2. todo' \in Seq(Partitions)
    BY <2>1, <1>t
  <2>3. \A i \in 1..(Len(todo') - Len(todo')) : FALSE
    BY <2>2
  <2>4. EndOf(todo', todo')
    BY <2>2 DEF EndOf
  <2>5. PICK l \in Lists : l = todo'
    BY <2>1
  <2>6. DoneOf(l)'
    BY <2>3, <2>4, <2>5 DEF DoneOf
  <2> QED BY <2>6
<1>3. CASE RunBackupFails
  <2>1. apc' = "verdict" /\ ret' = FALSE
    BY <1>3, Zenon DEF RunBackupFails
  <2> QED BY <2>1, <1>n DEF InBackup
<1>4. CASE NextPartition
  BY <1>4, <1>i DEF InBackup, Working, Busy, NextPartition, Goto, store, shared
<1>5. CASE StopSeen
  BY <1>5, <1>i DEF InBackup, Working, Busy, StopSeen, store, shared
<1>6. CASE AllSaved
  BY <1>6, <1>i DEF InBackup, Working, Busy, AllSaved, store, shared
<1>7. CASE Fork
  BY <1>7, <1>i DEF InBackup, Working, Busy, Fork, Goto, store, shared
<1>8. CASE MountFails
  BY <1>8, <1>n DEF InBackup, MountFails, Goto
<1>9. CASE ForkFails
  BY <1>9, <1>n DEF InBackup, ForkFails, Goto
<1>10. CASE ForkReturns
  BY <1>10, <1>i DEF InBackup, Working, Busy, ForkReturns, Forked, store, shared
<1>11. CASE Reap
  <2>1. /\ apc = "progress" /\ UNCHANGED <<todo, file, digest, stop_backup>>
        /\ apc' \in {"digest", "error"}
    BY <1>11 DEF Reap, Goto, store, shared
  <2> QED BY <2>1, <1>i, <1>n DEF InBackup, Working, Busy
<1>12. CASE Digest
  <2>0. PICK p : p = Head(todo)
    OBVIOUS
  <2>1. /\ apc = "digest" /\ todo' = Tail(todo) /\ file' = file /\ stop_backup = 0
        /\ digest' = digest \cup Numbered(p, file) /\ apc' = "loop"
    BY <1>12, <2>0 DEF Digest, shared
  <2>2. Written(p)
    BY <2>0, <2>1 DEF FileInv, Saving
  <2>3. todo # <<>> /\ p \in Partitions
    BY <2>0, <2>1, WorkedOn DEF TypeInv, TodoInv, Working
  <2>4. ASSUME NEW a \in Archives, a[1] = p, a[2] = 0 PROVE a \in Numbered(p, file)
    <3>1. /\ a = <<p, 0, a[3]>> /\ 0 \in DOMAIN Part[p].archives
          /\ a[3] \in Nat /\ a[3] < Part[p].archives[0] /\ Part[p].archives[0] \in 1..100
      BY <2>3, <2>4, ArchiveFacts, PartFacts
    <3>2. ASSUME NEW j \in 0..a[3] PROVE file[<<p, 0, j>>] # "none"
      <4>0. j \in Nat /\ j < Part[p].archives[0]
        BY <3>1, <3>2
      <4>1. <<p, 0, j>> \in Archives
        BY <2>3, <3>1, <4>0, IsArchive
      <4>2. <<p, 0, j>>[1] = p
        OBVIOUS
      <4>3. file[<<p, 0, j>>] = "full"
        BY <4>1, <4>2, <2>2 DEF Written
      <4> QED BY <4>3
    <3> QED BY <2>4, <3>2 DEF Numbered
  <2>5. WholePart(p)'
    BY <2>1, <2>2, <2>4 DEF WholePart, Written, Saved
  <2>6. \A q : WholePart(q) => WholePart(q)'
    BY <2>1 DEF WholePart, Saved
  <2>7. PICK l \in Lists : DoneOf(l)
    BY <2>1 DEF DoneInv, InBackup
  <2>8. /\ Len(todo) \in Nat \ {0} /\ Len(l) \in Nat /\ Len(Tail(todo)) = Len(todo) - 1
        /\ \A i \in 1..Len(Tail(todo)) : Tail(todo)[i] = todo[i + 1]
    BY <2>3, <2>7, <1>t
  <2>9. Len(todo) <= Len(l) /\ \A i \in 1..Len(todo) : todo[i] = l[Len(l) - Len(todo) + i]
    BY <2>7 DEF DoneOf, EndOf
  <2>10. EndOf(Tail(todo), l)
    BY <2>8, <2>9 DEF EndOf
  <2>11. l[Len(l) - Len(todo) + 1] = p
    BY <2>0, <2>8, <2>9, <2>3, <1>t
  <2>12. ASSUME NEW i \in 1..(Len(l) - Len(Tail(todo))) PROVE WholePart(l[i])'
    <3>1. i \in 1..(Len(l) - Len(todo)) \/ i = Len(l) - Len(todo) + 1
      BY <2>8, <2>9
    <3>2. CASE i \in 1..(Len(l) - Len(todo))
      <4>1. WholePart(l[i]) \/ l[i] = p
        BY <3>2, <2>0, <2>7 DEF DoneOf
      <4> QED BY <4>1, <2>5, <2>6
    <3>3. CASE i = Len(l) - Len(todo) + 1
      BY <3>3, <2>11, <2>5
    <3> QED BY <3>1, <3>2, <3>3
  <2>13. DoneOf(l)'
    BY <2>1, <2>10, <2>12 DEF DoneOf
  <2> QED BY <2>13
<1>13. CASE DigestFails
  BY <1>13, <1>n DEF InBackup, DigestFails, Goto
<1>14. CASE OpenImage
  <2>1. /\ apc \in {"open", "image"} /\ UNCHANGED <<todo, digest, stop_backup>>
        /\ file' \in {file, [file EXCEPT ![<<Head(todo), 0, 0>>] = "part"],
                      [file EXCEPT ![<<Head(todo), 0, 0>>] = "full"]}
        /\ apc' \in {"image", "digest", "error"}
    BY <1>14 DEF OpenImage, shared
  <2>2. <<Head(todo), 0, 0>>[1] = Head(todo)
    OBVIOUS
  <2>3. \A a \in Archives : a[1] # Head(todo) => file'[a] = file[a]
    BY <2>1, <2>2, <1>t
  <2> QED BY <2>1, <2>3, <1>w, <1>n DEF InBackup, Working, Busy
<1>15. CASE ImageFails
  BY <1>15, <1>n DEF InBackup, ImageFails, Goto
<1>16. CASE SaveBlock
  <2>1. /\ apc \in {"open", "image"} /\ UNCHANGED <<todo, digest, stop_backup>>
        /\ file' \in {file, [file EXCEPT ![<<Head(todo), 0, 0>>] = "part"],
                      [file EXCEPT ![<<Head(todo), 0, 0>>] = "full"]}
        /\ apc' \in {"image", "digest", "error"}
    BY <1>16 DEF SaveBlock, shared
  <2>2. <<Head(todo), 0, 0>>[1] = Head(todo)
    OBVIOUS
  <2>3. \A a \in Archives : a[1] # Head(todo) => file'[a] = file[a]
    BY <2>1, <2>2, <1>t
  <2> QED BY <2>1, <2>3, <1>w, <1>n DEF InBackup, Working, Busy
<1>17. CASE BackupError
  <2>1. apc' = "verdict" /\ ret' = FALSE
    BY <1>17, Zenon DEF BackupError
  <2> QED BY <2>1, <1>n DEF InBackup
<1>18. CASE Verdict
  BY <1>18, <1>i DEF InBackup, Working, Busy, Verdict, store, shared
<1>19. CASE ResetName
  BY <1>19, <1>n DEF InBackup, ResetName, Goto
<1>20. CASE RestoreLast
  <2>1. apc' \in {"check", "next"}
    BY <1>20, Zenon DEF RestoreLast, StartRestore
  <2> QED BY <2>1, <1>n DEF InBackup
<1>21. CASE RestoreOlder
  <2>1. apc' \in {"check", "next"}
    BY <1>21, Zenon DEF RestoreOlder, StartRestore
  <2> QED BY <2>1, <1>n DEF InBackup
<1>22. CASE CheckDigests
  BY <1>22, <1>n DEF InBackup, CheckDigests, Goto, RestoreEnds
<1>22a. CASE CheckFails
  BY <1>22a, <1>n DEF InBackup, CheckFails, Mishap, Goto, RestoreEnds, target
<1>23. CASE RestoreNext
  BY <1>23, <1>n DEF InBackup, RestoreNext
<1>24. CASE AllRestored
  BY <1>24, <1>n DEF InBackup, AllRestored, RestoreEnds
<1>25. CASE Extract
  BY <1>25, <1>n DEF InBackup, Extract
<1>26. CASE ExtractFails
  BY <1>26, <1>n DEF InBackup, ExtractFails, RestoreEnds
<1>27. CASE WriteBlock
  BY <1>27, <1>n DEF InBackup, WriteBlock, RestoreEnds
<1>28. CASE WriteFails
  BY <1>28, <1>n DEF InBackup, WriteFails, RestoreEnds
<1>29. CASE PressCancel
  BY <1>29, <1>k DEF PressCancel, action, store, shared
<1>30. CASE CancelStop
  BY <1>30 DEF CancelStop
<1>31. CASE CancelRead
  BY <1>31, <1>k DEF CancelRead, action, store, shared
<1>32. CASE CancelKill
  BY <1>32, <1>k DEF CancelKill, action, store, shared
<1>33. CASE CancelPoll
  BY <1>33, <1>k DEF CancelPoll, action, store, shared
<1>34. CASE RemoveFiles
  <2>1. cpc \in Removing /\ UNCHANGED <<apc, todo, ret, stop_backup>>
    BY <1>34 DEF RemoveFiles, action, shared, Removing
  <2>2. ~own
    BY <2>1 DEF CancelInv, InBackup
  <2>3. UNCHANGED <<file, digest>>
    BY <1>34, <2>2, Zenon DEF RemoveFiles
  <2> QED BY <2>1, <2>3, <1>k
<1>35. CASE RemoveFolder
  BY <1>35, <1>k DEF RemoveFolder, action, store, shared
<1>36. CASE CancelReset
  BY <1>36, <1>k DEF CancelReset, action, store, shared
<1>37. ASSUME NEW t \in Threads, CreateTar(t) PROVE \E l \in Lists : DoneOf(l)'
  <2>1. UNCHANGED <<apc, todo, ret, digest, stop_backup>>
    BY <1>37 DEF CreateTar, action, shared
  <2>2. PICK v : file' \in {file, [file EXCEPT ![archive(t)] = v]}
    BY <1>37, Zenon DEF CreateTar
  <2>3. archive(t)[1] = Head(todo)
    BY DEF archive
  <2>4. \A a \in Archives : a[1] # Head(todo) => file'[a] = file[a]
    BY <2>2, <2>3, <1>t
  <2>5. apc \in Busy
    BY <1>37 DEF CreateTar, TypeInv, TarInv
  <2> QED BY <2>1, <2>4, <2>5, <1>w DEF InBackup, Working
<1>38. ASSUME NEW t \in Threads, CreateTarFails(t) PROVE \E l \in Lists : DoneOf(l)'
  BY <1>38, <1>k DEF CreateTarFails, action, store, shared
<1>39. ASSUME NEW t \in Threads, AddFiles(t) PROVE \E l \in Lists : DoneOf(l)'
  BY <1>39, <1>k DEF AddFiles, action, store, shared
<1>40. ASSUME NEW t \in Threads, AddFilesFails(t) PROVE \E l \in Lists : DoneOf(l)'
  BY <1>40, <1>k DEF AddFilesFails, action, store, shared
<1>41. ASSUME NEW t \in Threads, CloseTar(t) PROVE \E l \in Lists : DoneOf(l)'
  <2>1. UNCHANGED <<apc, todo, ret, digest, stop_backup>>
    BY <1>41 DEF CloseTar, action, shared
  <2>2. PICK v : file' \in {file, [file EXCEPT ![archive(t)] = v]}
    BY <1>41, Zenon DEF CloseTar
  <2>3. archive(t)[1] = Head(todo)
    BY DEF archive
  <2>4. \A a \in Archives : a[1] # Head(todo) => file'[a] = file[a]
    BY <2>2, <2>3, <1>t
  <2>5. apc \in Busy
    BY <1>41 DEF CloseTar, TypeInv, TarInv
  <2> QED BY <2>1, <2>4, <2>5, <1>w DEF InBackup, Working
<1>42. ASSUME NEW t \in Threads, FilterEnds(t) PROVE \E l \in Lists : DoneOf(l)'
  <2>1. UNCHANGED <<apc, todo, ret, digest, stop_backup>>
    BY <1>42 DEF FilterEnds, action, shared
  <2>2. PICK v : file' \in {file, [file EXCEPT ![archive(t)] = v]}
    BY <1>42, Zenon DEF FilterEnds
  <2>3. archive(t)[1] = Head(todo)
    BY DEF archive
  <2>4. \A a \in Archives : a[1] # Head(todo) => file'[a] = file[a]
    BY <2>2, <2>3, <1>t
  <2>5. apc \in Busy
    BY <1>42 DEF FilterEnds, TypeInv, TarInv
  <2> QED BY <2>1, <2>4, <2>5, <1>w DEF InBackup, Working
<1>43. ASSUME NEW t \in Threads, FilterFails(t) PROVE \E l \in Lists : DoneOf(l)'
  BY <1>43, <1>k DEF FilterFails, action, store, shared
<1>44. CASE ChildExits
  BY <1>44, <1>k DEF ChildExits, action, store, shared
<1>45. CASE Damage
  BY <1>45, <1>n DEF Damage, action, InBackup
<1>46. CASE UNCHANGED vars
  BY <1>46, <1>k DEF vars, action, store, shared
<1> QED BY <1>1, <1>2, <1>3, <1>4, <1>5, <1>6, <1>7, <1>8, <1>9, <1>10, <1>11, <1>12, <1>13,
     <1>14, <1>15, <1>16, <1>17, <1>18, <1>19, <1>20, <1>21, <1>22, <1>22a, <1>23, <1>24,
     <1>25, <1>26, <1>27, <1>28, <1>29, <1>30, <1>31, <1>32, <1>33, <1>34, <1>35, <1>36,
     <1>37, <1>38, <1>39, <1>40, <1>41, <1>42, <1>43, <1>44, <1>45, <1>46, Zenon DEF Next,
     BackupStep, RestoreStep, CancelStep, ThreadStep

WholeInv == TypeInv /\ CancelInv /\ FileInv /\ DoneInv /\ VerdictInv

LEMMA WholeInvInit == Init => WholeInv
<1> SUFFICES ASSUME Init PROVE WholeInv
  OBVIOUS
<1>1. TypeInv /\ CancelInv
  BY WriterInvInit DEF WriterInv
<1>2. FileInv
  BY DEF Init, FileInv, Saving
<1>3. DoneInv
  BY DEF Init, DoneInv, InBackup
<1>4. VerdictInv
  BY DEF Init, VerdictInv
<1> QED BY <1>1, <1>2, <1>3, <1>4 DEF WholeInv

LEMMA WholeInvStep == WholeInv /\ [Next]_vars => WholeInv'
  BY TypeInvStep, CancelInvStep, FileInvStep, DoneInvStep, VerdictInvStep DEF WholeInv

LEMMA WholeInvImplies == WholeInv => BackupIsWhole
<1> SUFFICES ASSUME WholeInv, apc = "named", report = "success", stop_backup = 0
             PROVE  \E l \in Lists : SuccessIsWhole(l)
  BY Zenon DEF BackupIsWhole
<1>1. ret
  BY Zenon DEF WholeInv, VerdictInv
<1>2. todo = <<>>
  BY <1>1 DEF WholeInv, VerdictInv
<1>3. PICK l \in Lists : DoneOf(l)
  BY <1>1 DEF WholeInv, DoneInv, InBackup
<1>4. l \in Seq(Partitions) /\ Len(todo) = 0
  BY <1>2, ListTypes
<1>5. \A i \in DOMAIN l : WholePart(l[i])
  BY <1>3, <1>4 DEF DoneOf, Working, Busy
<1>6. SuccessIsWhole(l)
  BY <1>5 DEF SuccessIsWhole, WholePart
<1> QED BY <1>6

\* A backup that is reported as a success, and not cancelled since, has every archive of one of
\* the lists whole and those of thread 0 digested, for any number of partitions, threads, splits
\* and filters, with any failures of them, and while the cancel of an earlier backup still
\* removes its folder.
THEOREM SuccessMeansWhole == Spec => []BackupIsWhole
  BY WholeInvInit, WholeInvStep, WholeInvImplies, PTL DEF Spec

-----------------------------------------------------------------------------
(* Nobody waits in vain                                                    *)

\* The action thread can take a step.  It waits in one place only, for the end of
\* the progress pipe and of the child.
ActionAdvances ==
  \/ apc \notin {"idle", "exited", "crashed", "progress", "digest"}
  \/ apc = "progress" /\ child \in {"ok", "failed", "killed"} /\ PipeEnds
  \/ apc = "digest" /\ (folder \/ Numbered(Head(todo), file) = {})

\* A thread of the tar process can, or its main thread has joined what it waits for.
TarAdvances ==
  /\ child = "run"
  /\ \/ \E t \in Threads : \/ thr[t] = "start" /\ Started(t)
                           \/ thr[t] = "add"
                           \/ thr[t] = "wait" /\ filter[t] # "run"
     \/ \E r \in {"ok", "failed"} : ThreadsEnd(r)

\* A filter sees the end of its input.
FilterAdvances == \E t \in Threads : filter[t] = "run" /\ (thr[t] = "wait" \/ child # "run")

\* While a backup or restore is going on, somebody can go on: the threads of a tar
\* process do not wait for one that failed, the main thread of the process does not join
\* one that was never started, and no filter holds the pipe open for ever.  And the loop
\* of Cancel_Backup on kill(pid, 0) waits only while the action thread is on its way to
\* reap the child, unless the fork had failed.
NeverStuck ==
  /\ apc = "idle" \/ Ended \/ ActionAdvances \/ TarAdvances \/ FilterAdvances
  /\ cpc = "poll" /\ ~Gone => apc \in {"forked", "progress"} \/ Ended \/ tar_fork_pid = "minus one"

\* What it needs: the child is there until it is reaped, and a folder that was removed
\* was empty.
ReapInv == apc = "progress" => child # "none"
FolderInv == folder \/ file = Empty
StuckInv == ReapInv /\ FolderInv

\* The archive that a thread of the tar process, and the one the image writer, has open.
LEMMA ThreadArchive ==
  ASSUME TypeInv, NEW t \in Threads, thr[t] # "done", child = "run" \/ filter[t] = "run"
  PROVE  archive(t) \in Archives
<1>1. apc \in Busy
  BY DEF TypeInv, TarInv
<1>2. /\ Head(todo) \in Partitions /\ part = Part[Head(todo)]
  BY <1>1, WorkedOn DEF TypeInv, Working, Busy
<1>3. t \in DOMAIN part.archives /\ cnt[t] < part.archives[t] /\ cnt[t] \in Nat
  BY <1>1 DEF TypeInv, TarInv
<1> QED BY <1>2, <1>3, IsArchive DEF archive

LEMMA ImageArchive ==
  ASSUME TodoInv, apc = "image"
  PROVE  <<Head(todo), 0, 0>> \in Archives
<1>1. /\ Head(todo) \in Partitions /\ part = Part[Head(todo)]
      /\ 0 \in DOMAIN part.archives /\ part.archives[0] \in 1..100
  BY WorkedOn DEF Working
<1> QED BY <1>1, IsArchive

LEMMA StuckInvStep == TypeInv /\ StuckInv /\ [Next]_vars => StuckInv'
<1> SUFFICES ASSUME TypeInv, StuckInv, [Next]_vars PROVE StuckInv'
  OBVIOUS
<1> USE DEF StuckInv, ReapInv, FolderInv
\* neither the folder nor what the action thread waits for is touched
<1>k. CASE /\ UNCHANGED <<folder, file>>
           /\ apc' # "progress" \/ UNCHANGED <<apc, child>>
  BY <1>k
\* a folder is there
<1>r. CASE folder' /\ apc' # "progress"
  BY <1>r
<1>1. ASSUME NEW n \in Names, StartBackup(n) PROVE StuckInv'
  BY <1>1, <1>k DEF StartBackup, Goto, tar, store
<1>2. CASE RunBackup
  BY <1>2, <1>r DEF RunBackup, tar
<1>3. CASE RunBackupFails
  BY <1>3, <1>k DEF RunBackupFails, Goto, RestoreEnds, action, tar, store
<1>4. CASE NextPartition
  BY <1>4, <1>k DEF NextPartition, Goto, RestoreEnds, action, tar, store
<1>5. CASE StopSeen
  BY <1>5, <1>k DEF StopSeen, Goto, RestoreEnds, action, tar, store
<1>6. CASE AllSaved
  BY <1>6, <1>k DEF AllSaved, Goto, RestoreEnds, action, tar, store
<1>7. CASE Fork
  BY <1>7, <1>k DEF Fork, Goto, store
<1>8. CASE MountFails
  BY <1>8, <1>k DEF MountFails, Goto, RestoreEnds, action, tar, store
<1>9. CASE ForkFails
  BY <1>9, <1>k DEF ForkFails, Goto, RestoreEnds, action, tar, store
<1>10. CASE ForkReturns
  BY <1>10 DEF ForkReturns, Forked, TypeInv, TarInv, tar, store
<1>11. CASE Reap
  BY <1>11, <1>k DEF Reap, Goto, store
<1>12. CASE Digest
  BY <1>12, <1>k DEF Digest, tar, store
<1>13. CASE DigestFails
  BY <1>13, <1>k DEF DigestFails, Goto, RestoreEnds, action, tar, store
<1>14. CASE OpenImage
  BY <1>14, <1>r DEF OpenImage, tar
<1>15. CASE ImageFails
  BY <1>15, <1>k DEF ImageFails, Goto, RestoreEnds, action, tar, store
<1>16. CASE SaveBlock
  <2>1. apc' # "progress" /\ folder' = folder
    BY <1>16 DEF SaveBlock
  <2>2. CASE file = Empty
    <3>1. <<Head(todo), 0, 0>> \in Archives
      BY <1>16, ImageArchive DEF SaveBlock, TypeInv
    <3>2. file' = file
      BY <1>16, <2>2, <3>1 DEF SaveBlock, Empty
    <3> QED BY <2>1, <2>2, <3>2
  <2> QED BY <2>1, <2>2
<1>17. CASE BackupError
  <2>1. apc' # "progress" /\ folder' = folder /\ file' = Cleaned
    BY <1>17 DEF BackupError
  <2>2. file = Empty => Cleaned = Empty
    BY DEF Cleaned, Empty
  <2> QED BY <2>1, <2>2
<1>18. CASE Verdict
  BY <1>18, <1>k DEF Verdict, Goto, RestoreEnds, action, tar, store
<1>19. CASE ResetName
  BY <1>19, <1>k DEF ResetName, Goto, RestoreEnds, action, tar, store
<1>20. CASE RestoreLast
  <2>1. apc' \in {"check", "next"} /\ UNCHANGED <<child, folder, file>>
    BY <1>20, Zenon DEF RestoreLast, StartRestore, tar, store
  <2> QED BY <2>1, <1>k
<1>21. CASE RestoreOlder
  <2>1. apc' \in {"check", "next"} /\ UNCHANGED <<child, folder, file>>
    BY <1>21, Zenon DEF RestoreOlder, StartRestore, tar, store
  <2> QED BY <2>1, <1>k
<1>22. CASE CheckDigests
  BY <1>22, <1>k DEF CheckDigests, Goto, RestoreEnds, tar, store
<1>22a. CASE CheckFails
  BY <1>22a, <1>k DEF CheckFails, Mishap, Goto, RestoreEnds, tar, store, target
<1>23. CASE RestoreNext
  BY <1>23, <1>k DEF RestoreNext, Goto, RestoreEnds, action, tar, store
<1>24. CASE AllRestored
  BY <1>24, <1>k DEF AllRestored, Goto, RestoreEnds, action, tar, store
<1>25. CASE Extract
  BY <1>25, <1>k DEF Extract, Goto, RestoreEnds, action, tar, store
<1>26. CASE ExtractFails
  BY <1>26, <1>k DEF ExtractFails, Goto, RestoreEnds, action, tar, store
<1>27. CASE WriteBlock
  BY <1>27, <1>k DEF WriteBlock, RestoreEnds, tar, store
<1>28. CASE WriteFails
  BY <1>28, <1>k DEF WriteFails, Goto, RestoreEnds, action, tar, store
<1>29. CASE PressCancel
  BY <1>29, <1>k DEF PressCancel, Goto, RestoreEnds, action, tar, store
<1>30. CASE CancelStop
  BY <1>30, <1>k DEF CancelStop, Goto, RestoreEnds, action, tar, store
<1>31. CASE CancelRead
  BY <1>31, <1>k DEF CancelRead, Goto, RestoreEnds, action, tar, store
<1>32. CASE CancelKill
  BY <1>32 DEF CancelKill, action, store
<1>33. CASE CancelPoll
  BY <1>33, <1>k DEF CancelPoll, Goto, RestoreEnds, action, tar, store
<1>34. CASE RemoveFiles
  BY <1>34 DEF RemoveFiles, action, tar
<1>35. CASE RemoveFolder
  <2>1. UNCHANGED <<apc, child, file>> /\ folder' = (folder /\ ~(own /\ file = Empty))
    BY <1>35 DEF RemoveFolder, action, tar
  <2> QED BY <2>1, Zenon
<1>36. CASE CancelReset
  BY <1>36, <1>k DEF CancelReset, Goto, RestoreEnds, action, tar, store
<1>37. ASSUME NEW t \in Threads, CreateTar(t) PROVE StuckInv'
  BY <1>37 DEF CreateTar, action
<1>38. ASSUME NEW t \in Threads, CreateTarFails(t) PROVE StuckInv'
  BY <1>38, <1>k DEF CreateTarFails, action, store
<1>39. ASSUME NEW t \in Threads, AddFiles(t) PROVE StuckInv'
  BY <1>39, <1>k DEF AddFiles, action, store
<1>40. ASSUME NEW t \in Threads, AddFilesFails(t) PROVE StuckInv'
  BY <1>40, <1>k DEF AddFilesFails, action, store
<1>41. ASSUME NEW t \in Threads, CloseTar(t) PROVE StuckInv'
  <2>1. UNCHANGED <<apc, child, folder>> /\ thr[t] = "wait" /\ child = "run"
    BY <1>41 DEF CloseTar, action
  <2>2. CASE file = Empty
    <3>1. archive(t) \in Archives
      BY <2>1, ThreadArchive
    <3>2. ~ClosedWell(t)
      BY <2>2, <3>1 DEF ClosedWell, Empty
    <3>3. file' = file
      BY <1>41, <3>2 DEF CloseTar
    <3> QED BY <2>1, <2>2, <3>3
  <2> QED BY <2>1, <2>2
<1>42. ASSUME NEW t \in Threads, FilterEnds(t) PROVE StuckInv'
  <2>1. UNCHANGED <<apc, child, folder>> /\ filter[t] = "run"
    BY <1>42 DEF FilterEnds, action
  <2>2. CASE file = Empty
    <3>1. thr[t] = "wait" => archive(t) \in Archives
      BY <2>1, ThreadArchive
    <3>2. ~(thr[t] = "wait" /\ file[archive(t)] = "part")
      BY <2>2, <3>1 DEF Empty
    <3>3. file' = file
      BY <1>42, <3>2 DEF FilterEnds
    <3> QED BY <2>1, <2>2, <3>3
  <2> QED BY <2>1, <2>2
<1>43. ASSUME NEW t \in Threads, FilterFails(t) PROVE StuckInv'
  BY <1>43, <1>k DEF FilterFails, action, store
<1>44. CASE ChildExits
  BY <1>44 DEF ChildExits, action, store
<1>45. CASE Damage
  <2>1. UNCHANGED <<apc, child, folder>> /\ \E a \in Archives : file[a] = "full"
    BY <1>45 DEF Damage, action, tar
  <2> QED BY <2>1 DEF Empty
<1>46. CASE UNCHANGED vars
  BY <1>46, <1>k DEF vars, action, tar, store
<1> QED BY <1>1, <1>2, <1>3, <1>4, <1>5, <1>6, <1>7, <1>8, <1>9, <1>10, <1>11, <1>12, <1>13,
     <1>14, <1>15, <1>16, <1>17, <1>18, <1>19, <1>20, <1>21, <1>22, <1>22a, <1>23, <1>24,
     <1>25, <1>26, <1>27, <1>28, <1>29, <1>30, <1>31, <1>32, <1>33, <1>34, <1>35, <1>36,
     <1>37, <1>38, <1>39, <1>40, <1>41, <1>42, <1>43, <1>44, <1>45, <1>46, Zenon DEF Next,
     BackupStep, RestoreStep, CancelStep, ThreadStep

\* Of a set of threads that is not empty one is the first.
LEMMA FirstThread ==
  ASSUME NEW S, S \subseteq Threads, S # {}
  PROVE  S \subseteq Nat /\ \E t \in S : \A u \in S : ~(u < t)
<1>1. Threads \subseteq Nat
  <2>1. ASSUME NEW p \in Partitions PROVE DOMAIN Part[p].archives \subseteq 0..8
    BY PartAssumption, Zenon
  <2>2. 0..8 \subseteq Nat
    OBVIOUS
  <2> QED BY <2>1, <2>2, Zenon DEF Threads
<1>2. \E t \in S : \A u \in S : ~(<<u, t>> \in OpToRel(<, Nat))
  BY <1>1, NatLessThanWellFounded, WFMin, Zenon
<1> DEFINE R == {ss \in Nat \X Nat : ss[1] < ss[2]}
<1>3. R = OpToRel(<, Nat)
  BY Zenon DEF OpToRel
<1>4. PICK t \in S : \A u \in S : ~(<<u, t>> \in R)
  BY <1>2, <1>3, Zenon
<1>5. \A u \in S : ~(u < t)
  BY <1>1, <1>4
<1> QED BY <1>1, <1>5

\* The tar process runs to its end: a thread goes on, or a filter it waits for does, or
\* the first thread that is not done has failed, which ends the process.
LEMMA TarRuns ==
  ASSUME TypeInv, child = "run"
  PROVE  TarAdvances \/ FilterAdvances
<1> SUFFICES ASSUME ~TarAdvances, ~FilterAdvances PROVE FALSE
  OBVIOUS
<1>1. \A t \in Threads : \/ thr[t] \in {"done", "failed"}
                         \/ thr[t] = "start" /\ ~Started(t)
  BY DEF TarAdvances, FilterAdvances, TypeInv, TarInv
<1>2. ~ThreadsEnd("ok") /\ ~ThreadsEnd("failed")
  BY DEF TarAdvances
<1>3. PICK S : S = {t \in Threads : thr[t] # "done"}
  OBVIOUS
<1>4. S # {}
  BY <1>2, <1>3 DEF ThreadsEnd
<1>5. PICK t \in S : S \subseteq Nat /\ \A u \in S : ~(u < t)
  BY <1>3, <1>4, FirstThread
<1>6. \A u \in Threads : u < t => thr[u] = "done"
  BY <1>3, <1>5
<1>7. CASE thr[t] = "failed"
  BY <1>2, <1>3, <1>5, <1>6, <1>7 DEF ThreadsEnd
<1>8. CASE thr[t] = "start" /\ ~Started(t)
  <2>1. t # 0 /\ thr[0] # "done"
    BY <1>8 DEF Started
  <2>2. 0 \in Threads
    <3>1. apc \in Busy
      BY DEF TypeInv, TarInv
    <3> QED BY <3>1, WorkedOn DEF TypeInv, Working, Busy
  <2>3. 0 < t
    BY <1>5, <2>1
  <2> QED BY <1>6, <2>1, <2>2, <2>3
<1> QED BY <1>1, <1>3, <1>5, <1>7, <1>8

\* Backup and restore never come to a state in which everybody waits for somebody else.
THEOREM NobodyWaitsInVain == Spec => []NeverStuck
<1>1. Init => StuckInv
  BY DEF Init, StuckInv, ReapInv, FolderInv
<1>2. TypeInv /\ StuckInv => NeverStuck
  <2> SUFFICES ASSUME TypeInv, StuckInv PROVE NeverStuck
    OBVIOUS
  <2>1. CASE apc = "progress"
    <3>1. child \in {"run", "ok", "failed", "killed"}
      BY <2>1 DEF TypeInv, Controls, StuckInv, ReapInv
    <3>2. CASE child = "run"
      BY <2>1, <3>2, TarRuns DEF NeverStuck
    <3>3. CASE child # "run"
      BY <2>1, <3>1, <3>3 DEF NeverStuck, ActionAdvances, FilterAdvances, PipeEnds
    <3> QED BY <3>2, <3>3
  <2>2. CASE apc = "digest"
    <3>1. folder \/ Numbered(Head(todo), file) = {}
      <4>1. CASE file = Empty
        <5>1. \A a \in Archives : a[3] \in Nat /\ a = <<a[1], a[2], a[3]>>
          BY ArchiveFacts
        <5>2. ASSUME NEW a \in Numbered(Head(todo), file) PROVE FALSE
          <6>1. a \in Archives /\ a[1] = Head(todo) /\ a[2] = 0 /\ file[<<Head(todo), 0, a[3]>>] # "none"
            BY <5>1, <5>2 DEF Numbered
          <6>2. file[a] # "none"
            BY <5>1, <6>1
          <6> QED BY <4>1, <6>1, <6>2 DEF Empty
        <5> QED BY <5>2
      <4> QED BY <4>1 DEF StuckInv, FolderInv
    <3>2. child = "none"
      BY <2>2 DEF TypeInv, TarInv, Busy
    <3> QED BY <2>2, <3>1, <3>2 DEF NeverStuck, ActionAdvances, Gone
  <2>3. CASE apc \notin {"progress", "digest"}
    BY <2>3 DEF NeverStuck, ActionAdvances, Ended, Gone, TypeInv, TarInv, Busy
  <2> QED BY <2>1, <2>2, <2>3
<1> QED BY <1>1, <1>2, TypeInvInit, TypeInvStep, StuckInvStep, PTL DEF Spec

-----------------------------------------------------------------------------
(* Why a restore fails                                                     *)

\* An archive of the backup is damaged, missing or, being of thread 0, without a digest.
Flawed == \E a \in Archives : src[a] # "full" \/ (a[2] = 0 /\ a \notin signed)

\* A step of Run_Restore that reports a failure meets a failing operation or a flawed
\* backup, or it writes an image while stop_backup is set: the flag that a cancelled
\* backup leaves behind is the only other cause.
FailureHasCause ==
  RestoreStep /\ apc' = "idle" /\ report' = "restore failed" =>
    mishaps' = mishaps + 1 \/ Flawed \/ (apc = "write" /\ stop_backup # 0)

\* The first archive of a partition that is worked on is one of the backup.
LEMMA FirstArchive ==
  ASSUME TypeInv, apc \in {"extract", "write"}
  PROVE  <<Head(todo), 0, 0>> \in Archives
<1>1. /\ Head(todo) \in Partitions /\ 0 \in DOMAIN Part[Head(todo)].archives
      /\ Part[Head(todo)].archives[0] \in 1..100
  BY WorkedOn DEF TypeInv
<1> QED BY <1>1, IsArchive

\* extractTarFork finds an archive in a backup without flaws.
LEMMA FoundFirst ==
  ASSUME TypeInv, apc = "extract", Found(Head(todo)) = {}
  PROVE  src[<<Head(todo), 0, 0>>] = "none"
<1> DEFINE a == <<Head(todo), 0, 0>>
<1>1. a \in Archives /\ a[1] = Head(todo) /\ a[2] = 0 /\ a[3] = 0
  BY FirstArchive
<1>2. \A t \in DOMAIN Part[Head(todo)].archives : t <= 0 => t = 0
  BY WorkedOn, PartAssumption DEF TypeInv
<1>3. src[a] # "none" => a \in Found(Head(todo))
  BY <1>1, <1>2 DEF Found
<1> QED BY <1>3

\* A restore fails for a cause of its own or because stop_backup is still set from a backup that
\* was cancelled (partition.cpp:2816), for any backups, selections and failures.
THEOREM FailuresHaveCauses == Spec => [][FailureHasCause]_vars
<1>1. TypeInv /\ [Next]_vars => FailureHasCause
  <2> SUFFICES ASSUME TypeInv, RestoreStep, apc' = "idle", report' = "restore failed"
               PROVE  mishaps' = mishaps + 1 \/ Flawed \/ (apc = "write" /\ stop_backup # 0)
    BY DEF FailureHasCause
  <2>1. CASE CheckDigests
    <3>1. PICK a \in Checked : a \notin signed \/ src[a] # "full"
      BY <2>1 DEF CheckDigests, Goto
    <3>2. a \in Archives /\ a[2] = 0
      BY <3>1 DEF Checked, Numbered
    <3> QED BY <3>1, <3>2 DEF Flawed
  <2>6. CASE CheckFails
    BY <2>6 DEF CheckFails, Mishap
  <2>2. CASE ExtractFails
    <3>1. CASE Found(Head(todo)) = {}
      BY <2>2, <3>1, FirstArchive, FoundFirst DEF ExtractFails, Flawed
    <3>2. CASE \E a \in Found(Head(todo)) : src[a] # "full"
      BY <3>2 DEF Found, Flawed
    <3> QED BY <2>2, <3>1, <3>2 DEF ExtractFails, Mishap
  <2>3. CASE WriteBlock
    BY <2>3 DEF WriteBlock, Stops, RestoreEnds
  <2>4. CASE WriteFails
    BY <2>4, FirstArchive DEF WriteFails, Flawed, Mishap
  <2>5. CASE RestoreNext \/ AllRestored \/ Extract
    BY <2>5 DEF RestoreNext, AllRestored, Extract, RestoreEnds
  <2> QED BY <2>1, <2>2, <2>3, <2>4, <2>5, <2>6 DEF RestoreStep
<1> QED BY <1>1, TypeInvInit, TypeInvStep, PTL DEF Spec
=============================================================================
