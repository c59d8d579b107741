# TLA+ models of the Safestrap / TWRP recovery

This directory holds TLA+ specifications of the parts of the recovery whose
correctness is hard to test: the in-place OTA updater, the commands recovery is started
with, the A/B slot metadata, adb sideload, backup and restore - the parts that must survive
crashes, restarts, failing pieces and concurrent threads.  The specifications are
translated from the source; `PROJECT.json` maps every definition to the lines it models.

## 1. Inventory of the system

| Component | Source | State it keeps | Operations | What is hard | What makes it correct |
|---|---|---|---|---|---|
| Block-image updater | `updater/blockimg.cpp` | partition, stash directory, last-command file; per run: command index, stash map, buffer | `block_image_verify`, `block_image_update` over a transfer list (move, bsdiff, imgdiff, stash, free, new, zero, erase) | interruption between any two writes, resumption, skipped commands | success means target image; an interrupted update can always be resumed |
| New-data thread | `updater/blockimg.cpp` | `NewThreadInfo`: writer, `receiver_available`, mutex, condition variable | `PerformCommandNew`, `receive_new_data`, `receive_brotli_new_data`, `unzip_new_data`, `pbiudone` | two threads, one condition variable, errors on both sides | data in order, complete, nobody sleeps for ever, nothing used after its lifetime |
| applypatch | `applypatch/*.cpp` | patch target, `/cache/saved.file`, free space | `applypatch`, `WriteToPartition`, `FindExpendableFiles`, `MakeFreeSpaceOnCache`, `imgpatch`, `bspatch` | crash between saving the source and writing the target, write-verify-retry | target or source always recoverable; a verified write reports success |
| Edify and updater script functions | `edify/`, `updater/install.cpp`, `updater/updater.cpp` | script variables, command pipe to recovery | evaluation of expressions, mount, format, package extraction | error propagation | an error stops the script |
| Package installation | `install.cpp`, `twinstall.cpp`, `installcommand.cpp`, `verifier.cpp` | log, retry state, child process and its pipe | verify, fork updater, read its commands, report | child dies, retry after I/O errors | only verified packages run; the retry flag survives |
| Recovery main and BCB | `twrp.cpp`, `twrp-functions.cpp`, `bootloader_message_twrp/` | bootloader control block, command file, script in `/tmp` | `get_args`, `Update_Log_File`, `tw_reboot` | crash or power loss at any point; what survives where | an unfinished command is run again; a finished one is not; the device comes to rest |
| Platform recovery, uncrypt | `recovery.cpp`, `bootloader_message/`, `roots.cpp`, `uncrypt/` | block map, retry count | `finish_recovery`, uncrypt setup/clear | - | not part of this recovery (`Android.mk` builds `twrp.cpp`) |
| A/B boot control | `boot_control/boot_control.cpp`, `update_verifier/` | slot metadata: priority, tries, successful, verity flag, CRC | `setActiveBootSlot`, `markBootSuccessful`, `setSlotAsUnbootable`, verification of care maps | crash before/after marking; bootloader concurrently counting down | a bad slot falls back, a good one is never lost |
| Safestrap slots | `safestrap-functions.c`, `gui/action_safestrap.cpp`, `safestrap/devices/common/**.sh`, `safestrap/2nd-init`, `safestrap/splashmenu` | slot files and loop images, mount links, `/ss` partition | change slot, create and delete slots, fixboot, splash menu | a script interrupted half-way, stock slot protection | the active slot exists and is mounted consistently |
| Partition manager | `partition.cpp`, `partitionmanager.cpp` | partition table, mount state, storage choice | mount, wipe, backup, restore, decrypt | nested mounts, `/data/media`, partial failure | no wipe of a storage in use |
| Backup engine | `twrpTar.cpp`, `twrpDigestDriver.cpp`, `exclude.cpp`, `progresstracking.cpp`, `tarWrite.c` | archive threads, child processes and pipes | create and extract in up to 9 threads / 2 processes | fork, pipes, threads, partial failure | a failed child fails the backup |
| ADB backup | `twrpAdbBuFifo.cpp`, `adbbu/` | two FIFOs, control blocks, digest | stream protocol between bu, recovery and the twrp fifo | ordering, end markers, truncated streams | stream accepted only if complete and digests match |
| Sideload | `fuse_sideload.cpp`, `adb_install.cpp`, `minadbd/` | block cache, per-block hashes | FUSE read, exit, flag files | host changes data between reads | a block read twice has one content |
| GUI and scripting | `gui/`, `data.cpp`, `openrecoveryscript.cpp`, `orscmd/`, `infomanager.cpp` | data variables, page stack, action threads, ORS file | actions, threaded actions, `DataManager` with its mutex | one action at a time, re-entry, blank timer | no action lost or run twice |
| MTP responder | `mtp/` | handle tree, inotify watches, sessions | open/close session, add/remove storage, object events | concurrent inotify and USB threads | handles stay unique and valid |
| Decryption | `crypto/` | keys, vold services | `vold_decrypt` starts and stops services | service order and cleanup | everything started is stopped |
| Logs | `rotate_logs.cpp`, `recovery-persist.cpp` | rotated log files | rotate, copy | crash while rotating | no log overwritten twice |
| Pure helpers | `otautil/rangeset.cpp`, `edify/`, `gui/gui.cpp` | none | range algebra, parsing | off-by-one | agree with their definition |
| Vendored code | `libtar/`, `fuse/`, `exfat/`, `dosfstools/`, `toolbox/`, `toybox/`, `minui*`, `openaes/`, `pigz/`, `libmincrypt/`, `libblkid/`, ... | - | - | third-party | not modelled |

How the parts interact: recovery reads the bootloader control block, verifies a package,
forks the updater and reads its commands from a pipe.  The updater evaluates the package's
edify script, which calls `block_image_verify` and then `block_image_update` for each
partition.  Everything a second run of an interrupted update knows is on the
partition, in the stash directory and in the last-command file, which the partitions of a
package share.  On the GUI's side one action thread does the work; a cancel runs beside it in
the GUI thread itself (`gui/action.cpp:197`, `201`).  The two share a pid and a flag and have
nothing in common with the child processes but signals, pipes and files.  Boot control is used by two programs that never
run at the same time, `update_verifier` in the system and the partition manager in recovery.

## 2. Modules

### `NewDataThread` and `NewDataSink`

`NewDataThread` models the two threads.  Each critical section of `nti->mu` is one action;
what happens outside the mutex is an action of its own.  `waiting` is the set of threads
inside `pthread_cond_wait`, a broadcast empties it, and a thread may also leave it
spuriously.  Data is counted in units; unit *p* of the archive entry is meant for target
position *p*, so `block[p]` records which unit reached which position.

| Model | Code |
|---|---|
| `writer`, `receiver_available`, `brotli`, `waiting` | `nti->writer` (0 is `nullptr`), `nti->receiver_available`, `nti->brotli_compressed`, threads in `pthread_cond_wait` |
| `bytes_written` | `RangeSinkWriter::bytes_written_` |
| `size`, `tail` | what is left of the chunk; input of the brotli decoder that yields no more output |
| `PerformCommandNew`, `NewDataWakeup` | `PerformCommandNew` up to its wait, and each return from it |
| `AwaitWriter`, `ReceiveNewData`, `ReceiveFails`, `ClearWriter` | the loop of `receive_new_data` / `receive_brotli_new_data` |
| `StopReceiver`, `JoinReceiver`, `UnzipReturns` | `pbiudone`, `pthread_join`, end of `unzip_new_data` |
| `EarlyReturn` | the returns between `pthread_create` and the command loop |

`ProcessZipEntryContents` and the brotli decoder are external: any chunking, any split of
output between calls, an error at any point.  A well-formed brotli stream is assumed to
have no bytes after its end.

`NewDataSink` is the abstract specification: one thread that copies the entry command by
command.  `CopiesSequentially` says that `NewDataThread` implements it.

### `BlockImage`

`BlockImage` models one partition, its transfer list and any number of runs of
`block_image_verify` followed by `block_image_update`.

| Model | Code |
|---|---|
| `disk`, `synced` | the block device as read, and as of the last `fsync` |
| `stash`, `dir`, `lastcmd` | stash files by id, the stash directory, `last_command_file` |
| `phase`, `step`, `pc` | which function runs, where inside a command it is, `params.cmdindex` (from 1; 0 stands for -1) |
| `saved`, `stash_map`, `createdstash`, `freestash`, `buffer`, `newpos` | the variables of the same name; whether `params.buffer` holds the right source; sections taken from the new-data stream |
| `AlreadyDone`, `FromSource`, `FromStash`, `NoSource` | the outcomes of `LoadSrcTgtVersion3` |
| `Verify...` | the command functions with `canwrite` false, and the check of the saved index |
| `Patch...`, `Stash...`, `PerformCommandFree`, `Fill`, `PerformCommandZero/Erase/New`, `WriteBlocks`, ... | the command functions with `canwrite` true, split where an interruption makes a difference |
| `ParseLastCommandFile` | reading the index at the start of a run; a file that cannot be parsed is deleted |
| `Interrupt`, `Retry`, `Repeat`, `StashRots` | crash, reboot or I/O error; the user installs the package again (nothing in this recovery does) after it or after a success; a stash file that goes bad |
| `OtherPartition` | another partition of the package is updated by the same script: it deletes the shared last-command file, and after this one is done it may leave its own index |
| `FullPackage` | after a phase in `Abandoned` the user installs a full package for the same partition; stash directory and last-command file stay |

Hashes are taken to identify contents, so `VerifyBlocks` is equality with the source or
target contents the package was made for.  A write that is interrupted leaves any mixture
of old, new and torn blocks.  With `PowerLoss` an interruption also loses any part of what
was not synced.  `.partial` files are never read and are removed on start, so a stash file
exists completely or not at all; the failure of `unlink` is not modelled.

`WellFormed` states what the comment above `BlockImageVerifyFn` says the creator of the
transfer list guarantees, plus that a block is written by one command only.  Two further
conditions are *not* guaranteed by that comment and turn out to be needed:
`NoReuse` (a stash id is not written again after it was freed) and `NewTogether` (no
command that records its index comes between two `new` commands).

### `ApplyPatch`

`ApplyPatch` models `applypatch` and `applypatch_flash` on one EMMC target, run again and
again until they return 0.  The partition is a row of chunks holding source, target or
garbage; a SHA-1 matches when all chunks do.  `same` says whether source and target are
the same partition.

| Model | Code |
|---|---|
| `part`, `copy` | the partition; `cache_temp_source` (absent, truncated or partly written, complete) |
| `fd`, `attempt`, `start`, `p`, `verified` | the variables of `WriteToPartition`; `fd` is the *outer* descriptor |
| `Already`, `PatchSource`, `PatchCopy`, `Flash` | the decisions at the start of `applypatch` and `applypatch_flash` |
| `MakeFreeSpaceOnCache`, `SaveFileContents`, `SaveEnds`, `PatchInMemory` | `GenerateTarget` up to the write |
| `OpenTarget` ... `CloseTarget` | `WriteToPartition`, one action per system call that matters, then the `unlink` of the copy |
| `Mishap`, `Crash` | an I/O error, a write that does not stick, a kill or reboot; together at most `MaxMishaps` |

`SaveFileContents` truncates the copy when it opens it and completes it later, in two
actions, because a crash between them is the interesting case.  Applying the patch in
memory either yields the right SHA-1 or fails.

### `FreeCache`

`FreeCache` models one call of `MakeFreeSpaceOnCache`: `Call` (the first `statfs`),
`FindExpendableFiles` (the directories are read), `EliminateOpenFiles` (`/proc` is read, one
process per step), then `Unlink` and `CheckSpace` for each file in the order of its path, while
other processes open, close and pass on files (`Elsewhere`).  `held` is what a process has had
open since the call.  The space of a deleted file is free when nobody has it open.
`FreeSpaceForFile` returns -1 as a `size_t`, which is `SizeMax` here.

The descriptors of one process are read in one step, and only those of a process that has ended
cannot be read (the recovery is root).  `HeldFilesKept` is about one process that keeps a file
open; a file that is handed from a process not yet read to one already read, or opened after
its process was read, may be deleted.

### `RecoveryScript`

`RecoveryScript` models what recovery is told to do and by whom: the arguments in the
bootloader message or the command file, converted to a script in `/tmp` that is run first,
then the OpenRecoveryScript found on `/cache`, then the GUI with its command line tool.

| Model | Code |
|---|---|
| `bcb`, `cmdfile`, `ors`, `orsDisk`, `tmp` | message in misc, `/cache/recovery/command`, the script on `/cache` as seen and as synced, `SCRIPT_FILE_TMP` |
| `hasCache` | whether logs and scripts are on a `/cache` partition (`get_log_dir`) or on `/data`; without one there is no command file to clear, and a wipe of `/cache` fails |
| `started`, `passed` | history: how often a command was started; commands after which the script has gone on |
| `GetArgs`, `Insert_ORS_Command`, `ArgsEnd`, `Decrypt`, `ClearMessage`, `ClearCommandFile`, `Decide` | `main` of `twrp.cpp`, in its order; the two `Clear...` are `Update_Log_File` |
| `RecoveryCommands`, `CopyScript`, `NoScript`, `UnlinkScript`, `ActionEnds` | `Run_OpenRecoveryScript_Action` and `check_for_script_file` |
| `NextLine`, `CommandEnds`, `ScriptEnds` | `run_script_file`; a command is `install`, `wipe`, `sideload`, `reboot`, one whose failure is ignored as well (`quiet`: mount, unmount, cmd) or any other operation, of which only success or failure matters (`Checked`) |
| `CliCommand`, `UserReboots`, `UserEntersRecovery` | `Run_CLI_Command`; the user |
| `Boot`, `Reboots`, `ProcessCrash`, `PowerLoss` | external: the bootloader, init, faults. A crash keeps `/tmp`, a power loss does not and may undo an unlink that was not synced |

### `BootControl`

`BootControl` models the slot metadata and everyone who changes it.  A call of the HAL is one
action that loads, changes and stores the block; a store may stop after any prefix
(`NotSaved`), and the checksum is looked at only when a process initializes the HAL
(`LazyInitialization`).  The calls of one process are serialised by its binder thread, so
calls do not interleave; crashes between them do.

| Model | Code |
|---|---|
| `misc` | the `bootloader_control` block: whether its checksum is right, `slot_info` |
| `image`, `waived` | which cells of a slot's partitions cannot be read; slots that the code marks successful unread |
| `InitDefaultBootloaderControl`, `MarkBootSuccessful`, `SetActiveBootSlot`, `SetSlotAsUnbootable`, `IsSlotMarkedSuccessful` | the functions of the same name, on `slot_info` |
| `AskSuccessful`, `OpenCareMap`, `ReadGroup`, `JoinReaders`, `MarkSuccessful`, `RebootDevice` | `update_verifier`: early exits, care map, reading threads, verdict |
| `UserSwitches`, `RepackSwitches`, `RepackEnds`, `SwitchInit`, `SwitchSet` | `Set_Active_Slot` and `Repack_Images` |
| `BootSystem`, `BootRecovery`, `Engine...` | external: the bootloader takes the bootable slot of highest priority and counts tries down; the update engine makes a slot unbootable, writes it, activates it |

### `FuseSideload` and `AdbSideload`

`FuseSideload` is the file system: requests of several callers, handled one at a time; a read
fetches one or two blocks through the one-block cache.  The provider may deliver another
version of a block or fail after any part of it.  `AdbSideload` extends it with the session
around it: `apply_from_adb` and `adbsideload` on the action thread, `adbsideloadcancel` on the
GUI thread, the `minadbd` child.  `sideload_child_pid` is shared without a lock, and each
read and write of it is a step of its own; it is -1 after a failed fork.  `waitpid(-1)` then
finds no child: the recovery is taken to have no others at that time.

`stale` (history) names the buffers that a failed fetch has overwritten while `curr_block`
still names what they held, `data.stale` those from which a read was answered.  `ServeAlone` is
what the child does by itself, `ServeFetched` what it waits for the host for, and `Fetching`
says that it waits.

One order of events is left out: a cancel pressed before the pid is assigned while the
variable still has the pid of the session before (`PressCancel`).  That cancel signals and
waits for a process that is gone, and its last assignment may then wipe out the pid of the
new child, so that `adbsideload` does not wait for it: without this guard `OneDaemon` is
violated.

### `Nandroid`

`Nandroid` models backup and restore: `Run_Backup` over a list of partitions, each saved by a
forked `twrpTar` process with its archive threads and filter processes or as an image by
`Raw_Read_Write`; digests; `Cancel_Backup` beside it; `Run_Restore` of the last backup or of an
older one.  An archive is a thread's numbered file and is absent, partly written, complete or
damaged.

| Model | Code |
|---|---|
| `apc`, `todo`, `blk`, `ret`, `report` | the action thread: `nandroid`, `Run_Backup`, `Backup_Partition`, `createTarFork`'s parent side, `Raw_Read_Write`, `Run_Restore` |
| `cpc`, `own`, `hit` | a cancel, in the GUI thread; whether the path it removes is the folder of this backup, whether its signal met the child |
| `child`, `thr`, `cnt`, `filter` | the forked process, `tarList` of each thread, its current archive, its pigz/openaes |
| `stop_backup`, `tar_fork_pid` | the shared variables |
| `folder`, `file`, `digest` / `src`, `signed`, `dev` | the backup folder / the backup restored from, the partitions |

`Part` describes the partitions (files or image, threads with their numbers of archives,
filters, sub-partition), `Lists` and `RestoreLists` are the selections of the user for a backup
and for a restore; a restore takes only partitions that `Set_Restore_Files` offers.

A read error while a digest is made or checked is taken for a length (`twrpDigestDriver.cpp:228`)
and the recovery dies: `apc` is then `"crashed"`.

The progress pipe is inherited by the filters, so the parent's read ends only when they have
ended (`PipeEnds`); this is what makes the removal of a cancelled backup safe.

## 3. Runs

| Run | Checks | Result |
|---|---|---|
| `new_data` | order, completeness, ownership of the writer, no false "missing data", termination, refinement of `NewDataSink` | holds |
| `update_interrupted` | type, `NeverUnresumable`, `Recoverable`, `Completes` for six typical lists, with other partitions using the same last-command file | holds |
| `update_faults` | `UpdatedCorrectly`, `SkipIsSafe`, `VerifiedIsResumable` for every short list, with power loss, a bad stash file, indices left by other partitions and a change to a full package | holds |
| `apply_patch` | `Recoverable`, `TargetStays` (what is written completely is never undone), `Completes` with one mishap | holds |
| `apply_patch_verified` | a verified write is reported as success | violated without any fault: the shadowed descriptor |
| `free_cache` | type, `HeldFilesKept` (what a process keeps open is not deleted), `TempSourceKept` | holds |
| `boot_control` | type, `SuccessfulIsChecked` (no slot inherits a mark), `NeverStranded`, `MarkedIsNext`, `SlotShownIsNext`, `ComesUp` | holds |
| `sideload` | type, `SameUnlessStale`, `NoFalseError`, `OneDaemon`, `SideloadEnds` | holds |
| `nandroid` | type, `BackupIsWhole`, `NoWriterInRemoval`, `CheckedIsSound`, `SessionEnds`, `CancelEnds` | holds |
| `nandroid_restore` | a restore fails only for a cause of its own | violated: `stop_backup` is still set from a cancelled backup |
| `recovery_script` | type, `AtMostOnce`, `OrderKept`, `NoBootLoop` | holds |
| `recovery_script_restart` | an unfinished command brings the device back to recovery | violated: the message is cleared before the commands are run |

### Observations

Properties that are stated in the modules, do not hold, and have no run of their own.  Each
can be reproduced by putting the property into the named configuration with the change given.

| Property | Configuration and change | What TLC shows |
|---|---|---|
| `ReceiverEnded` | `MCNewDataThread.cfg` | a bad header or stash directory makes the function return between `pthread_create` and the command loop; the thread runs on, its `nti` on a stack that is gone (`blockimg.cpp:1628`) |
| `UpdatedCorrectly` | `MCBlockImage.cfg`, `Lists <- SplitLists`, `OtherIndices = {}` | a resumed update skips a `new` command while the data stream starts at its beginning; the next `new` writes the wrong data and the result is "t" (`blockimg.cpp:1740`) |
| `UpdatedCorrectly` | `MCBlockImage.cfg` as it is | the same happens through the index that another partition left (`NewFirst`, `blockimg.cpp:77`) |
| `VerifiedIsResumable` | `MCBlockImage.cfg`, `Lists <- ReuseLists`, `Source <- DupSource`, `OtherIndices = {}` | a stash id used again after it was freed: the update starts over and its `free` deletes the copy it needs (`blockimg.cpp:1756`) |
| `SkipIsSafe` | `MCBlockImage.cfg`, `Lists <- OtherLists`, `FullLists <- OtherFull`, `Abandoned <- Anytime`, `OtherIndices = {}` | a full package installed over an interrupted update skips its first commands (`blockimg.cpp:1741`, see the TODO at 1757) |
| `Recoverable` | `MCApplyPatch.cfg`, `MaxMishaps = 2` | interrupted while writing and again while the source, read from its copy, is saved over that copy: neither is left (`applypatch.cpp:220`, `721`) |
| `TargetStays` | `MCApplyPatch.cfg`, `MaxMishaps = 2` | the target is misread, and the run that writes it once more is interrupted |
| `EnoughSpace` | `MCFreeCache.cfg` | a failing `statfs` is returned as -1, more than any need: success without space (`applypatch.cpp:541`, `freecache.cpp:124`, `149`) |
| `FailureIsReal` | `MCFreeCache.cfg` | the loop gives up after the first file that is not enough (`freecache.cpp:144`: the comparison is inverted) |
| `SameData` | `MCAdbSideload.cfg` | a failed fetch overwrites `block_data` while `curr_block` still names the old block; the next read of that block is answered from it (`fuse_sideload.cpp:258`, `261`), against the comment at 24; `SameUnlessStale` says that only reads from such a buffer differ |
| `SideloadEnds` | `MCAdbSideload.cfg`, without `<>[]Fetching \/` | the host does not answer a read: `read_block_adb` waits without a timeout and the installation hangs, the cancel button being gone (`minadbd/fuse_adb_provider.cpp:36`, `gui/action.cpp:1626`) |
| `OneDaemon` | `MCAdbSideload.cfg`, without the second conjunct of `PressCancel` | a cancel that meets the pid of the session before clears that of the new child (`gui/action.cpp:1683`) |
| `CancelKillsChild` | `MCAdbSideload.cfg` | the action thread clears the pid between the cancel's check and its `kill`, which then signals the whole process group; after a failed fork it is `kill(-1)` (`gui/action.cpp:1673`, `1679`) |
| `ChildIsChild` | `MCNandroid.cfg` | a backup started while the last cancel still removes files: the cancel resets `tar_fork_pid` between the fork and the test, and recovery itself runs the child's code up to `_exit` (`twrpTar.cpp:145`, `partitionmanager.cpp:848`) |
| `NeverStranded` | `MCBootControl.cfg`, `MaxTorn = 2` | a second torn write after a repair whose result was ignored leaves a block with a right checksum and no good slot (`boot_control.cpp:237`) |

Read in the code while modelling, without a property: with power loss the copy of an
overlapping source is unlinked before the target is synced (`blockimg.cpp:1457`, `1767`), so
an update can become unresumable; `Repack_Images` leaves the other slot active on its error returns, and
the slot shown is set even when the HAL refuses; `update_verifier` leaves a slot unmarked when
the HAL answers `INVALID_SLOT`; `fuse_sideload.cpp:254` multiplies in 32 bits; comments there
announce `EINVAL` (27, 271) and the code returns `EIO` (288).  A cancel pressed after the verdict
removes a backup that was reported as a success; one of a backup named "(Current Date)", or
of a Safestrap build, removes another path than the one written; a failed fork leaves the pid
-1 for a later `kill`; `Clean_Backup_Folder` leaves split archives behind; digests exist only
for thread 0, and for a sub-partition the parent's file is checked again
(`partitionmanager.cpp:1185`).  A crash of recovery runs the script in `/tmp` again from its
start; `wipe cache` in the first script deletes an OpenRecoveryScript that was to follow; a
`reboot` line does not end its script; `twrp decrypt` looks for the script under another name
(`openrecoveryscript.cpp:721`).

### Bounds

* `new_data`: two `new` commands of one and two units, entries of 0 to 4 units (short,
  exact, too long), chunks of every size, a brotli output buffer of one unit, one blank
  input.  Two commands are needed to hand a chunk over from one writer to the next; the
  theorems cover all other sizes.
* `update_interrupted`: three blocks, six lists (swap through a stash, in-place diff, chain
  of overlapping moves, implicit and explicit stash of the same hash, `new` before the only
  index, a stash never freed), three interruptions.  The third matters: an interruption may
  hit the recovery from an interruption that hit the recovery from the first.
* `update_faults`: the 1024 well-formed lists of at most three commands on two blocks whose
  `new` commands no index separates (`Unsplit`), two restarts, one bad stash file; other
  partitions leave the index 2, inside the lists, or 4, beyond all of them.  Three commands
  suffice for stash, use and overwrite.
* `apply_patch`: three chunks, so that a verification can fail at the first, a middle and
  the last one; one mishap (what two do is among the observations).
* `free_cache`: three files, one of them the saved source, sizes and free space 0 or 1, two other
  processes: one already read and one still to be read, between which files are passed.
* `boot_control`: two slots, two partitions read by two threads each, tries 3 and 2 instead
  of 7 and 6 (enough to run out), two power losses or read errors and one torn write.  The
  unreadable group is the last one, so all others must be read first.
* `sideload`: a file of one and a half blocks, so there is a full, a padded and an absent
  block; reads inside a block, across two and across the end; three reads (first, a failing one
  or another block, first again), two versions, two sessions (the second meets what the first
  left).
* `nandroid`: three partitions - files in three threads with filters and thread 0 first, a
  sub-partition in one archive, an image of two blocks - in both orders; two sessions (a
  backup and what follows it) and one failure.
* `recovery_script`: two argument lists, two scripts and one command-line command that
  cover every kind of command, with a wipe and a mount, whose failures are ignored, in front of
  others; with and without `/cache`; two faults, two visits of the user.

### Fairness

`NewDataThread` assumes weak fairness of each thread: both keep being scheduled and their
system calls return.  Spurious wakeups are allowed and not relied on.  `BlockImage` assumes
weak fairness of the updater and of `Retry`, and `ApplyPatch` of `Run`: someone installs the
package again after an interruption.  This is
an assumption on the user: the platform's `recovery.cpp` retries through the bootloader message,
but it is not built here, and this recovery clears the message before the command is run (see
`recovery_script_restart`).  The number of interruptions is bounded, hence finite.
`BootControl` assumes that a boot that has begun goes on; `RecoveryScript` that the device boots,
commands end and init reboots when asked; `AdbSideload` that its threads run, that the child
answers what it can answer without the host and that it exits when told to; `Nandroid` that
its threads and processes are scheduled and that a filter ends when its input does.  Of the adb
host nothing is assumed: it may change, fail or stall, and `SideloadEnds` names the stalled read
as the one case in which a session does not end.  Nothing is assumed of users (but the above),
the update engine, crashes, rot or other processes.

## 4. Proofs

`NewDataThreadProofs` proves, for any number of `new` commands, sizes and entries, that the
hand-over keeps its types, the data arrives in order, success means completely written, the
writer is used only while its owner waits, "missing data" is never a false alarm, and the
receiver is joined; and that it implements `NewDataSink`.  Everything follows from one
inductive invariant `Inv`: `WriterInv` (which writer is published, how far it is),
`ThreadInv` (where one thread can be given where the other is), `DataInv` (the partition
holds exactly the units up to the cursor, and the next unit of the stream is the next one
wanted), `FaultInv` (why the receiver can have ended).  `InOrder` alone is not inductive:
that a write puts the right unit at the right place needs `pos = Cursor`, and that needs the
ownership of the writer.

Two more theorems are what termination rests on.  `NoDeadlock`: until
`PerformBlockImageUpdate` has returned, one of the two threads is at a step that it does not
answer by going to sleep.  It follows from `SleepInv`, the absence of lost wakeups: who sleeps
on the condition variable still has something to wait for, because whoever ends a wait
broadcasts.  `WorkShrinks`: `Work`, a natural number made of the commands left, the units and
blank chunks left in the entry and the place in the two loops, never rises; a thread that can go
on lowers it with its next step and stays able to until it has taken it.  A sleep or a spurious
wakeup leaves it as it is.  With weak fairness of the two threads `Terminates` follows; that last
step is not proved.

`BlockImageProofs` proves, for every partition, every set of well-formed lists, any number of
interruptions, with or without power loss and bad stash files, and any indices that the updates
of other partitions leave in the last-command file (`OtherIndices`):

* `TypeCorrect`, if a full package is not installed over an interrupted update
  (`"interrupted" \notin Abandoned`; the observation on `SkipIsSafe` shows why);
* `SuccessMeansTarget`: `Spec => []UpdatedCorrectly`, and `SkippingIsSafe`:
  `Spec => []SkipIsSafe`, if moreover no index that a run may start from comes between two `new`
  commands: neither that of a command that records its own (`NewTogether`) nor one of another
  partition (`Unsplit`; the two observations on `UpdatedCorrectly` show why).

The inductive invariant has six parts.  `IndexInv`: the last-command file names a command
that records its index or what another partition left (`Recorded`); during an update it is what
the run started from, or lies between that and where the run is.  `StepInv`:
where inside a command the run is, and that the buffer holds the right source there.
`DiskInv`: nothing outside the targets changes and only the current target is unsynced, so
a power loss undoes nothing that was passed.  `DoneInv`: commands that were passed or will be
skipped are done; for `zero`, `erase` and `new` this rests on the index having been written
after them, or after this update was completed if another partition left it, for `move` and
diffs on the verification that just succeeded.  `NewInv`: the position in the new-data stream is
the number of `new` commands executed in this run, which with `Unsplit` is the section the next
one needs.  Without `DoneInv` for the phases
before the update, `SkipIsSafe` is not inductive: the update never looks at what it skips.

Three theorems are about resumption.  They allow any number of interruptions, any index left by
other partitions and a full package at any time, and need that the list does not write a stash id
again after freeing it (`NoReuse`; see the observation on `VerifiedIsResumable`).

* `AlwaysResumable` (`[]NeverUnresumable`) and `SourceIsKept` (`[]Recoverable`) hold without power
  loss (`PowerLoss = FALSE`; with it the copy of a source can be gone before the target is
  synced, `blockimg.cpp:1457`, `1767`) and without bad stash files (`MaxRots = 0`).
* `VerifiedMayBeResumed` (`Spec => VerifiedIsResumable`) holds with power loss too, and as long as
  no stash file has gone bad.

They share `BaseInv`: types without bad stash files, `SyncInv`, `DirInv` (no stash files without
the directory, none that a verification would remove), `PatchInv` (moves and diffs that were
passed are done, so that nothing written or freed behind them matters), `CopyInv` (the copy of
the current command is there until its write is over) and `MapInv` (what a verification finds
in `stash_map` is what some stash command would read, and a stash file is preferred to it).
Without power loss `SourceInv` is added: a command that is not done has its source on the
partition or a copy in the stash, and each stash it loads is in the stash or still to be made
from clean blocks by a command that no run skips (`Passed`).  With power loss a write that was
done may be undone after its copy was freed.  `StashInv` survives this, because it speaks of the
commands that are not surely done (`Open`) and of what they load (`Needs`), which is not freed
until they have been synced; `OwnInv`, the source of the command itself, is established by the
verification, command by command, and kept by the update.  `SharedInv` and `FreeInv` deal with
two commands of the same source hash: nothing relies on a copy that will be freed.

`ApplyPatchProofs` proves for images of any number of chunks and any number of crashes, errors
and bad writes that `ApplyPatch` keeps its types (`TypeCorrect`).  `ResultInv` adds to the types
what makes them inductive: what the verification has passed is of the target, there is a third
attempt in no run.  `OneMishapIsRecoverable` is `[]Recoverable` under `MaxMishaps <= 1` (an
observation shows that two mishaps break it).  `CopyInv` says at which step which of the three is
intact, target, source or copy, and what a run in which nothing has failed yet may rely on.
`TargetIsKept` is `TargetStays` under the same assumption.  The mishap may be what lets a later run
misread a target that is in place; `FirstInv` says how the partition got there: before the first
mishap a run writes from the first chunk to the last and leaves a complete target alone, so
whoever misreads it has no mishap left to stop the rewrite, which puts the same contents in
place.

`FreeCacheProofs` proves, for any files, sizes and need, that the saved source is never deleted
(`SavedSourceKept`; the invariant is that it is present and not among the files chosen) and that
no file is deleted that one process keeps open (`HeldFilesAreKept`).  `HeldInv` is about the walk
over `/proc`: the files still to be deleted have none that a process already read has held since
the call, and no process is unread when the deletions begin.  `Types` says that the free
space never leaves its range: what is free is bounded by what was free before and the sizes of
the files that are gone, so a sum over a set of files must be bounded for sets of any size.  The
provers cannot use the library's induction, which takes a property as a parameter; here a set
takes its place (`SubsetInduction`: otherwise there would be a smallest subset outside it, by the
well-foundedness of strict inclusion on finite sets).  From it follow that the recursion behind
the sum has one solution (`SumsExist`, `SumsUnique`) and that the sum is bounded (`SumBound`).

`AdbSideloadProofs` proves for every block size, file size and set of versions:

* `OneDaemonAlways`.  `DaemonInv` says at which steps of the two threads the child cannot be
  alive; its difficult part is `sideload_child_pid = 0`, which both threads read and clear.
* `Types`, for which the shape of requests and blocks (`Shape`: a block is inside the file, a
  second block is the next one) must be known.
* `SameDataUnlessStale`.  `SameInv`: unless it is stale, the cache holds the block it is named for
  in the version whose hash was recorded (`CacheOK`), and so does the part that a read across two
  blocks has already copied (`ExtraOK`); what was first returned for a position from a buffer that
  was not stale is of that version too (`FirstOK`).  A failed fetch makes the buffer stale, and the
  next good fetch ends that, so the theorem goes on to speak of all reads after a failure.
* `NoFalseErrors`, from `HashInv` (a recorded hash is that of a version as it was fetched,
  padding included) and `ErrInv`.
* `NobodyWaitsInVain` (`[]WaitsAreServed`): the waits for the child after a timeout or a kill find
  it dead, the wait after an installation finds it dead or unmounted, and a request without an
  answer lies with a child that serves a mounted file system.  `ServerInv`: only a serving child
  is mounted, and the request for the exit file is not answered while it is.  `SideloadEnds` rests
  on this.

`BootControlProofs` proves for any number of slots, partitions and readers:

* `Types`: priorities stay in four bits and tries in three, through torn writes and repairs.
* `MarksAreChecked`.  `EngineInv`: the update engine writes only a slot that is not running
  and not marked.  `CheckedInv`: while the care map is read, unreadable cells lie in groups
  not yet passed.
* `MarkedSlotIsNext` from `SettledInv` (the marked slot has the top priority of an intact
  block, and so has the slot that is being booted), `ShownSlotIsNext` from `ShownInv`.
* `AlwaysBootable`: `[]NeverStranded` under `MaxTorn <= 1` (an observation shows what a second
  torn write does).  `GoodInv`: there is a marked slot with tries and priority, even while the
  checksum is wrong; the repair keeps it because the running slot has one.

`RecoveryScriptProofs` proves for any commands, lists, scripts and any number of faults:

* `Types`; here `ListInv` (what is still to be converted is an end of what was asked for) does
  the work.
* `StartedInOrder`.  `OrderKept` speaks of what was started; the invariant must speak of the
  script in `/tmp`, which a crash leaves half converted and the next start extends.
  `WellOrdered(tmp, l)`: every command of `l` in it stands directly behind its predecessor in
  `l`, however often the list was inserted.  `RunOrder`: lines passed without an error are
  among `passed`.
* `StartedOnce`.  `OnceInv` holds until recovery crashes or the message cannot be cleared: a
  message or command file that is still there has not been started (`MessageInv`; that a device
  without `/cache` has no command file is part of the types); the script
  in `/tmp` is a beginning of the list, and what stands behind the current line has not been
  started (`ScriptInv`).

`NandroidProofs` proves for any partitions, threads, splits, filters and lists, and any number
of sessions and failures:

* `Types`.  `TarInv` ties child, threads and filters to the first partition of the list.
* `NothingWritesInRemoval`, from `CancelInv` (a cancel that is still removing when
  `stop_backup` is cleared has the folder of an earlier backup) and `HitInv` (once the signal has
  met the child, the action thread can only reap it and fail).
* `SuccessMeansWhole`.  `ThreadInv`: the archives that a thread has closed are whole, and one
  behind a filter is whole when the filter has ended well; a child that exits well has all
  threads done.  `DoneInv`: of the list, all partitions no longer to do are whole, but for the
  one that is worked on should the list name it twice.  Both hold only while
  `stop_backup = 0`, which is why `CancelInv` is needed again: the removal of an earlier cancel
  must not touch this folder.
* `ChecksAreSound`, from `CheckInv`: of what is still to be restored, every archive that
  `Check_Digest` looks at is whole.
* `NobodyWaitsInVain` (`[]NeverStuck`): while a backup or restore is going on, the action thread, a
  thread of the tar process or a filter can go on, and Cancel_Backup's loop on `kill(pid, 0)` waits
  only while the action thread is on its way to reap the child, or after a failed fork.  The
  argument takes the first thread of the tar process that is not done: those before it are
  done, so it is running, or has failed and lets the process exit, or waits for its filter, which
  then sees the end of its input.  That there is a first one uses that threads are numbered 0 to 8
  (`twrpTar.cpp:170`).  `StuckInv`: a child is there until it is reaped, and a folder that was
  removed held no archive.  `SessionEnds` and `CancelEnds` rest on this.
* `FailuresHaveCauses` (`[][FailureHasCause]_vars`) bounds what `nandroid_restore` finds: a restore
  that fails meets a failing operation or a flawed backup, or it writes an image with `stop_backup`
  set.  Extracting files never fails for that flag.

The types of `NewDataThread` and `ApplyPatch`, that the receiver is joined (`ReceiverIsJoined`)
and the theorems that nobody is stuck (`NoDeadlock`, `WorkShrinks`, both `NobodyWaitsInVain`) are
proved and have no run of their own; the runs check the liveness that these theorems are for.
`FailuresHaveCauses` has none either: the run on restores shows that its exception is real.

Attempted proofs have corrected the models in four places: with three or more slots
`MarkedIsNext` was false in the model, because the update engine taking the marked slot out of
use did not end the promise; the commands of `RecoveryScript` and its lists lacked the
assumption that lists consist of commands; the archives of a thread are bounded by 100 as in
`twrpTar.cpp:808`; and a restore takes any selection of the partitions offered
(`RestoreLists`) instead of the backup's list without what is missing.

Assumptions on constants are the named `ASSUME`s of each module; TLC evaluates them in every
run.  Only model-checked is liveness (`Terminates`, `Completes`, `ComesUp`, `SideloadEnds`,
`SessionEnds`, `CancelEnds`, `NoBootLoop`), which is out of reach of the proof system.  Of
`Terminates` everything but the step from weak fairness to "eventually" is proved for all values of
the constants; of `SideloadEnds`, `SessionEnds` and `CancelEnds`, that no state is stuck.

## 5. Plan

Modelled in this order so far: the new-data thread, the block-image updater, applypatch and
the cache, boot control, sideload, backup and restore, the commands recovery starts with.
What is left, most valuable first:

1. ADB backup: the control blocks of the stream, truncated and reordered input.
2. Package installation: the updater's pipe and its end; range sets against sets of blocks.
3. The MTP handle tree; Safestrap slots, if their scripts settle on one layout.

## 6. Not modelled

Patch formats (pure, their result is checked by SHA-1), rendering and page handling,
cryptography, mount and format tools, log rotation, device-specific code and vendored
libraries.  `recovery.cpp` is not part of the program that is built.  In the modelled parts:

* updater: parsing of transfer-list tokens, progress output, the check of the space on
  `/cache` before stashing, `range_sha1`, `check_first_block`, `block_image_recover`,
  `applypatch_check` (they only read, or repair single blocks by error correction), MTD or
  BML targets;
* boot control: `verity_corrupted` (no code reads it), several services at once;
* sideload: a cancel that meets the pid of an earlier session before the new one is assigned
  (section 2), the sdcard provider (the same file system over a file);
* backup: flash_utils images, the adb stream, `TW_SKIP_DIGEST_GENERATE`, failure of
  `pthread_create`, a cancel before `Run_Backup` has cleared `stop_backup`;
* scripts: the operations behind the commands, `runscript`, `get` and `decrypt` of the command
  line tool; a device without a misc partition is covered only as one whose reads and writes of
  it fail.
