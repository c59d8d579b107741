----------------------------- MODULE ApplyPatch -----------------------------
(***************************************************************************)
(* applypatch and applypatch_flash of applypatch/applypatch.cpp: replacing *)
(* the image on one partition, with a copy of the source on /cache, by a   *)
(* program that may be killed and is run again.                            *)
(*                                                                         *)
(* The target partition is a row of chunks, each of the source image, of   *)
(* the target image or garbage; a SHA-1 matches when every chunk is right. *)
(* The source is the same partition, or another one that stays intact.     *)
(***************************************************************************)
EXTENDS Integers

CONSTANTS
  N,          \* number of chunks of an image
  MaxMishaps  \* bound on crashes, I/O errors and writes that do not stick

ASSUME SizeAssumption == N \in Nat \ {0} /\ MaxMishaps \in Nat

VARIABLES
  same,     \* <target_filename> is <source_filename>
  part,     \* the chunks of the target partition
  copy,     \* cache_temp_source: "none", "partial" or "source"
  mode,     \* what the script asks for: "patch" or "flash"
  pc,       \* where the run is
  fd,       \* the descriptor of WriteToPartition (the outer one) is open
  attempt, start, p,   \* attempts made; position of the write; of the verification
  verified, \* "verification read succeeded"
  result,   \* what the last run returned
  mishaps

persistent == <<same, part, copy>>
writing    == <<fd, attempt, start, p, verified>>
vars       == <<persistent, mode, pc, writing, result, mishaps>>

Chunks == 1..N
PC == {"idle", "space", "save", "saving", "patch", "open", "seek", "write", "verify", "close",
       "returned"}

TypeOK ==
  /\ same \in BOOLEAN
  /\ part \in [Chunks -> {"s", "t", "g"}]
  /\ copy \in {"none", "partial", "source"}
  /\ mode \in {"patch", "flash"} /\ pc \in PC
  /\ fd \in BOOLEAN /\ attempt \in 0..2 /\ start \in 0..N /\ p \in 0..N
  /\ verified \in BOOLEAN /\ result \in {0, 1} /\ mishaps \in 0..MaxMishaps

Init ==
  /\ same \in BOOLEAN
  /\ part = [c \in Chunks |-> IF same THEN "s" ELSE "g"]
  /\ copy = "none"
  /\ mode \in {"patch", "flash"} /\ pc = "idle"
  /\ fd = FALSE /\ attempt = 0 /\ start = 0 /\ p = 0 /\ verified = FALSE
  /\ result = 1 /\ mishaps = 0

IsSource == \A c \in Chunks : part[c] = "s"

\* LoadPartitionContents finds the size and SHA-1 of the target.
IsTarget == \A c \in Chunks : part[c] = "t"

Mishap == mishaps < MaxMishaps /\ mishaps' = mishaps + 1

Goto(s) ==
  /\ pc' = s
  /\ UNCHANGED <<same, mode, verified, result>>

\* The run returns an error and leaves everything else as it is.
Fail ==
  /\ pc' = "returned" /\ result' = 1
  /\ UNCHANGED <<persistent, mode, writing>>

\* The program is run, and not run again once it has returned 0.
Begin(m) ==
  /\ mode = m
  /\ pc = "idle" \/ (pc = "returned" /\ result # 0)
  /\ verified' = FALSE
  /\ UNCHANGED <<persistent, mode, fd, attempt, start, p>>

(***************************************************************************)
(* applypatch                                                              *)
(***************************************************************************)

\* "already"
Already ==
  /\ Begin(mode)
  /\ IsTarget
  /\ pc' = "returned" /\ result' = 0
  /\ UNCHANGED mishaps

SourceReadable == ~same \/ IsSource

\* Mutant: what can be used is passed over.
ReadFails_Free(readable) == UNCHANGED mishaps

\* What could have been used is passed over only when reading it fails.
ReadFails(readable) == IF readable THEN Mishap ELSE UNCHANGED mishaps

PatchSource ==
  /\ Begin("patch") /\ SourceReadable
  /\ ReadFails(IsTarget)
  /\ pc' = "space"
  /\ UNCHANGED result

\* Mutant: the copy is not looked for.
PatchCopy_Ignored ==
  /\ Begin("patch") /\ ~IsTarget /\ ~SourceReadable
  /\ pc' = "returned" /\ result' = 1
  /\ UNCHANGED mishaps

\* "source file is bad; trying copy"
PatchCopy ==
  /\ Begin("patch")
  /\ ReadFails(IsTarget \/ SourceReadable)
  /\ IF copy = "source" THEN pc' = "space" /\ UNCHANGED result
                        ELSE pc' = "returned" /\ result' = 1

(***************************************************************************)
(* GenerateTarget                                                          *)
(***************************************************************************)
MakeFreeSpaceOnCache ==
  /\ pc = "space"
  /\ \/ Goto("save") /\ UNCHANGED <<part, copy, fd, attempt, start, p, mishaps>>
     \/ Mishap /\ Fail

\* SaveFileContents opens the copy with O_TRUNC, even when the source was read from it,
SaveFileContents ==
  /\ pc = "save"
  /\ copy' = "partial"
  /\ Goto("saving")
  /\ UNCHANGED <<part, fd, attempt, start, p, mishaps>>

\* Mutant: the source is not saved.
SaveEnds_Skipped ==
  /\ pc = "saving"
  /\ Goto("patch") /\ UNCHANGED <<part, copy, fd, attempt, start, p, mishaps>>

\* and writes and syncs the data.
SaveEnds ==
  /\ pc = "saving"
  /\ \/ copy' = "source" /\ Goto("patch") /\ UNCHANGED <<part, fd, attempt, start, p, mishaps>>
     \/ Mishap /\ Fail

\* The patch is applied in memory and its SHA-1 compared with the target's.
PatchInMemory ==
  /\ pc = "patch"
  /\ \/ Goto("open") /\ UNCHANGED <<part, copy, fd, attempt, start, p, mishaps>>
     \/ Mishap /\ Fail

(***************************************************************************)
(* applypatch_flash: the source image is a file; without a usable one the  *)
(* run fails, at the latest when it writes from an empty buffer.           *)
(***************************************************************************)
Flash ==
  /\ Begin("flash")
  /\ \/ ReadFails(IsTarget) /\ pc' = "open" /\ UNCHANGED result
     \/ Mishap /\ pc' = "returned" /\ result' = 1

(***************************************************************************)
(* WriteToPartition                                                        *)
(***************************************************************************)
OpenTarget ==
  /\ pc = "open"
  /\ \/ /\ fd' = TRUE /\ attempt' = 0 /\ start' = 0
        /\ Goto("seek") /\ UNCHANGED <<part, copy, p, mishaps>>
     \/ Mishap /\ Fail

\* lseek(fd, start): fails on a descriptor that has been closed.
SeekTarget ==
  /\ pc = "seek"
  /\ IF fd THEN Goto("write") /\ UNCHANGED <<part, copy, fd, attempt, start, p>> ELSE Fail
  /\ UNCHANGED mishaps

\* A chunk is written; it may not stick.
WriteChunk ==
  /\ pc = "write" /\ start < N
  /\ \/ part' = [part EXCEPT ![start + 1] = "t"] /\ UNCHANGED mishaps
     \/ part' = [part EXCEPT ![start + 1] = "g"] /\ Mishap
  /\ start' = start + 1
  /\ Goto("write")
  /\ UNCHANGED <<copy, fd, attempt, p>>

\* A write, fsync, close, reopen, or the read that verifies it, fails.
WriteFails ==
  /\ pc \in {"write", "verify"}
  /\ Mishap /\ Fail

\* fsync and close; the partition is opened again under a new descriptor with the same name.
CloseForVerify ==
  /\ pc = "write" /\ start = N
  /\ fd' = FALSE
  /\ p' = 0
  /\ Goto("verify")
  /\ UNCHANGED <<part, copy, attempt, start, mishaps>>

VerifyChunk ==
  /\ pc = "verify" /\ p < N
  /\ IF part[p + 1] = "t"
       THEN /\ p' = p + 1
            /\ Goto("verify") /\ UNCHANGED <<part, copy, fd, attempt, start>>
       ELSE /\ start' = p /\ attempt' = attempt + 1
            /\ IF attempt' < 2
                 THEN Goto("seek") /\ UNCHANGED <<part, copy, fd, p>>
                 ELSE /\ pc' = "returned" /\ result' = 1
                      /\ UNCHANGED <<persistent, mode, fd, p, verified>>
  /\ UNCHANGED mishaps

Verified ==
  /\ pc = "verify" /\ p = N
  /\ verified' = TRUE
  /\ pc' = "close"
  /\ UNCHANGED <<persistent, mode, fd, attempt, start, p, result, mishaps>>

\* ota_close(fd) of the outer descriptor, and on success of a patch the end of GenerateTarget,
\* which deletes the copy.
CloseTarget ==
  /\ pc = "close"
  /\ IF fd THEN /\ pc' = "returned" /\ result' = 0 /\ fd' = FALSE
                /\ copy' = IF mode = "patch" THEN "none" ELSE copy
                /\ UNCHANGED <<same, part, mode, attempt, start, p, verified>>
           ELSE Fail
  /\ UNCHANGED mishaps

Run ==
  \/ Already \/ PatchSource \/ PatchCopy \/ MakeFreeSpaceOnCache \/ SaveFileContents \/ SaveEnds
  \/ PatchInMemory \/ Flash \/ OpenTarget \/ SeekTarget \/ WriteChunk \/ WriteFails \/ CloseForVerify
  \/ VerifyChunk \/ Verified \/ CloseTarget

\* The program is killed or the device reboots.
Crash ==
  /\ pc \notin {"idle", "returned"}
  /\ Mishap
  /\ pc' = "idle" /\ fd' = FALSE
  /\ part' \in IF pc = "write" /\ start < N
                 THEN {part, [part EXCEPT ![start + 1] = "g"]} ELSE {part}
  /\ UNCHANGED <<same, copy, mode, attempt, start, p, verified, result>>

Finished == pc = "returned" /\ result = 0 /\ UNCHANGED vars

Next == Run \/ Crash \/ Finished

\* A run makes progress, and the program is run again after a crash or a failure.
Spec == Init /\ [][Next]_vars /\ WF_vars(Run)

----------------------------------------------------------------------------
\* "idempotent (it's okay to run this program multiple times)": once the whole target is on the
\* partition no later run undoes it, not even the run that follows a verified write reported as
\* an error and not one that is interrupted.
TargetStays == [][(\A c \in Chunks : part[c] = "t") => \A c \in Chunks : part'[c] = "t"]_vars

\* "safe (the original file is not touched until we have the desired replacement for it) and
\* idempotent (it's okay to run this program multiple times)": between runs of a patch the
\* partition or the copy holds what the next run needs.
Recoverable ==
  (mode = "patch" /\ pc \in {"idle", "returned"}) => IsTarget \/ SourceReadable \/ copy = "source"

\* "Return 0 on success": a write that has been verified is reported as successful.
VerifiedIsSuccess == (pc = "returned" /\ verified) => result = 0

\* Running it again until it returns 0 comes to an end.
Completes == <>(pc = "returned" /\ result = 0)
=============================================================================
