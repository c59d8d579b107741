-------------------------- MODULE ApplyPatchProofs --------------------------
(***************************************************************************)
(* Theorems about ApplyPatch, for images of any number of chunks and any   *)
(* number of mishaps.                                                      *)
(***************************************************************************)
EXTENDS ApplyPatch, TLAPS

\* What the verification of WriteToPartition has passed is of the target image, nothing but the
\* target image makes a run return 0, and no third attempt is made.
ResultInv ==
  /\ pc = "verify" => \A c \in Chunks : c <= p => part[c] = "t"
  /\ pc = "close" => IsTarget
  /\ result = 0 => pc = "returned" /\ IsTarget
  /\ pc \in {"seek", "write", "verify"} => attempt < 2

\* The inductive invariant.
Inv == TypeOK /\ ResultInv

LEMMA InitInv == Init => Inv
<1> SUFFICES ASSUME Init PROVE Inv
  OBVIOUS
<1>1. part \in [Chunks -> {"s", "t", "g"}]
  <2>1. CASE same
    BY <2>1 DEF Init
  <2>2. CASE ~same
    BY <2>2 DEF Init
  <2> QED
    BY <2>1, <2>2
<1>2. same \in BOOLEAN /\ fd \in BOOLEAN /\ verified \in BOOLEAN
  BY Zenon DEF Init
<1>3. TypeOK
  BY <1>1, <1>2, SizeAssumption DEF Init, TypeOK, PC
<1> QED
  BY <1>3 DEF Init, Inv, ResultInv

LEMMA StepInv == Inv /\ [Next]_vars => Inv'
<1> SUFFICES ASSUME Inv, [Next]_vars PROVE Inv'
  OBVIOUS
<1> USE SizeAssumption DEF Inv, TypeOK, ResultInv, PC, Chunks, persistent, writing, IsTarget
<1>1. CASE Already
  BY <1>1 DEF Already, Begin
<1>2. CASE PatchSource
  <2>1. mishaps' \in 0..MaxMishaps
    BY <1>2 DEF PatchSource, ReadFails, Mishap
  <2>2. UNCHANGED <<same, part, copy, mode, fd, attempt, start, p>> /\ verified' = FALSE
    BY <1>2 DEF PatchSource, Begin
  <2>3. pc' \in {"space", "returned"} /\ result' = 1 /\ result = 1
    BY <1>2 DEF PatchSource, Begin
  <2>4. same' \in BOOLEAN /\ fd' \in BOOLEAN /\ verified' \in BOOLEAN
    BY <2>2, <2>3, Zenon
  <2> QED
    BY <2>1, <2>2, <2>3, <2>4
<1>3. CASE PatchCopy
  <2>1. mishaps' \in 0..MaxMishaps
    BY <1>3 DEF PatchCopy, ReadFails, Mishap
  <2>2. UNCHANGED <<same, part, copy, mode, fd, attempt, start, p>> /\ verified' = FALSE
    BY <1>3 DEF PatchCopy, Begin
  <2>3. pc' \in {"space", "returned"} /\ result' = 1 /\ result = 1
    BY <1>3 DEF PatchCopy, Begin
  <2>4. same' \in BOOLEAN /\ fd' \in BOOLEAN /\ verified' \in BOOLEAN
    BY <2>2, <2>3, Zenon
  <2> QED
    BY <2>1, <2>2, <2>3, <2>4
<1>4. CASE MakeFreeSpaceOnCache
  BY <1>4 DEF MakeFreeSpaceOnCache, Goto, Mishap, Fail
<1>5. CASE SaveFileContents
  BY <1>5 DEF SaveFileContents, Goto
<1>6. CASE SaveEnds
  BY <1>6 DEF SaveEnds, Goto, Mishap, Fail
<1>7. CASE PatchInMemory
  BY <1>7 DEF PatchInMemory, Goto, Mishap, Fail
<1>8. CASE Flash
  <2>1. mishaps' \in 0..MaxMishaps
    BY <1>8 DEF Flash, ReadFails, Mishap
  <2>2. UNCHANGED <<same, part, copy, mode, fd, attempt, start, p>> /\ verified' = FALSE
    BY <1>8 DEF Flash, Begin
  <2>3. pc' \in {"open", "returned"} /\ result' = 1 /\ result = 1
    BY <1>8 DEF Flash, Begin
  <2>4. same' \in BOOLEAN /\ fd' \in BOOLEAN /\ verified' \in BOOLEAN
    BY <2>2, <2>3, Zenon
  <2> QED
    BY <2>1, <2>2, <2>3, <2>4
<1>9. CASE OpenTarget
  <2>1. CASE Fail
    BY <1>9, <2>1 DEF OpenTarget, Mishap, Fail
  <2>2. CASE Goto("seek")
    <3>1. fd' \in BOOLEAN
      BY <1>9, Zenon DEF OpenTarget, Fail
    <3> QED
      BY <1>9, <2>2, <3>1 DEF OpenTarget, Mishap, Goto, Fail
  <2> QED
    BY <1>9, <2>1, <2>2 DEF OpenTarget
<1>10. CASE SeekTarget
  BY <1>10 DEF SeekTarget, Goto, Fail
<1>11. CASE WriteChunk
  BY <1>11 DEF WriteChunk, Goto, Mishap
<1>12. CASE WriteFails
  BY <1>12 DEF WriteFails, Mishap, Fail
<1>13. CASE CloseForVerify
  <2>1. fd' \in BOOLEAN
    BY <1>13, Zenon DEF CloseForVerify
  <2> QED
    BY <1>13, <2>1 DEF CloseForVerify, Goto
<1>14. CASE VerifyChunk
  <2>1. CASE part[p + 1] = "t"
    BY <1>14, <2>1 DEF VerifyChunk, Goto
  <2>2. CASE part[p + 1] # "t" /\ attempt = 0
    BY <1>14, <2>2 DEF VerifyChunk, Goto
  <2>3. CASE part[p + 1] # "t" /\ attempt = 1
    BY <1>14, <2>3 DEF VerifyChunk
  <2> QED
    BY <1>14, <2>1, <2>2, <2>3 DEF VerifyChunk
<1>15. CASE Verified
  BY <1>15 DEF Verified
<1>16. CASE CloseTarget
  BY <1>16 DEF CloseTarget, Fail
<1>17. CASE Crash
  <2>1. part' \in [Chunks -> {"s", "t", "g"}]
    BY <1>17 DEF Crash
  <2>2. mishaps' \in 0..MaxMishaps /\ pc' = "idle" /\ result' = 1 /\ fd' = FALSE
    BY <1>17 DEF Crash, Mishap
  <2>3. UNCHANGED <<same, copy, mode, attempt, start, p, verified>>
    BY <1>17 DEF Crash
  <2>4. same' \in BOOLEAN /\ fd' \in BOOLEAN /\ verified' \in BOOLEAN
    BY <2>2, <2>3, Zenon
  <2> QED
    BY <2>1, <2>2, <2>3, <2>4
<1>18. CASE UNCHANGED vars
  BY <1>18 DEF vars
<1> QED
  BY <1>1, <1>2, <1>3, <1>4, <1>5, <1>6, <1>7, <1>8, <1>9, <1>10, <1>11, <1>12, <1>13, <1>14,
     <1>15, <1>16, <1>17, <1>18 DEF Next, Run, Finished

LEMMA InvHolds == Spec => []Inv
  BY InitInv, StepInv, PTL DEF Spec

\* Type correctness of applypatch for images of any size.
THEOREM TypeCorrect == Spec => []TypeOK
  BY InvHolds, PTL DEF Inv

\* What a run of a patch rests on.  Before it saves the source again, a partition that no mishap
\* has touched is source or target; while it writes, the copy is complete; and without a mishap
\* what was written is the target.
CopyInv ==
  /\ pc \in {"idle", "returned", "space"} /\ mode = "patch"
       => IsTarget \/ SourceReadable \/ copy = "source"
  /\ pc \in {"idle", "returned", "space", "save", "saving"} /\ mode = "patch" /\ mishaps = 0
       => IsTarget \/ SourceReadable
  /\ pc \in {"patch", "open", "seek", "write", "verify", "close"} /\ mode = "patch"
       => copy = "source"
  /\ pc = "seek" /\ mishaps = 0 => start = 0 /\ fd
  /\ pc = "write" /\ mishaps = 0 => \A c \in Chunks : c <= start => part[c] = "t"
  /\ pc = "verify" /\ mishaps = 0 => IsTarget

LEMMA StepCopy ==
  ASSUME MaxMishaps <= 1, Inv, CopyInv, [Next]_vars
  PROVE  CopyInv'
<1> USE SizeAssumption DEF Inv, TypeOK, ResultInv, CopyInv, Chunks, IsTarget, IsSource, SourceReadable
<1>1. CASE Already
  BY <1>1 DEF Already, Begin, persistent
<1>2. CASE PatchSource
  BY <1>2 DEF PatchSource, Begin, ReadFails, Mishap, persistent
<1>3. CASE PatchCopy
  BY <1>3 DEF PatchCopy, Begin, ReadFails, Mishap, persistent
<1>4. CASE MakeFreeSpaceOnCache
  BY <1>4 DEF MakeFreeSpaceOnCache, Goto, Mishap, Fail, persistent
<1>5. CASE SaveFileContents
  BY <1>5 DEF SaveFileContents, Goto
<1>6. CASE SaveEnds
  BY <1>6 DEF SaveEnds, Goto, Mishap, Fail, persistent
<1>7. CASE PatchInMemory
  BY <1>7 DEF PatchInMemory, Goto, Mishap, Fail, persistent
<1>8. CASE Flash
  BY <1>8 DEF Flash, Begin, ReadFails, Mishap, persistent
<1>9. CASE OpenTarget
  BY <1>9 DEF OpenTarget, Goto, Mishap, Fail, persistent
<1>10. CASE SeekTarget
  BY <1>10 DEF SeekTarget, Goto, Fail, persistent
<1>11. CASE WriteChunk
  BY <1>11 DEF WriteChunk, Goto, Mishap
<1>12. CASE WriteFails
  BY <1>12 DEF WriteFails, Mishap, Fail, persistent
<1>13. CASE CloseForVerify
  BY <1>13 DEF CloseForVerify, Goto
<1>14. CASE VerifyChunk
  BY <1>14 DEF VerifyChunk, Goto, persistent
<1>15. CASE Verified
  BY <1>15 DEF Verified, persistent
<1>16. CASE CloseTarget
  BY <1>16 DEF CloseTarget, Fail, persistent
<1>17. CASE Crash
  <2>1. pc' = "idle" /\ mishaps' = 1 /\ mishaps = 0 /\ UNCHANGED <<same, copy, mode>>
    BY <1>17 DEF Crash, Mishap
  <2>2. CASE pc \in {"patch", "open", "seek", "write", "verify", "close"}
    BY <2>1, <2>2
  <2>3. CASE pc \in {"space", "save", "saving"}
    <3>1. part' = part
      BY <1>17, <2>3 DEF Crash
    <3> QED
      BY <2>1, <2>3, <3>1
  <2> QED
    BY <1>17, <2>2, <2>3 DEF Crash, PC
<1>18. CASE UNCHANGED vars
  BY <1>18 DEF vars, persistent, writing
<1> QED
  BY <1>1, <1>2, <1>3, <1>4, <1>5, <1>6, <1>7, <1>8, <1>9, <1>10, <1>11, <1>12, <1>13, <1>14,
     <1>15, <1>16, <1>17, <1>18 DEF Next, Run, Finished

\* One crash, error or bad write, wherever it falls, leaves the target, the source or a complete
\* copy of the source for the next run of a patch.  (Two may destroy all three.)
THEOREM OneMishapIsRecoverable ==
  ASSUME MaxMishaps <= 1
  PROVE  Spec => []Recoverable
<1>1. Init => CopyInv
  BY DEF Init, CopyInv, SourceReadable, IsSource, Chunks
<1>2. Inv /\ CopyInv /\ [Next]_vars => CopyInv'
  BY StepCopy
<1>3. CopyInv => Recoverable
  BY DEF CopyInv, Recoverable
<1> QED
  BY <1>1, <1>2, <1>3, InvHolds, PTL DEF Spec

\* Before the first mishap a run writes from the first chunk to the last, on a partition that has
\* nothing of the target, and leaves a partition alone that has all of it.
FirstInv ==
  mishaps = 0 =>
    \/ IsTarget /\ (pc \in {"idle", "returned", "verify", "close"} \/ (pc = "write" /\ start = N))
    \/ \A c \in Chunks : part[c] = "t" => pc = "write" /\ c <= start

LEMMA StepFirst ==
  ASSUME MaxMishaps <= 1, Inv, CopyInv, FirstInv, [Next]_vars
  PROVE  FirstInv' /\ (IsTarget => IsTarget')
<1> USE SizeAssumption DEF Inv, TypeOK, ResultInv, CopyInv, FirstInv, Chunks, IsTarget
<1>1. CASE Already
  BY <1>1 DEF Already, Begin, persistent
<1>2. CASE PatchSource
  BY <1>2 DEF PatchSource, Begin, ReadFails, Mishap, persistent
<1>3. CASE PatchCopy
  BY <1>3 DEF PatchCopy, Begin, ReadFails, Mishap, persistent
<1>4. CASE MakeFreeSpaceOnCache
  BY <1>4 DEF MakeFreeSpaceOnCache, Goto, Mishap, Fail, persistent
<1>5. CASE SaveFileContents
  BY <1>5 DEF SaveFileContents, Goto
<1>6. CASE SaveEnds
  BY <1>6 DEF SaveEnds, Goto, Mishap, Fail, persistent
<1>7. CASE PatchInMemory
  BY <1>7 DEF PatchInMemory, Goto, Mishap, Fail, persistent
<1>8. CASE Flash
  BY <1>8 DEF Flash, Begin, ReadFails, Mishap, persistent
<1>9. CASE OpenTarget
  BY <1>9 DEF OpenTarget, Goto, Mishap, Fail, persistent
<1>10. CASE SeekTarget
  BY <1>10 DEF SeekTarget, Goto, Fail, persistent
<1>11. CASE WriteChunk
  BY <1>11 DEF WriteChunk, Goto, Mishap
<1>12. CASE WriteFails
  BY <1>12 DEF WriteFails, Mishap, Fail, persistent
<1>13. CASE CloseForVerify
  BY <1>13 DEF CloseForVerify, Goto
<1>14. CASE VerifyChunk
  BY <1>14 DEF VerifyChunk, Goto, persistent
<1>15. CASE Verified
  BY <1>15 DEF Verified, persistent
<1>16. CASE CloseTarget
  BY <1>16 DEF CloseTarget, Fail, persistent
<1>17. CASE Crash
  BY <1>17 DEF Crash, Mishap
<1>18. CASE UNCHANGED vars
  BY <1>18 DEF vars, persistent, writing
<1> QED
  BY <1>1, <1>2, <1>3, <1>4, <1>5, <1>6, <1>7, <1>8, <1>9, <1>10, <1>11, <1>12, <1>13, <1>14,
     <1>15, <1>16, <1>17, <1>18 DEF Next, Run, Finished

\* A partition that has the whole target image keeps it through all later runs, for images of any
\* size and one crash, error or bad write anywhere.  (Two may undo it: the target is misread and
\* the run that writes it again is interrupted.)
THEOREM TargetIsKept ==
  ASSUME MaxMishaps <= 1
  PROVE  Spec => TargetStays
<1>1. Init => CopyInv
  BY DEF Init, CopyInv, SourceReadable, IsSource, Chunks
<1>2. Inv /\ CopyInv /\ [Next]_vars => CopyInv'
  BY StepCopy
<1>3. Init => FirstInv
  BY DEF Init, FirstInv, Chunks
<1>4. Inv /\ CopyInv /\ FirstInv /\ [Next]_vars
        => FirstInv' /\ [(\A c \in Chunks : part[c] = "t")
                            => \A c \in Chunks : part'[c] = "t"]_vars
  <2> SUFFICES ASSUME Inv, CopyInv, FirstInv, [Next]_vars
               PROVE  FirstInv' /\ ((\A c \in Chunks : part[c] = "t")
                                      => \A c \in Chunks : part'[c] = "t")
    OBVIOUS
  <2>1. FirstInv' /\ (IsTarget => IsTarget')
    BY StepFirst
  <2> QED
    BY <2>1 DEF IsTarget
<1> QED
  BY <1>1, <1>2, <1>3, <1>4, InvHolds, PTL DEF Spec, TargetStays
=============================================================================
