-------------------------- MODULE AdbSideloadProofs --------------------------
(***************************************************************************)
(* Proofs about AdbSideload, for every block size, file size, set of       *)
(* versions and number of sessions: the types, that adbd and the child     *)
(* never serve USB together, that a read is refused only for a reason, and *)
(* that every read of a position returns the same data.                    *)
(***************************************************************************)
EXTENDS AdbSideload, TLAPS

USE SizesAssumption, SessionAssumption

-----------------------------------------------------------------------------
(* Blocks and positions                                                    *)

\* Division with remainder.
LEMMA DivMod ==
  ASSUME NEW a \in Nat, NEW b \in Nat \ {0}
  PROVE  /\ a \div b \in Nat /\ a % b \in 0..(b - 1)
         /\ a = b * (a \div b) + (a % b)
  OBVIOUS

LEMMA Divided ==
  ASSUME NEW a \in Nat, NEW b \in Nat \ {0}
  PROVE  \E d \in Nat, m \in 0..(b - 1) : d = a \div b /\ m = a % b /\ a = b * d + m
<1>1. a \div b \in Nat /\ a % b \in 0..(b - 1) /\ a = b * (a \div b) + (a % b)
  BY DivMod
<1>2. \A d, m : d = a \div b /\ m = a % b => d \in Nat /\ m \in 0..(b - 1) /\ a = b * d + m
  BY <1>1, Zenon
<1> QED BY <1>2, Zenon

\* A number has one quotient and one remainder.
LEMMA Quotient ==
  ASSUME NEW b \in Nat \ {0}, NEW q \in Nat, NEW p \in Nat,
         NEW r \in 0..(b - 1), NEW s \in 0..(b - 1), b * q + r = b * p + s
  PROVE  q = p /\ r = s
<1>1. ASSUME q > p PROVE FALSE
  <2>1. b * q = b * p + b + b * (q - p - 1)
    OBVIOUS
  <2>2. b * (q - p - 1) >= 0
    BY <1>1
  <2> QED BY <2>1, <2>2
<1>2. ASSUME q < p PROVE FALSE
  <2>1. b * p = b * q + b + b * (p - q - 1)
    OBVIOUS
  <2>2. b * (p - q - 1) >= 0
    BY <1>2
  <2> QED BY <2>1, <2>2
<1> QED BY <1>1, <1>2

LEMMA Located ==
  ASSUME NEW a \in Nat, NEW b \in Nat \ {0}, NEW q \in Nat, NEW r \in 0..(b - 1), a = b * q + r
  PROVE  a \div b = q /\ a % b = r
<1>1. PICK d \in Nat, m \in 0..(b - 1) : d = a \div b /\ m = a % b /\ a = b * d + m
  BY Divided, Zenon
<1>2. b * q + r = b * d + m
  BY <1>1
<1>3. d = q /\ m = r
  BY <1>2, Quotient
<1> QED BY <1>1, <1>3

\* A position of the block a read starts in.
LEMMA InFirstBlock ==
  ASSUME NEW a \in Nat, NEW b \in Nat \ {0}, NEW i \in Nat, (a % b) + i < b
  PROVE  (a + i) \div b = a \div b /\ (a + i) % b = (a % b) + i
<1>1. PICK d \in Nat, m \in 0..(b - 1) : d = a \div b /\ m = a % b /\ a = b * d + m
  BY Divided, Zenon
<1>2. m + i \in 0..(b - 1) /\ a + i \in Nat /\ a + i = b * d + (m + i)
  BY <1>1
<1>3. (a + i) \div b = d /\ (a + i) % b = m + i
  BY <1>2, Located
<1> QED BY <1>1, <1>3

\* A position of the block it spills into.
LEMMA InNextBlock ==
  ASSUME NEW a \in Nat, NEW b \in Nat \ {0}, NEW i \in Nat, (a % b) + i >= b, (a % b) + i < 2 * b
  PROVE  (a + i) \div b = (a \div b) + 1 /\ (a + i) % b = (a % b) + i - b
<1>1. PICK d \in Nat, m \in 0..(b - 1) : d = a \div b /\ m = a % b /\ a = b * d + m
  BY Divided, Zenon
<1>2. PICK e \in Nat, k \in 0..(b - 1) : e = d + 1 /\ k = m + i - b /\ a + i \in Nat
  BY <1>1
<1>3. b * e = b * d + b
  BY <1>2
<1>4. a + i = b * e + k
  BY <1>1, <1>2, <1>3
<1>5. (a + i) \div b = e /\ (a + i) % b = k
  BY <1>2, <1>4, Located
<1> QED BY <1>1, <1>2, <1>5

\* The number of blocks is a number.
LEMMA FileBlocks == file_blocks \in Nat
<1>1. CASE FileSize = 0
  BY <1>1 DEF file_blocks
<1>2. CASE FileSize # 0
  <2>1. (FileSize - 1) \div BlockSize \in Nat
    BY <1>2, DivMod
  <2> QED BY <2>1, <1>2 DEF file_blocks
<1> QED BY <1>1, <1>2

\* Of a block of the file at least one unit is fetched and at most all of it,
\* wherever the 32-bit product wraps.
LEMMA FetchSizeOK ==
  ASSUME NEW b \in 0..(file_blocks - 1)
  PROVE  FetchSize(b) \in 1..BlockSize
<1>1. FileSize # 0 /\ b <= (FileSize - 1) \div BlockSize /\ b \in Nat
  BY FileBlocks DEF file_blocks
<1>2. PICK d \in Nat, m \in 0..(BlockSize - 1) :
         d = (FileSize - 1) \div BlockSize /\ FileSize - 1 = BlockSize * d + m
  <2>1. FileSize - 1 \in Nat /\ BlockSize \in Nat \ {0}
    BY <1>1
  <2>2. /\ (FileSize - 1) \div BlockSize \in Nat
        /\ (FileSize - 1) % BlockSize \in 0..(BlockSize - 1)
        /\ FileSize - 1 = BlockSize * ((FileSize - 1) \div BlockSize) + ((FileSize - 1) % BlockSize)
    BY ONLY <2>1, DivMod
  <2> QED BY <2>2
<1>3. PICK c \in Nat : d = b + c
  BY <1>1, <1>2
<1>4. BlockSize * d = b * BlockSize + BlockSize * c /\ BlockSize * c \in Nat /\ b * BlockSize \in Nat
  BY <1>1, <1>3
<1>5. PICK n \in Nat : n = b * BlockSize /\ n <= FileSize - 1
  BY <1>2, <1>4
<1>6. PICK s \in Nat : s = n % Word /\ s <= n
  <2>0. Word \in Nat \ {0}
    OBVIOUS
  <2>1. PICK e \in Nat, k \in 0..(Word - 1) : e = n \div Word /\ k = n % Word /\ n = Word * e + k
    BY <2>0, Divided, Zenon
  <2>2. Word * e \in Nat
    OBVIOUS
  <2> QED BY <2>1, <2>2
<1> QED BY <1>5, <1>6 DEF FetchSize

\* A block is not the mark of a hash that is not known.
LEMMA BlockIsNotNone == None \notin Block
<1>1. DOMAIN None = 1..1
  BY DEF None
<1>2. 0 \in InBlock
  BY DEF InBlock
<1>3. \A b \in Block : DOMAIN b = InBlock
  BY DEF Block
<1> QED BY <1>1, <1>2, <1>3

-----------------------------------------------------------------------------
(* One daemon                                                              *)

\* The types of the two threads' own variables.
SessionType ==
  /\ session \in 0..MaxSessions /\ gui \in Gui /\ cancel \in Cancel
  /\ polls \in 0..(MaxPolls - 1) /\ reads \in 0..MaxReads
  /\ sideload_child_pid \in ForkFailed..MaxSessions
  /\ child \in {"none", "zombie", "reaped"} \cup Alive
  /\ killed \in NobodyKilled..MaxSessions

Flags == tw_has_cancel \in BOOLEAN /\ adbd \in BOOLEAN

\* Where the child has gone: after a timeout, a failure and a wait, wherever the
\* pid is zero although the child has been started, and before a cancel clears
\* the pid.  A cancel that comes before the child has not gone beyond its check,
\* which will find no pid.
DaemonInv ==
  /\ OneDaemon
  /\ gui \in {"idle", "fork", "giveup", "reap", "failed", "adbd", "dead"} => child \notin Alive
  /\ gui \in {"fork", "assign"} => ~adbd /\ session # 0
  /\ sideload_child_pid = 0 /\ gui \notin {"fork", "assign"} => child \notin Alive
  /\ cancel = "clear" => child \notin Alive
  /\ cancel # "idle" => gui # "dead"
  /\ cancel # "idle" /\ gui \in {"fork", "assign"} =>
       sideload_child_pid = 0 /\ cancel \in {"stat", "stated", "check"}

\* Every step of the two threads and the child keeps the types of their variables.
LEMMA StepSession == SessionType /\ [Next]_vars => SessionType'
<1> SUFFICES ASSUME SessionType, [Next]_vars PROVE SessionType'
  OBVIOUS
<1> USE DEF SessionType, ForkFailed, NobodyKilled, Gui, Cancel, Alive, GuiTo, CancelTo, SessionKept, Reap, ChildKilled
<1>1. CASE UNCHANGED vars
  BY <1>1 DEF vars, session_vars
<1>2. CASE Start
  BY <1>2 DEF Start
<1>3. CASE GuiStep
  <2>1. CASE Fork
    BY <2>1 DEF Fork
  <2>2. CASE Assign
    BY <2>2 DEF Assign
  <2>3. CASE PollChild
    BY <2>3 DEF PollChild
  <2>4. CASE PollAbsent
    BY <2>4 DEF PollAbsent
  <2>5. CASE PollStat
    BY <2>5 DEF PollStat
  <2>6. CASE PollStated
    BY <2>6 DEF PollStated
  <2>7. CASE GiveUp
    BY <2>7 DEF GiveUp
  <2>8. CASE GiveUpWait
    BY <2>8 DEF GiveUpWait
  <2>9. CASE Failed
    BY <2>9 DEF Failed
  <2>10. CASE Installed
    BY <2>10 DEF Installed
  <2>11. CASE Signal
    BY <2>11 DEF Signal
  <2>12. CASE Signalled
    BY <2>12 DEF Signalled
  <2>13. CASE WaitChild
    BY <2>13 DEF WaitChild
  <2>14. CASE End
    BY <2>14 DEF End
  <2> QED BY <1>3, <2>1, <2>2, <2>3, <2>4, <2>5, <2>6, <2>7, <2>8, <2>9, <2>10, <2>11, <2>12,
             <2>13, <2>14 DEF GuiStep
<1>4. CASE KernelReads
  BY <1>4 DEF KernelReads
<1>5. CASE PressCancel
  BY <1>5 DEF PressCancel
<1>6. CASE CancelStep
  BY <1>6 DEF CancelStep, CancelStat, CancelStated, CancelCheck, CancelKill, CancelWait, CancelClear
<1>7. CASE HostConnects
  BY <1>7 DEF HostConnects
<1>8. CASE ChildServes
  BY <1>8 DEF ChildServes, session_vars
<1>9. CASE ChildExits
  BY <1>9 DEF ChildExits
<1>10. CASE Restart
  BY <1>10 DEF Restart
<1> QED BY <1>1, <1>2, <1>3, <1>4, <1>5, <1>6, <1>7, <1>8, <1>9, <1>10 DEF Next

\* Every step sets the two flags to a Boolean value or leaves them.
LEMMA StepFlags == Flags /\ [Next]_vars => Flags'
<1> SUFFICES ASSUME Flags, [Next]_vars PROVE Flags'
  OBVIOUS
<1>1. tw_has_cancel' \in {tw_has_cancel, TRUE, FALSE}
  BY Zenon DEF Next, vars, session_vars, Start, GuiStep, Fork, Assign, PollChild, PollAbsent,
     PollStat, PollStated, GiveUp, GiveUpWait, Failed, Installed, Signal, Signalled, WaitChild, End,
     KernelReads, PressCancel, CancelStep, CancelStat, CancelStated, CancelCheck, CancelKill,
     CancelWait, CancelClear, HostConnects, ChildServes, ChildExits, Restart
<1>2. adbd' \in {adbd, TRUE, FALSE}
  BY Zenon DEF Next, vars, session_vars, Start, GuiStep, Fork, Assign, PollChild, PollAbsent,
     PollStat, PollStated, GiveUp, GiveUpWait, Failed, Installed, Signal, Signalled, WaitChild, End,
     KernelReads, PressCancel, CancelStep, CancelStat, CancelStated, CancelCheck, CancelKill,
     CancelWait, CancelClear, HostConnects, ChildServes, ChildExits, Restart, SessionKept
<1> QED BY <1>1, <1>2, Zenon DEF Flags

\* Every step keeps what is known of where the child has gone.
LEMMA StepDaemon == SessionType /\ DaemonInv /\ [Next]_vars => DaemonInv'
<1> SUFFICES ASSUME SessionType, DaemonInv, [Next]_vars PROVE DaemonInv'
  OBVIOUS
<1> USE DEF SessionType, ForkFailed, DaemonInv, OneDaemon, Alive, GuiTo, CancelTo, SessionKept, Reap, ChildKilled
<1>1. CASE UNCHANGED vars
  BY <1>1 DEF vars, session_vars
<1>2. CASE Start
  BY <1>2 DEF Start
<1>3. CASE GuiStep
  <2>1. CASE Fork
    BY <2>1 DEF Fork
  <2>2. CASE Assign
    BY <2>2 DEF Assign
  <2>3. CASE PollChild
    BY <2>3 DEF PollChild
  <2>4. CASE PollAbsent
    BY <2>4 DEF PollAbsent
  <2>5. CASE PollStat
    BY <2>5 DEF PollStat
  <2>6. CASE PollStated
    BY <2>6 DEF PollStated
  <2>7. CASE GiveUp
    BY <2>7 DEF GiveUp
  <2>8. CASE GiveUpWait
    BY <2>8 DEF GiveUpWait
  <2>9. CASE Failed
    BY <2>9 DEF Failed
  <2>10. CASE Installed
    BY <2>10 DEF Installed
  <2>11. CASE Signal
    BY <2>11 DEF Signal
  <2>12. CASE Signalled
    BY <2>12 DEF Signalled
  <2>13. CASE WaitChild
    BY <2>13 DEF WaitChild
  <2>14. CASE End
    BY <2>14 DEF End
  <2> QED BY <1>3, <2>1, <2>2, <2>3, <2>4, <2>5, <2>6, <2>7, <2>8, <2>9, <2>10, <2>11, <2>12,
             <2>13, <2>14 DEF GuiStep
<1>4. CASE KernelReads
  BY <1>4 DEF KernelReads
<1>5. CASE PressCancel
  BY <1>5 DEF PressCancel
<1>6. CASE CancelStep
  <2>1. CASE CancelStat \/ CancelStated \/ CancelCheck
    BY <2>1 DEF CancelStat, CancelStated, CancelCheck
  <2>2. CASE CancelKill
    BY <2>2 DEF CancelKill
  <2>3. CASE CancelWait \/ CancelClear
    BY <2>3 DEF CancelWait, CancelClear
  <2> QED BY <1>6, <2>1, <2>2, <2>3 DEF CancelStep
<1>7. CASE HostConnects
  BY <1>7 DEF HostConnects
<1>8. CASE ChildServes
  BY <1>8 DEF ChildServes, session_vars
<1>9. CASE ChildExits
  BY <1>9 DEF ChildExits
<1>10. CASE Restart
  BY <1>10 DEF Restart
<1> QED BY <1>1, <1>2, <1>3, <1>4, <1>5, <1>6, <1>7, <1>8, <1>9, <1>10 DEF Next

\* Initially there is no child, and adbd runs.
LEMMA InitSession == Init => SessionType /\ DaemonInv
  BY DEF Init, SessionType, ForkFailed, NobodyKilled, DaemonInv, OneDaemon, Gui, Cancel, Alive

\* adbd is never started while the minadbd child still serves the same USB
\* endpoint, whatever the action thread, a cancel in the GUI thread and the host do.
THEOREM OneDaemonAlways == Spec => []OneDaemon
<1>1. Init => SessionType /\ DaemonInv
  BY InitSession
<1>2. SessionType /\ DaemonInv /\ [Next]_vars => (SessionType /\ DaemonInv)'
  BY StepSession, StepDaemon
<1>3. DaemonInv => OneDaemon
  BY DEF DaemonInv
<1> QED BY <1>1, <1>2, <1>3, PTL DEF Spec

-----------------------------------------------------------------------------
(* The filesystem's types                                                  *)

\* What a step of the session may do to the filesystem.
FuseStep ==
  \/ KeepFuse
  \/ \E c \in Callers : \E r \in Read \cup Lookup : Ask(c, r)
  \/ Gone /\ UNCHANGED <<cache, seen>>
  \/ Serve
  \/ Forget
  \/ mounted' = TRUE /\ UNCHANGED <<cache, calls, seen>>

LEMMA LookupsAreRequests ==
  ASSUME NEW name \in {"package.zip", "exit", "other"}
  PROVE  [op |-> "lookup", name |-> name] \in Read \cup Lookup
  BY DEF Lookup

LEMMA ReadsAreRequests ==
  ASSUME NEW r \in Requests
  PROVE  [op |-> "read", offset |-> r[1], size |-> r[2]] \in Read \cup Lookup
  BY DEF Read, Offsets

\* Every step does one of these.
LEMMA StepIsFuseStep == [Next]_vars => FuseStep
<1> SUFFICES ASSUME [Next]_vars PROVE FuseStep
  OBVIOUS
<1>1. ASSUME ChildKilled PROVE FuseStep
  BY <1>1 DEF ChildKilled, FuseStep, KeepFuse
<1>2. CASE UNCHANGED vars
  BY <1>2 DEF vars, FuseStep, KeepFuse
<1>3. CASE Start
  BY <1>3 DEF Start, FuseStep
<1>4. CASE GuiStep
  <2>1. CASE Fork \/ Assign \/ PollChild \/ GiveUp \/ GiveUpWait \/ Failed \/ Installed
              \/ Signalled \/ WaitChild
    BY <2>1 DEF Fork, Assign, PollChild, GiveUp, GiveUpWait, Failed, Installed, Signalled,
       WaitChild, FuseStep
  <2>2. CASE PollAbsent \/ PollStated
    BY <2>2, <1>1 DEF PollAbsent, PollStated, FuseStep
  <2>3. CASE PollStat
    BY <2>3, LookupsAreRequests DEF PollStat, FuseStep
  <2>4. CASE Signal
    BY <2>4, LookupsAreRequests DEF Signal, FuseStep
  <2>5. CASE End
    BY <2>5 DEF End, FuseStep
  <2> QED BY <1>4, <2>1, <2>2, <2>3, <2>4, <2>5 DEF GuiStep
<1>5. CASE KernelReads
  BY <1>5, ReadsAreRequests DEF KernelReads, FuseStep
<1>6. CASE PressCancel
  BY <1>6 DEF PressCancel, FuseStep
<1>7. CASE CancelStep
  <2>1. CASE CancelStat
    BY <2>1, LookupsAreRequests DEF CancelStat, FuseStep
  <2>2. CASE CancelStated \/ CancelCheck \/ CancelWait \/ CancelClear
    BY <2>2 DEF CancelStated, CancelCheck, CancelWait, CancelClear, FuseStep
  <2>3. CASE CancelKill
    BY <2>3, <1>1 DEF CancelKill
  <2> QED BY <1>7, <2>1, <2>2, <2>3 DEF CancelStep
<1>8. CASE HostConnects
  BY <1>8 DEF HostConnects, FuseStep, KeepFuse, fuseVars
<1>9. CASE ChildServes
  BY <1>9 DEF ChildServes, FuseStep
<1>10. CASE ChildExits
  BY <1>10 DEF ChildExits, FuseStep, KeepFuse
<1>11. CASE Restart
  BY <1>11 DEF Restart, FuseStep
<1> QED BY <1>2, <1>3, <1>4, <1>5, <1>6, <1>7, <1>8, <1>9, <1>10, <1>11 DEF Next

\* The caller that is being served has asked for a read, and a read in its
\* second stage goes over the end of its first block.
Shape ==
  /\ current # Nobody => pending[current] \in Read
  /\ stage = 2 => /\ current # Nobody
                  /\ (pending[current].offset % BlockSize) + pending[current].size > BlockSize

\* The types, apart from the flags.
FuseType ==
  /\ curr_block \in NoBlock..(MaxOffset + 1)
  /\ block_data \in Block /\ extra_block \in Block
  /\ hashes \in [0..(file_blocks - 1) -> Block \cup {None}]
  /\ pending \in [Callers -> Read \cup Lookup \cup {NoRequest}]
  /\ current \in Callers \cup {Nobody} /\ stage \in {1, 2}
  /\ reply \in [Callers -> {"none", "ok", "ENOENT", "error"}]
  /\ data.offset \in Int /\ data.size \in Nat
  /\ data.stale \subseteq {"block", "extra"} /\ stale \subseteq {"block", "extra"}
  /\ first \in [Offsets -> Unit \cup {None}]

FuseFlags == mounted \in BOOLEAN /\ mishap \in [failed : BOOLEAN, changed : BOOLEAN]

\* Every step sets the flags to Boolean values or leaves them.
LEMMA StepFuseFlags == FuseFlags /\ FuseStep => FuseFlags'
<1> SUFFICES ASSUME FuseFlags, FuseStep PROVE FuseFlags'
  OBVIOUS
<1>1. mounted' \in {mounted, TRUE, FALSE}
  BY Zenon DEF FuseStep, KeepFuse, fuseVars, Ask, Gone, Serve, ServeAlone, ServeFetched,
     HandleLookup, HandleRead, FetchCached, FetchBeyond, FetchDelivered, FetchFails, Forget
<1>2. \/ mishap' = mishap
      \/ mishap' = NoMishap
      \/ mishap' = [mishap EXCEPT !.failed = TRUE]
      \/ \E b, v : mishap' = [mishap EXCEPT !.changed = @ \/ Changed(b, v)]
  BY Zenon DEF FuseStep, KeepFuse, fuseVars, seen, Ask, Gone, Serve,
     ServeAlone, ServeFetched, HandleLookup, HandleRead, FetchCached, FetchBeyond, FetchDelivered, FetchFails, Forget
<1>3. mishap' \in [failed : BOOLEAN, changed : BOOLEAN]
  <2>1. CASE mishap' = mishap
    BY <2>1, Zenon DEF FuseFlags
  <2>2. CASE mishap' = NoMishap
    BY <2>2, Zenon DEF NoMishap
  <2>3. CASE mishap' = [mishap EXCEPT !.failed = TRUE]
    BY <2>3, Zenon DEF FuseFlags
  <2>4. ASSUME NEW x \in BOOLEAN, mishap' = [mishap EXCEPT !.changed = x]
        PROVE  mishap' \in [failed : BOOLEAN, changed : BOOLEAN]
    BY <2>4, Zenon DEF FuseFlags
  <2>5. ASSUME NEW b, NEW v, mishap' = [mishap EXCEPT !.changed = @ \/ Changed(b, v)]
        PROVE  mishap' \in [failed : BOOLEAN, changed : BOOLEAN]
    <3>1. (mishap.changed \/ Changed(b, v)) \in BOOLEAN
      BY Zenon
    <3> QED BY <3>1, <2>4, <2>5, Zenon
  <2> QED BY <1>2, <2>1, <2>2, <2>3, <2>5, Zenon
<1> QED BY <1>1, <1>3, Zenon DEF FuseFlags

\* Where the read that is being served begins, and what it wants.
LEMMA Position ==
  ASSUME FuseType, Shape, current # Nobody
  PROVE  /\ current \in Callers
         /\ pending[current].offset \in Offsets /\ pending[current].size \in 1..BlockSize
         /\ pending[current].offset \div BlockSize \in 0..MaxOffset
         /\ pending[current].offset % BlockSize \in InBlock
         /\ wanted \in 0..(MaxOffset + 1) /\ from \in InBlock
<1>1. current \in Callers /\ pending[current] \in Read
  BY DEF FuseType, Shape
<1>2. PICK off \in Nat : off = pending[current].offset /\ off <= MaxOffset
  BY <1>1 DEF Read, Offsets
<1>3. pending[current].size \in 1..BlockSize
  BY <1>1 DEF Read
<1>4. PICK d \in Nat, m \in 0..(BlockSize - 1) :
         d = off \div BlockSize /\ m = off % BlockSize /\ off = BlockSize * d + m
  BY Divided, Zenon
<1>5. d <= off
  <2>1. PICK e \in Nat : e = BlockSize - 1
    OBVIOUS
  <2>2. BlockSize = e + 1 /\ BlockSize * d = d + e * d /\ e * d \in Nat
    BY <2>1
  <2>3. PICK x \in Nat : off = d + x + m
    BY <2>2, <1>4
  <2> QED BY <2>3, <1>4
<1>6. d \in 0..MaxOffset
  BY <1>2, <1>5
<1>7. wanted = d + (stage - 1) /\ from \in {m, 0} /\ stage \in {1, 2}
  BY <1>2, <1>4 DEF wanted, from, FuseType
<1>8. wanted \in 0..(MaxOffset + 1) /\ from \in InBlock
  BY <1>4, <1>6, <1>7 DEF InBlock
<1>9. off \in Offsets
  BY <1>2 DEF Offsets
<1>10. off % BlockSize \in InBlock /\ off \div BlockSize \in 0..MaxOffset
  BY <1>4, <1>6 DEF InBlock
<1> QED BY <1>1, <1>2, <1>3, <1>8, <1>9, <1>10

\* What is sent are units, as many as the read asks for.
LEMMA UnitsOK ==
  ASSUME FuseType, Shape, current # Nobody, ~Spills, NEW buffer \in Block
  PROVE  Units(buffer) \in [0..(pending[current].size - 1) -> Unit]
<1> DEFINE n == pending[current].size
           m == pending[current].offset % BlockSize
<1>1. n \in 1..BlockSize /\ m \in InBlock
  BY Position
<1>2. CASE stage = 1
  <2>1. m + n <= BlockSize
    BY <1>1, <1>2 DEF Spills, from, InBlock
  <2>2. \A i \in 0..(n - 1) : buffer[m + i] \in Unit
    BY <1>1, <2>1 DEF Block, InBlock
  <2> QED BY <1>2, <2>2 DEF Units, from
<1>3. CASE stage = 2
  <2>1. m + n > BlockSize
    BY <1>3 DEF Shape
  <2>2. \A i \in 0..(n - 1) : i < BlockSize - m => extra_block[i] \in Unit
    BY <1>1 DEF Block, InBlock, FuseType
  <2>3. \A i \in 0..(n - 1) : i >= BlockSize - m => buffer[i - (BlockSize - m)] \in Unit
    BY <1>1 DEF Block, InBlock
  <2>4. \A i \in 0..(n - 1) : (IF i < BlockSize - m THEN extra_block[i] ELSE buffer[i - (BlockSize - m)]) \in Unit
    BY <2>2, <2>3, <1>1 DEF InBlock
  <2> QED BY <1>3, <2>4 DEF Units
<1> QED BY <1>2, <1>3 DEF FuseType

\* The part of the types that ending or going on with a read concerns.
CallType ==
  /\ extra_block \in Block
  /\ pending \in [Callers -> Read \cup Lookup \cup {NoRequest}]
  /\ current \in Callers \cup {Nobody} /\ stage \in {1, 2}
  /\ reply \in [Callers -> {"none", "ok", "ENOENT", "error"}]
  /\ data.offset \in Int /\ data.size \in Nat
  /\ data.stale \subseteq {"block", "extra"} /\ stale \subseteq {"block", "extra"}
  /\ first \in [Offsets -> Unit \cup {None}]

LEMMA AnswerOK ==
  ASSUME FuseType, NEW c \in Callers, NEW how \in {"ok", "ENOENT", "error"}, Answer(c, how)
  PROVE  /\ pending' \in [Callers -> Read \cup Lookup \cup {NoRequest}]
         /\ reply' \in [Callers -> {"none", "ok", "ENOENT", "error"}]
  BY DEF FuseType, Answer

\* A block that is accepted ends the read, or takes it to its second block.
LEMMA AcceptedOK ==
  ASSUME FuseType, Shape, current # Nobody, NEW buffer \in Block, NEW bad \in SUBSET {"block"},
         Accepted(buffer, bad)
  PROVE  CallType' /\ Shape'
<1>1. CASE Spills
  <2>1. stage = 1 /\ from + pending[current].size > BlockSize /\ from = pending[current].offset % BlockSize
    BY <1>1 DEF Spills, from
  <2>2. /\ extra_block' = [i \in InBlock |->
                              IF from + i < BlockSize THEN buffer[from + i] ELSE extra_block[i]]
        /\ stage' = 2 /\ stale' = bad \cup (IF bad = {} THEN {} ELSE {"extra"})
        /\ UNCHANGED <<pending, reply, current, data, first>>
    BY <1>1 DEF Accepted
  <2>3. from \in InBlock
    BY Position
  <2>4. extra_block' \in Block
    BY <2>2, <2>3 DEF Block, InBlock, FuseType
  <2>5. CallType'
    BY <2>2, <2>4 DEF CallType, FuseType
  <2>6. Shape'
    BY <2>1, <2>2 DEF Shape
  <2> QED BY <2>5, <2>6
<1>2. CASE ~Spills
  <2>1. Answer(current, "ok") /\ Returned(buffer, bad) /\ current' = Nobody /\ stage' = 1
        /\ extra_block' = extra_block /\ stale' = bad
    BY <1>2 DEF Accepted
  <2>2. Units(buffer) \in [0..(pending[current].size - 1) -> Unit]
    BY <1>2, UnitsOK
  <2>3. current \in Callers /\ pending[current].offset \in Offsets /\ pending[current].size \in 1..BlockSize
    BY Position
  <2>4. /\ data'.offset \in Int /\ data'.size \in Nat
        /\ data'.stale \subseteq {"block", "extra"} /\ stale' \subseteq {"block", "extra"}
    BY <2>1, <2>3 DEF Returned, Offsets
  <2>5. \A p \in Offsets : p >= pending[current].offset /\ p < pending[current].offset + pending[current].size
             => Units(buffer)[p - pending[current].offset] \in Unit
    BY <2>2, <2>3 DEF Offsets
  <2>6. first' \in [Offsets -> Unit \cup {None}]
    BY <2>1, <2>5 DEF Returned, FuseType
  <2>7. CallType'
    BY <2>1, <2>3, <2>4, <2>6, AnswerOK DEF CallType, FuseType
  <2> QED BY <2>1, <2>7 DEF Shape
<1> QED BY <1>1, <1>2

\* A block that is refused ends the read.
LEMMA RefusedOK ==
  ASSUME FuseType, Shape, current # Nobody, Refused, stale' \subseteq {"block"}
  PROVE  CallType' /\ Shape'
<1>1. current \in Callers
  BY Position
<1>2. Answer(current, "error") /\ current' = Nobody /\ stage' = 1 /\ UNCHANGED <<extra_block, data, first>>
  BY DEF Refused
<1>3. CallType'
  BY <1>1, <1>2, AnswerOK DEF CallType, FuseType
<1> QED BY <1>2, <1>3 DEF Shape

LEMMA InitFuse == FuseInit => FuseType /\ Shape /\ FuseFlags
<1> SUFFICES ASSUME FuseInit PROVE FuseType /\ Shape /\ FuseFlags
  OBVIOUS
<1>1. FuseType
  BY DEF FuseInit, FuseType, NoBlock, Block, Unit, NoRequest, Nobody
<1>2. FuseFlags
  BY Zenon DEF FuseInit, FuseFlags, NoMishap
<1> QED BY <1>1, <1>2 DEF FuseInit, Shape

\* What the provider delivers is a block.
LEMMA DeliveredIsBlock ==
  ASSUME block_data \in Block, NEW b \in Nat, NEW v \in Versions, NEW n \in Int
  PROVE  Delivered(b, v, n) \in Block
<1>1. Padded(b) \in Block
  BY DEF Padded, Block, Unit
<1>2. \A i \in InBlock : <<b * BlockSize + i, v>> \in Unit
  BY DEF Unit, InBlock
<1> QED BY <1>1, <1>2 DEF Delivered, Block

\* Every step keeps the types, and the shape of what is being served.
LEMMA StepFuseType == FuseType /\ Shape /\ FuseStep => FuseType' /\ Shape'
<1> SUFFICES ASSUME FuseType, Shape, FuseStep PROVE FuseType' /\ Shape'
  OBVIOUS
<1>0. \A r \in Read : r.op = "read" /\ r # NoRequest
  BY DEF Read, NoRequest
<1>1. CASE KeepFuse
  BY <1>1 DEF KeepFuse, fuseVars, cache, calls, seen, FuseType, Shape
<1>2. ASSUME NEW c \in Callers, NEW r \in Read \cup Lookup, Ask(c, r) PROVE FuseType' /\ Shape'
  <2>1. current # Nobody => current # c
    BY <1>0, <1>2 DEF Ask, Shape
  <2>2. FuseType'
    BY <1>2 DEF Ask, cache, FuseType
  <2> QED BY <1>2, <2>1, <2>2 DEF Ask, FuseType, Shape
<1>3. CASE Gone /\ UNCHANGED <<cache, seen>>
  BY <1>3 DEF Gone, cache, seen, FuseType, Shape
<1>4. CASE Serve
  <2>1. ASSUME NEW c \in Callers, HandleLookup(c) PROVE FuseType' /\ Shape'
    <3>1. CASE pending[c].name = "exit"
      BY <2>1, <3>1 DEF HandleLookup, cache, seen, FuseType, Shape
    <3>2. CASE pending[c].name # "exit"
      BY <2>1, <3>2, AnswerOK DEF HandleLookup, cache, seen, FuseType, Shape
    <3> QED BY <3>1, <3>2
  <2>2. ASSUME NEW c \in Callers, HandleRead(c) PROVE FuseType' /\ Shape'
    BY <2>2 DEF HandleRead, cache, seen, FuseType, Shape
  <2>3. CASE FetchCached
    <3>1. /\ current # Nobody /\ Accepted(block_data, stale \cap {"block"})
          /\ UNCHANGED <<curr_block, block_data, hashes>>
      BY <2>3 DEF FetchCached
    <3>2. CallType' /\ Shape'
      BY <3>1, AcceptedOK DEF FuseType
    <3> QED BY <3>1, <3>2 DEF FuseType, CallType
  <2>4. CASE FetchBeyond
    <3>1. /\ current # Nobody /\ Accepted(block_data', {}) /\ curr_block' = wanted
          /\ block_data' = [i \in InBlock |-> Zero] /\ hashes' = hashes
      BY <2>4 DEF FetchBeyond
    <3>2. block_data' \in Block
      BY <3>1 DEF Block, Unit
    <3>3. CallType' /\ Shape'
      BY <3>1, <3>2, AcceptedOK
    <3>4. curr_block' \in NoBlock..(MaxOffset + 1)
      BY <3>1, Position DEF NoBlock
    <3> QED BY <3>1, <3>2, <3>3, <3>4 DEF FuseType, CallType
  <2>5. ASSUME NEW v \in Versions, FetchDelivered(v) PROVE FuseType' /\ Shape'
    <3>1. /\ current # Nobody /\ wanted < file_blocks
          /\ block_data' = Delivered(wanted, v, FetchSize(wanted))
      BY <2>5 DEF FetchDelivered
    <3>2. wanted \in Nat /\ wanted <= MaxOffset + 1 /\ wanted \in 0..(file_blocks - 1)
      BY <3>1, Position, FileBlocks
    <3>3. block_data' \in Block
      BY <3>1, <3>2, DeliveredIsBlock, FetchSizeOK DEF FuseType
    <3>4. CASE hashes[wanted] \in {None, block_data'}
      <4>1. /\ curr_block' = wanted /\ hashes' = [hashes EXCEPT ![wanted] = block_data']
            /\ Accepted(block_data', {})
        BY <2>5, <3>4 DEF FetchDelivered
      <4>2. CallType' /\ Shape'
        BY <3>1, <3>3, <4>1, AcceptedOK
      <4>3. hashes' \in [0..(file_blocks - 1) -> Block \cup {None}]
        BY <3>2, <3>3, <4>1 DEF FuseType
      <4>4. curr_block' \in NoBlock..(MaxOffset + 1)
        BY <3>2, <4>1 DEF NoBlock
      <4> QED BY <3>3, <4>2, <4>3, <4>4 DEF FuseType, CallType
    <3>5. CASE hashes[wanted] \notin {None, block_data'}
      <4>1. curr_block' = NoBlock /\ Refused /\ stale' = {} /\ hashes' = hashes
        BY <2>5, <3>5 DEF FetchDelivered
      <4>2. CallType' /\ Shape'
        BY <3>1, <4>1, RefusedOK
      <4>3. curr_block' \in NoBlock..(MaxOffset + 1)
        BY <4>1 DEF NoBlock
      <4> QED BY <3>3, <4>1, <4>2, <4>3 DEF FuseType, CallType
    <3> QED BY <3>4, <3>5
  <2>6. ASSUME NEW v \in Versions, NEW n \in 0..(BlockSize - 1), FetchFails(v, n)
        PROVE  FuseType' /\ Shape'
    <3>1. /\ current # Nobody /\ block_data' = Delivered(wanted, v, n) /\ Refused
          /\ stale' \subseteq {"block"} /\ UNCHANGED <<curr_block, hashes>>
      BY <2>6 DEF FetchFails
    <3>2. block_data' \in Block
      BY <3>1, Position, DeliveredIsBlock DEF FuseType
    <3>3. CallType' /\ Shape'
      BY <3>1, RefusedOK
    <3> QED BY <3>1, <3>2, <3>3 DEF FuseType, CallType
  <2> QED BY <1>4, <2>1, <2>2, <2>3, <2>4, <2>5, <2>6 DEF Serve, ServeAlone, ServeFetched
<1>5. CASE Forget
  BY <1>5 DEF Forget, FuseType, Shape, NoBlock, Block, Unit, NoRequest, Nobody
<1>6. CASE mounted' = TRUE /\ UNCHANGED <<cache, calls, seen>>
  BY <1>6 DEF cache, calls, seen, FuseType, Shape
<1> QED BY <1>1, <1>2, <1>3, <1>4, <1>5, <1>6 DEF FuseStep

\* What is known of every reachable state whatever the provider does.
BaseInv == SessionType /\ Flags /\ FuseType /\ FuseFlags /\ Shape

LEMMA InitBase == Init => BaseInv
<1> SUFFICES ASSUME Init PROVE BaseInv
  OBVIOUS
<1>1. Flags
  BY Zenon DEF Init, Flags
<1>2. FuseType /\ Shape /\ FuseFlags
  BY InitFuse DEF Init
<1> QED BY <1>1, <1>2, InitSession DEF BaseInv

LEMMA StepBase == BaseInv /\ [Next]_vars => BaseInv'
  BY StepSession, StepFlags, StepIsFuseStep, StepFuseFlags, StepFuseType DEF BaseInv

\* Every variable of the session and of the filesystem keeps its type, for every
\* block size, file size and set of versions.
THEOREM Types == Spec => []TypeOK
<1>1. BaseInv => TypeOK
  BY DEF BaseInv, SessionType, Flags, FuseType, FuseFlags, TypeOK, FuseTypeOK
<1> QED BY <1>1, InitBase, StepBase, PTL DEF Spec

-----------------------------------------------------------------------------
(* Every read of a position returns the same data                          *)

\* The block's hash is known, or it lies beyond the end of the file.
Known(b) == b < file_blocks => hashes[b] # None

\* What a block is from then on.
Content(b) == IF b < file_blocks THEN hashes[b] ELSE [i \in InBlock |-> Zero]

\* The unit x is what position p is from then on.
Holds(x, p) == Known(p \div BlockSize) /\ x = Content(p \div BlockSize)[p % BlockSize]

\* The cache has the block it says it has, unless it is stale.
CacheOK ==
  curr_block # NoBlock /\ "block" \notin stale =>
    Known(curr_block) /\ block_data = Content(curr_block)

\* The copy of the first block has its end, unless it was made from a stale buffer.
ExtraOK ==
  stage = 2 /\ "extra" \notin stale =>
    /\ Known(pending[current].offset \div BlockSize)
    /\ \A i \in InBlock : (pending[current].offset % BlockSize) + i < BlockSize =>
          extra_block[i] = Content(pending[current].offset \div BlockSize)
                                  [(pending[current].offset % BlockSize) + i]

\* What was returned first is what the position is.
FirstOK == \A p \in Offsets : first[p] # None => Holds(first[p], p)

\* Together with the property they are inductive: a failed read of the provider
\* makes the buffer stale, and what comes from a stale buffer is not recorded.
SameInv == CacheOK /\ ExtraOK /\ FirstOK /\ SameUnlessStale

\* What is known of a block stays.
Kept == \A b \in Nat : Known(b) => Known(b)' /\ Content(b)' = Content(b)

\* What is sent is what the positions are.
LEMMA SentIsContent ==
  ASSUME FuseType, Shape, current # Nobody, ExtraOK, Kept, ~Spills,
         stage = 2 => "extra" \notin stale,
         NEW w \in Nat, w = wanted, NEW buffer \in Block, Known(w)', buffer = Content(w)',
         NEW off \in Nat, off = pending[current].offset,
         NEW i \in 0..(pending[current].size - 1), NEW x, x = Units(buffer)[i]
  PROVE  Holds(x, off + i)'
<1> DEFINE n == pending[current].size
<1>1. /\ n \in 1..BlockSize /\ off % BlockSize \in InBlock
      /\ i \in Nat /\ i < n
  BY Position
<1>2. PICK m \in 0..(BlockSize - 1) : m = off % BlockSize
  BY <1>1 DEF InBlock
<1>3. PICK d \in Nat : d = off \div BlockSize
  BY DivMod
<1>4. CASE stage = 1
  <2>1. m + n <= BlockSize /\ w = d
    BY <1>1, <1>2, <1>3, <1>4 DEF Spills, from, wanted
  <2>2. (off + i) \div BlockSize = w /\ (off + i) % BlockSize = m + i
    <3>1. BlockSize \in Nat \ {0} /\ i \in Nat /\ (off % BlockSize) + i < BlockSize
      BY <2>1, <1>1, <1>2
    <3> QED BY ONLY off \in Nat, <3>1, <2>1, <1>2, <1>3, InFirstBlock
  <2>3. x = buffer[m + i]
    BY <1>1, <1>2, <1>4 DEF Units, from
  <2> QED BY <2>2, <2>3 DEF Holds
<1>5. CASE stage = 2
  <2>1. w = d + 1 /\ m + n > BlockSize
    BY <1>2, <1>3, <1>5 DEF Shape, wanted
  <2>2. x = IF i < BlockSize - m THEN extra_block[i] ELSE buffer[i - (BlockSize - m)]
    BY <1>2, <1>5 DEF Units
  <2>3. CASE i < BlockSize - m
    <3>1. (off + i) \div BlockSize = d /\ (off + i) % BlockSize = m + i
      <4>1. BlockSize \in Nat \ {0} /\ i \in Nat /\ (off % BlockSize) + i < BlockSize
        BY <2>3, <1>1, <1>2
      <4> QED BY ONLY off \in Nat, <4>1, <1>2, <1>3, InFirstBlock
    <3>2. Known(d) /\ extra_block[i] = Content(d)[m + i]
      BY <2>3, <1>1, <1>2, <1>3, <1>5 DEF ExtraOK, InBlock
    <3>3. Known(d)' /\ Content(d)' = Content(d)
      BY <3>2 DEF Kept
    <3> QED BY <2>2, <2>3, <3>1, <3>2, <3>3 DEF Holds
  <2>4. CASE i >= BlockSize - m
    <3>1. (off + i) \div BlockSize = w /\ (off + i) % BlockSize = m + i - BlockSize
      <4>1. /\ BlockSize \in Nat \ {0} /\ i \in Nat
            /\ (off % BlockSize) + i >= BlockSize /\ (off % BlockSize) + i < 2 * BlockSize
        BY <2>4, <1>1, <1>2
      <4> QED BY ONLY off \in Nat, <4>1, <2>1, <1>2, <1>3, InNextBlock
    <3>2. m + i - BlockSize = i - (BlockSize - m)
      BY <1>1, <1>2
    <3> QED BY <2>2, <2>4, <3>1, <3>2, <1>1, <1>2 DEF Holds
  <2> QED BY <2>3, <2>4, <1>1, <1>2
<1> QED BY <1>4, <1>5 DEF FuseType

\* Going on with a block that is what it was, or from a stale buffer, keeps every promise.
LEMMA AcceptedSame ==
  ASSUME FuseType, Shape, current # Nobody, ExtraOK, FirstOK, SameUnlessStale, Kept,
         NEW w \in Nat, w = wanted, NEW buffer \in Block, NEW bad \in SUBSET {"block"},
         bad = {} => Known(w)' /\ buffer = Content(w)',
         Accepted(buffer, bad)
  PROVE  ExtraOK' /\ FirstOK' /\ SameUnlessStale'
<1>1. PICK off \in Nat : off = pending[current].offset /\ off \in Offsets
  BY Position DEF Offsets
<1>2. pending[current].size \in 1..BlockSize /\ off % BlockSize \in InBlock
  BY <1>1, Position
<1>0. \A p \in Offsets : p \div BlockSize \in Nat
  <2>1. BlockSize \in Nat \ {0} /\ \A p \in Offsets : p \in Nat
    BY DEF Offsets
  <2> QED BY ONLY <2>1, DivMod
<1>3. CASE Spills
  <2>1. /\ stage = 1 /\ stage' = 2 /\ UNCHANGED <<pending, current, data, first>>
        /\ extra_block' = [i \in InBlock |->
                              IF from + i < BlockSize THEN buffer[from + i] ELSE extra_block[i]]
        /\ bad # {} => "extra" \in stale'
    BY <1>3 DEF Spills, Accepted
  <2>2. from = off % BlockSize /\ w = off \div BlockSize
    BY <1>1, <1>2, <2>1, DivMod DEF from, wanted
  <2>3. ASSUME bad = {} PROVE ExtraOK'
    <3>1. \A i \in InBlock : (off % BlockSize) + i < BlockSize =>
              extra_block'[i] = Content(w)'[(off % BlockSize) + i]
      BY <2>1, <2>2, <2>3
    <3>2. pending'[current'].offset = off
      BY <2>1, <1>1
    <3> QED BY <2>2, <2>3, <3>1, <3>2 DEF ExtraOK
  <2>4. ExtraOK'
    BY <2>1, <2>3 DEF ExtraOK
  <2>5. FirstOK'
    BY <2>1, <1>0 DEF FirstOK, Holds, Kept
  <2> QED BY <2>1, <2>4, <2>5 DEF SameUnlessStale, Same
<1>4. CASE ~Spills
  <2> DEFINE n == pending[current].size
             used == bad \cup (IF stage = 2 THEN stale \cap {"extra"} ELSE {})
  <2>1. PICK u \in [0..(n - 1) -> Unit] : u = Units(buffer)
    BY <1>4, UnitsOK
  <2>2. /\ stage' = 1
        /\ data' = [offset |-> off, size |-> n, units |-> u, stale |-> used]
        /\ first' = [p \in Offsets |-> IF used = {} /\ first[p] = None /\ p >= off /\ p < off + n
                                         THEN u[p - off] ELSE first[p]]
    BY <1>1, <1>4, <2>1 DEF Accepted, Returned
  <2>3. ASSUME NEW p \in Offsets, NEW x, x = first[p], x # None PROVE Holds(x, p)'
    BY <2>3, <1>0 DEF FirstOK, Holds, Kept
  <2>4. CASE used # {}
    <3>1. data'.stale # {} /\ \A p \in Offsets : first'[p] = first[p]
      BY <2>2, <2>4
    <3>2. FirstOK'
      BY <2>3, <3>1 DEF FirstOK
    <3> QED BY <2>2, <3>1, <3>2 DEF ExtraOK, SameUnlessStale
  <2>5. CASE used = {}
    <3>0. bad = {} /\ (stage = 2 => "extra" \notin stale)
      BY <2>5
    <3>1. Known(w)' /\ buffer = Content(w)'
      BY <3>0
    <3> HIDE DEF used
    <3>2. ASSUME NEW i \in 0..(n - 1) PROVE Holds(u[i], off + i)'
      BY <1>1, <1>4, <2>1, <3>0, <3>1, SentIsContent
    <3>3. ASSUME NEW p \in Offsets, NEW x, x = first'[p], x # None PROVE Holds(x, p)'
      <4>1. CASE first[p] # None
        BY <2>2, <2>3, <3>3, <4>1
      <4>2. CASE first[p] = None
        <5>1. p >= off /\ p < off + n /\ x = u[p - off]
          BY <2>2, <3>3, <4>2
        <5>2. PICK i \in 0..(n - 1) : i = p - off /\ off + i = p
          BY <5>1, <1>2 DEF Offsets
        <5> QED BY <3>2, <5>1, <5>2
      <4> QED BY <4>1, <4>2
    <3>4. FirstOK'
      BY <3>3 DEF FirstOK
    <3>5. ASSUME NEW i \in 0..(n - 1), off + i \in Offsets PROVE u[i] = first'[off + i]
      <4>1. PICK p \in Offsets : p = off + i
        BY <3>5
      <4>2. CASE first[p] = None
        BY <2>2, <2>5, <4>1, <4>2, <1>2
      <4>3. CASE first[p] # None
        <5>1. PICK x : x = first[p] /\ Holds(x, p)'
          BY <2>3, <4>3
        <5>2. Holds(u[i], p)'
          BY <3>2, <4>1
        <5> QED BY <2>2, <4>1, <4>3, <5>1, <5>2 DEF Holds
      <4> QED BY <4>2, <4>3
    <3>6. Same'
      BY <2>2, <3>5 DEF Same
    <3> QED BY <2>2, <3>4, <3>6 DEF ExtraOK, SameUnlessStale
  <2> QED BY <2>4, <2>5
<1> QED BY <1>3, <1>4

\* A step that fetches nothing keeps every promise of the cache and of the copy.
LEMMA QuietSame ==
  ASSUME SameInv, UNCHANGED <<cache, data, first, stale>>,
         \/ stage' = 1
         \/ stage' = stage /\ current' = current /\ pending'[current] = pending[current]
  PROVE  SameInv'
<1>1. UNCHANGED <<curr_block, block_data, extra_block, hashes, data, first, stale>>
  BY DEF cache
<1>2. CacheOK => CacheOK'
  BY <1>1 DEF CacheOK, Known, Content
<1>3. ExtraOK => ExtraOK'
  BY <1>1 DEF ExtraOK, Known, Content
<1>4. FirstOK => FirstOK'
  BY <1>1 DEF FirstOK, Holds, Known, Content
<1>5. SameUnlessStale => SameUnlessStale'
  BY <1>1 DEF SameUnlessStale, Same
<1> QED BY <1>1, <1>2, <1>3, <1>4, <1>5 DEF SameInv

\* Every step keeps every promise.
LEMMA StepSame == FuseType /\ Shape /\ SameInv /\ FuseStep => SameInv'
<1> SUFFICES ASSUME FuseType, Shape, SameInv, FuseStep PROVE SameInv'
  OBVIOUS
<1>0. \A r \in Read : r # NoRequest
  BY DEF Read, NoRequest
<1>1. CASE KeepFuse
  BY <1>1, QuietSame DEF KeepFuse, fuseVars, calls, seen
<1>2. ASSUME NEW c \in Callers, NEW r \in Read \cup Lookup, Ask(c, r) PROVE SameInv'
  <2>1. current # Nobody => current # c
    BY <1>0, <1>2 DEF Ask, Shape
  <2>2. stage = 2 => pending'[current] = pending[current]
    BY <1>2, <2>1 DEF Ask, Shape, FuseType
  <2>3. /\ stage' = stage /\ current' = current /\ stage \in {1, 2}
        /\ UNCHANGED <<cache, data, first, stale>>
    BY <1>2 DEF Ask, FuseType
  <2>4. CASE stage = 1
    BY <2>3, <2>4, QuietSame
  <2>5. CASE stage = 2
    BY <2>2, <2>3, <2>5, QuietSame
  <2> QED BY <2>3, <2>4, <2>5
<1>3. CASE Gone /\ UNCHANGED <<cache, seen>>
  BY <1>3, QuietSame DEF Gone, seen
<1>4. CASE Serve
  <2>0. CacheOK /\ ExtraOK /\ FirstOK /\ SameUnlessStale
    BY DEF SameInv
  <2>1. ASSUME NEW c \in Callers, HandleLookup(c) PROVE SameInv'
    <3>1. stage = 1 /\ stage' = stage
      BY <2>1 DEF HandleLookup, Shape, FuseType
    <3> QED BY <2>1, <3>1, QuietSame DEF HandleLookup, seen
  <2>2. ASSUME NEW c \in Callers, HandleRead(c) PROVE SameInv'
    BY <2>2, QuietSame DEF HandleRead, seen
  <2>3. CASE FetchCached
    <3>1. PICK bad \in SUBSET {"block"} :
             /\ current # Nobody /\ wanted = curr_block /\ Accepted(block_data, bad)
             /\ bad = stale \cap {"block"}
             /\ UNCHANGED <<curr_block, block_data, hashes>>
      BY <2>3 DEF FetchCached
    <3>2. PICK w \in Nat : w = wanted
      BY <3>1, Position
    <3>3. bad = {} => Known(w)' /\ block_data = Content(w)'
      BY <2>0, <3>1, <3>2 DEF CacheOK, Known, Content, NoBlock
    <3>4. Kept
      BY <3>1 DEF Kept, Known, Content
    <3>5. ExtraOK' /\ FirstOK' /\ SameUnlessStale'
      BY <2>0, <3>1, <3>2, <3>3, <3>4, AcceptedSame DEF FuseType
    <3>6. "block" \in stale => "block" \in stale'
      BY <3>1 DEF Accepted
    <3>7. CacheOK'
      BY <2>0, <3>1, <3>6 DEF CacheOK, Known, Content
    <3> QED BY <3>5, <3>7 DEF SameInv
  <2>4. CASE FetchBeyond
    <3>1. /\ current # Nobody /\ wanted >= file_blocks /\ Accepted(block_data', {})
          /\ curr_block' = wanted /\ block_data' = [i \in InBlock |-> Zero]
          /\ UNCHANGED hashes
      BY <2>4 DEF FetchBeyond
    <3>2. PICK w \in Nat : w = wanted
      BY <3>1, Position
    <3>3. block_data' \in Block
      BY <3>1 DEF Block, Unit
    <3>4. Known(w)' /\ block_data' = Content(w)'
      BY <3>1, <3>2, FileBlocks DEF Known, Content
    <3>5. Kept
      BY <3>1 DEF Kept, Known, Content
    <3>6. ExtraOK' /\ FirstOK' /\ SameUnlessStale'
      BY <2>0, <3>1, <3>2, <3>3, <3>4, <3>5, AcceptedSame
    <3>7. CacheOK'
      BY <3>1, <3>2, <3>4 DEF CacheOK
    <3> QED BY <3>6, <3>7 DEF SameInv
  <2>5. ASSUME NEW v \in Versions, FetchDelivered(v) PROVE SameInv'
    <3>1. /\ current # Nobody /\ wanted < file_blocks
          /\ block_data' = Delivered(wanted, v, FetchSize(wanted))
      BY <2>5 DEF FetchDelivered
    <3>2. PICK w \in Nat : w = wanted /\ w \in 0..(file_blocks - 1)
      BY <3>1, Position, FileBlocks
    <3>3. block_data' \in Block
      BY <3>1, <3>2, DeliveredIsBlock, FetchSizeOK DEF FuseType
    <3>4. CASE hashes[wanted] \in {None, block_data'}
      <4>1. /\ curr_block' = w /\ hashes' = [hashes EXCEPT ![w] = block_data']
            /\ Accepted(block_data', {})
        BY <2>5, <3>2, <3>4 DEF FetchDelivered
      <4>2. hashes'[w] = block_data' /\ hashes'[w] # None
        BY <3>2, <3>3, <4>1, BlockIsNotNone DEF FuseType
      <4>3. Known(w)' /\ block_data' = Content(w)'
        BY <3>2, <4>2, FileBlocks DEF Known, Content
      <4>4. Kept
        <5>1. ASSUME NEW b \in Nat, Known(b) PROVE Known(b)' /\ Content(b)' = Content(b)
          <6>1. CASE b = w
            BY <3>1, <3>2, <3>4, <4>2, <4>3, <5>1, <6>1 DEF Known, Content
          <6>2. CASE b # w /\ b < file_blocks
            <7>1. b \in 0..(file_blocks - 1)
              BY <6>2, FileBlocks
            <7>2. hashes'[b] = hashes[b]
              BY <4>1, <6>2, <7>1 DEF FuseType
            <7> QED BY <5>1, <7>2 DEF Known, Content
          <6>3. CASE ~(b < file_blocks)
            BY <6>3 DEF Known, Content
          <6> QED BY <6>1, <6>2, <6>3
        <5> QED BY <5>1 DEF Kept
      <4>5. ExtraOK' /\ FirstOK' /\ SameUnlessStale'
        BY <2>0, <3>1, <3>2, <3>3, <4>1, <4>3, <4>4, AcceptedSame
      <4>6. CacheOK'
        BY <4>1, <4>3 DEF CacheOK
      <4> QED BY <4>5, <4>6 DEF SameInv
    <3>5. CASE hashes[wanted] \notin {None, block_data'}
      <4>1. /\ curr_block' = NoBlock /\ hashes' = hashes /\ stage' = 1
            /\ UNCHANGED <<data, first>>
        BY <2>5, <3>5 DEF FetchDelivered, Refused
      <4>2. CacheOK' /\ ExtraOK'
        BY <4>1 DEF CacheOK, ExtraOK
      <4>3. FirstOK' /\ SameUnlessStale'
        BY <2>0, <4>1 DEF FirstOK, SameUnlessStale, Same, Holds, Known, Content
      <4> QED BY <4>2, <4>3 DEF SameInv
    <3> QED BY <3>4, <3>5
  <2>6. ASSUME NEW v \in Versions, NEW n \in 0..(BlockSize - 1), FetchFails(v, n)
        PROVE  SameInv'
    <3>1. /\ stale' = (IF curr_block = NoBlock THEN {} ELSE {"block"}) /\ stage' = 1
          /\ UNCHANGED <<curr_block, hashes, data, first>>
      BY <2>6 DEF FetchFails, Refused
    <3>2. CacheOK' /\ ExtraOK'
      BY <3>1 DEF CacheOK, ExtraOK
    <3>3. FirstOK' /\ SameUnlessStale'
      BY <2>0, <3>1 DEF FirstOK, SameUnlessStale, Same, Holds, Known, Content
    <3> QED BY <3>2, <3>3 DEF SameInv
  <2> QED BY <1>4, <2>1, <2>2, <2>3, <2>4, <2>5, <2>6 DEF Serve, ServeAlone, ServeFetched
<1>5. CASE Forget
  <2>1. CacheOK' /\ ExtraOK' /\ FirstOK'
    BY <1>5 DEF Forget, CacheOK, ExtraOK, FirstOK
  <2>2. SameUnlessStale'
    BY <1>5 DEF Forget, SameUnlessStale, Same
  <2> QED BY <2>1, <2>2 DEF SameInv
<1>6. CASE mounted' = TRUE /\ UNCHANGED <<cache, calls, seen>>
  BY <1>6, QuietSame DEF calls, seen
<1> QED BY <1>1, <1>2, <1>3, <1>4, <1>5, <1>6 DEF FuseStep

\* Every read of a position returns what the first read of that position
\* returned, for every block size and file size, whatever versions the provider
\* delivers, however often it fails and however reads spill from one block into
\* the next; but for the reads answered from a buffer that a failed fetch has
\* written over.
THEOREM SameDataUnlessStale == Spec => []SameUnlessStale
<1>1. Init => SameInv
  <2> SUFFICES ASSUME FuseInit PROVE SameInv
    BY DEF Init
  <2>1. CacheOK /\ ExtraOK /\ FirstOK /\ SameUnlessStale
    BY DEF FuseInit, CacheOK, ExtraOK, FirstOK, SameUnlessStale, Same
  <2> QED BY <2>1 DEF SameInv
<1>2. BaseInv /\ SameInv /\ [Next]_vars => SameInv'
  BY StepIsFuseStep, StepSame DEF BaseInv
<1>3. SameInv => SameUnlessStale
  BY DEF SameInv
<1> QED BY <1>1, <1>2, <1>3, InitBase, StepBase, PTL DEF Spec

-----------------------------------------------------------------------------
(* A read is refused only for a reason                                     *)

\* A block of the file as fetch_block leaves it in the buffer.
AsFetched(b, v) == [i \in InBlock |-> IF i < FetchSize(b) THEN <<b * BlockSize + i, v>> ELSE Zero]

\* A known hash is that of a whole block in one version.
HashInv ==
  \A b \in 0..(file_blocks - 1) :
     hashes[b] # None => \E v \in Versions : hashes[b] = AsFetched(b, v)

LEMMA DeliveredIsFetched ==
  ASSUME NEW b \in 0..(file_blocks - 1), NEW v \in Versions
  PROVE  Delivered(b, v, FetchSize(b)) = AsFetched(b, v)
<1>1. FetchSize(b) \in Nat
  BY FetchSizeOK
<1>2. \A i \in InBlock : ~(i < FetchSize(b)) => Padded(b)[i] = Zero
  BY <1>1 DEF Padded, InBlock
<1> QED BY <1>2 DEF Delivered, AsFetched

\* Every step keeps the hashes those of whole blocks.
LEMMA StepHash == FuseType /\ Shape /\ HashInv /\ FuseStep => HashInv'
<1> SUFFICES ASSUME FuseType, Shape, HashInv, FuseStep PROVE HashInv'
  OBVIOUS
<1>1. ASSUME hashes' = hashes PROVE HashInv'
  BY <1>1 DEF HashInv, AsFetched, FetchSize
<1>2. CASE Forget
  BY <1>2 DEF Forget, HashInv
<1>3. ASSUME NEW v \in Versions, FetchDelivered(v) PROVE HashInv'
  <2>1. PICK w \in 0..(file_blocks - 1) : w = wanted
    BY <1>3, Position, FileBlocks DEF FetchDelivered
  <2>2. CASE hashes' = hashes
    BY <1>1, <2>2
  <2>3. CASE hashes' = [hashes EXCEPT ![w] = block_data']
    <3>1. block_data' = AsFetched(w, v)
      BY <1>3, <2>1, DeliveredIsFetched DEF FetchDelivered
    <3>2. hashes' = [hashes EXCEPT ![w] = AsFetched(w, v)]
      BY <2>3, <3>1
    <3>3. \A b \in 0..(file_blocks - 1) : hashes'[b] = IF b = w THEN AsFetched(w, v) ELSE hashes[b]
      BY <3>2 DEF FuseType
    <3>4. \A b \in 0..(file_blocks - 1) :
             hashes'[b] # None => \E u \in Versions : hashes'[b] = AsFetched(b, u)
      BY <3>3 DEF HashInv
    <3> QED BY <3>4 DEF HashInv, AsFetched, FetchSize
  <2> QED BY <1>3, <2>1, <2>2, <2>3 DEF FetchDelivered
<1>4. CASE KeepFuse \/ (\E c \in Callers : \E r \in Read \cup Lookup : Ask(c, r))
            \/ (Gone /\ UNCHANGED <<cache, seen>>)
            \/ (mounted' = TRUE /\ UNCHANGED <<cache, calls, seen>>)
  BY <1>1, <1>4 DEF KeepFuse, fuseVars, cache, Ask
<1>5. CASE Serve
  <2>1. CASE (\E c \in Callers : HandleLookup(c) \/ HandleRead(c)) \/ FetchCached \/ FetchBeyond
    BY <1>1, <2>1 DEF HandleLookup, HandleRead, FetchCached, FetchBeyond, cache
  <2>2. ASSUME NEW v \in Versions, NEW n \in 0..(BlockSize - 1), FetchFails(v, n) PROVE HashInv'
    BY <1>1, <2>2 DEF FetchFails
  <2> QED BY <1>5, <1>3, <2>1, <2>2 DEF Serve, ServeAlone, ServeFetched
<1> QED BY <1>2, <1>4, <1>5 DEF FuseStep

\* While the filesystem is there, the kernel has no error without a mishap; and
\* before the next child serves, no answer is left from the last one.
ErrInv ==
  /\ gui \in {"idle", "fork"} => ~mounted /\ reply["kernel"] = "none"
  /\ child = "listening" => ~mounted /\ reply["kernel"] = "none"
  /\ mounted /\ reply["kernel"] = "error" => mishap.failed \/ mishap.changed

\* A block is refused only if the provider failed or its content changed.
LEMMA ServeErr ==
  ASSUME FuseType, FuseFlags, Shape, HashInv, Serve, mounted',
         mounted /\ reply["kernel"] = "error" => mishap.failed \/ mishap.changed,
         reply'["kernel"] = "error"
  PROVE  mishap'.failed \/ mishap'.changed
<1>1. ASSUME NEW c \in Callers, HandleLookup(c) PROVE mishap'.failed \/ mishap'.changed
  <2>1. /\ mounted /\ mishap' = mishap
        /\ \E how \in {"ok", "ENOENT"} : Answer(c, how)
    BY <1>1 DEF HandleLookup, seen
  <2>2. reply["kernel"] = "error"
    BY <2>1 DEF Answer, FuseType
  <2> QED BY <2>1, <2>2
<1>2. ASSUME NEW c \in Callers, HandleRead(c) PROVE mishap'.failed \/ mishap'.changed
  BY <1>2 DEF HandleRead, seen
<1>3. ASSUME NEW b, NEW x, Accepted(b, x) PROVE reply["kernel"] = "error"
  BY <1>3 DEF Accepted, Answer, FuseType
<1>4. CASE FetchCached \/ FetchBeyond
  BY <1>3, <1>4 DEF FetchCached, FetchBeyond
<1>5. ASSUME NEW v \in Versions, FetchDelivered(v) PROVE mishap'.failed \/ mishap'.changed
  <2>1. PICK w \in 0..(file_blocks - 1) : w = wanted
    BY <1>5, Position, FileBlocks DEF FetchDelivered
  <2>2. block_data' = AsFetched(w, v) /\ mounted
    BY <1>5, <2>1, DeliveredIsFetched DEF FetchDelivered
  <2>3. mishap'.failed = mishap.failed /\ mishap'.changed = (mishap.changed \/ Changed(w, v))
    BY <1>5, <2>1, Zenon DEF FetchDelivered, FuseFlags
  <2>4. CASE hashes[w] \in {None, block_data'}
    <3>1. Accepted(block_data', {})
      BY <1>5, <2>1, <2>4 DEF FetchDelivered
    <3> QED BY <1>3, <2>2, <2>3, <3>1
  <2>5. CASE hashes[w] \notin {None, block_data'}
    <3>1. PICK u \in Versions : hashes[w] = AsFetched(w, u)
      BY <2>5 DEF HashInv
    <3>2. u # v
      BY <2>2, <2>5, <3>1
    <3>3. 0 \in InBlock /\ 0 < FetchSize(w)
      BY FetchSizeOK DEF InBlock
    <3>4. hashes[w][0] = <<w * BlockSize + 0, u>>
      BY <3>1, <3>3 DEF AsFetched
    <3>5. Changed(w, v)
      BY <2>5, <3>2, <3>4 DEF Changed
    <3> QED BY <2>3, <3>5
  <2> QED BY <2>4, <2>5
<1>6. ASSUME NEW v \in Versions, NEW n \in 0..(BlockSize - 1), FetchFails(v, n)
      PROVE  mishap'.failed \/ mishap'.changed
  BY <1>6, Zenon DEF FetchFails, FuseFlags
<1> QED BY <1>1, <1>2, <1>4, <1>5, <1>6 DEF Serve, ServeAlone, ServeFetched

\* Every step of the session keeps it.
LEMMA StepErr == BaseInv /\ DaemonInv /\ HashInv /\ ErrInv /\ [Next]_vars => ErrInv'
<1> SUFFICES ASSUME BaseInv, DaemonInv, HashInv, ErrInv, [Next]_vars PROVE ErrInv'
  OBVIOUS
<1> USE DEF ErrInv
<1>1. ASSUME KeepFuse PROVE UNCHANGED <<mounted, reply, mishap>>
  BY <1>1 DEF KeepFuse, fuseVars, calls, seen
<1>2. ASSUME Forget PROVE mounted' = FALSE /\ reply'["kernel"] = "none"
  BY <1>2 DEF Forget
<1>3. ASSUME ChildKilled
      PROVE  \/ UNCHANGED <<child, mounted, reply, mishap>>
             \/ child' = "zombie" /\ ~mounted' /\ child \in Alive
  BY <1>3 DEF ChildKilled, Gone, fuseVars, calls, seen
<1>4. ASSUME NEW c, NEW r, Ask(c, r)
      PROVE  /\ mounted' = mounted
             /\ r.op = "lookup" => mishap' = mishap
             /\ reply'["kernel"] = "error" => c # "kernel" /\ reply["kernel"] = "error"
             /\ reply["kernel"] = "none" => reply'["kernel"] = "none"
  BY <1>4 DEF Ask, BaseInv, FuseType
<1>5. CASE UNCHANGED vars
  BY <1>1, <1>5 DEF vars, session_vars, KeepFuse
<1>6. CASE Start
  BY <1>1, <1>6 DEF Start, GuiTo
<1>7. CASE GuiStep
  <2>1. CASE Fork
    BY <1>1, <2>1 DEF Fork, GuiTo
  <2>2. CASE Assign
    BY <1>1, <2>2 DEF Assign, GuiTo
  <2>3. CASE PollChild
    BY <1>1, <2>3 DEF PollChild, GuiTo, Reap
  <2>4. CASE PollAbsent
    <3>1. CASE polls < MaxPolls - 1
      BY <1>1, <2>4, <3>1 DEF PollAbsent, GuiTo
    <3>2. CASE ~(polls < MaxPolls - 1)
      <4>1. gui' = "giveup" /\ ChildKilled
        BY <2>4, <3>2 DEF PollAbsent, GuiTo
      <4> QED BY <1>3, <4>1
    <3> QED BY <3>1, <3>2
  <2>5. CASE PollStat
    <3>1. PICK r : r = [op |-> "lookup", name |-> "package.zip"]
      OBVIOUS
    <3>2. Ask("gui", r) /\ gui' = "stated" /\ gui = "stat" /\ child' = child /\ r.op = "lookup"
      BY <2>5, <3>1 DEF PollStat, GuiTo
    <3> QED BY <1>4, <3>2
  <2>6. CASE PollStated
    <3>1. CASE reply["gui"] = "ok"
      BY <1>1, <2>6, <3>1 DEF PollStated, GuiTo
    <3>2. CASE reply["gui"] # "ok"
      <4>1. gui' = "giveup" /\ ChildKilled
        BY <2>6, <3>2 DEF PollStated, GuiTo
      <4> QED BY <1>3, <4>1
    <3> QED BY <3>1, <3>2
  <2>7. CASE GiveUp
    BY <1>1, <2>7 DEF GiveUp, GuiTo
  <2>8. CASE GiveUpWait
    BY <1>1, <2>8 DEF GiveUpWait, GuiTo, Reap
  <2>9. CASE Failed
    BY <1>1, <2>9 DEF Failed, GuiTo
  <2>10. CASE Installed
    BY <1>1, <2>10 DEF Installed, GuiTo
  <2>11. CASE Signal
    BY <1>1, <1>4, <2>11 DEF Signal, GuiTo
  <2>12. CASE Signalled
    BY <1>1, <2>12 DEF Signalled, GuiTo
  <2>13. CASE WaitChild
    BY <1>1, <2>13 DEF WaitChild, GuiTo, Reap
  <2>14. CASE End
    BY <1>2, <2>14 DEF End, GuiTo
  <2> QED BY <1>7, <2>1, <2>2, <2>3, <2>4, <2>5, <2>6, <2>7, <2>8, <2>9, <2>10, <2>11, <2>12,
             <2>13, <2>14 DEF GuiStep
<1>8. CASE KernelReads
  BY <1>4, <1>8 DEF KernelReads
<1>9. CASE PressCancel
  BY <1>1, <1>9 DEF PressCancel
<1>10. CASE CancelStep
  <2>1. CASE CancelStat
    BY <1>1, <1>4, <2>1 DEF CancelStat
  <2>2. CASE CancelStated \/ CancelCheck \/ CancelClear
    BY <1>1, <2>2 DEF CancelStated, CancelCheck, CancelClear
  <2>3. CASE CancelKill
    <3>1. gui' \in {gui, "dead"} /\ ChildKilled
      BY <2>3 DEF CancelKill
    <3> QED BY <1>3, <3>1 DEF DaemonInv
  <2>4. CASE CancelWait
    BY <1>1, <2>4 DEF CancelWait, Reap
  <2> QED BY <1>10, <2>1, <2>2, <2>3, <2>4 DEF CancelStep
<1>11. CASE HostConnects
  BY <1>11 DEF HostConnects, calls, seen, DaemonInv, Alive
<1>12. CASE ChildServes
  <2>1. Serve /\ child = "serving" /\ UNCHANGED <<gui, child>>
    BY <1>12 DEF ChildServes, session_vars
  <2>2. gui \notin {"idle", "fork"}
    BY <2>1 DEF DaemonInv, Alive
  <2>3. mounted' /\ reply'["kernel"] = "error" => mishap'.failed \/ mishap'.changed
    BY <2>1, ServeErr DEF BaseInv
  <2> QED BY <2>1, <2>2, <2>3
<1>13. CASE ChildExits
  BY <1>13 DEF ChildExits, fuseVars, calls, seen
<1>14. CASE Restart
  BY <1>2, <1>14 DEF Restart, GuiTo
<1> QED BY <1>5, <1>6, <1>7, <1>8, <1>9, <1>10, <1>11, <1>12, <1>13, <1>14 DEF Next

\* While the filesystem is mounted, the installer's read is refused only if the
\* provider has failed or has delivered another content than before: no cached
\* or cleared buffer, short last block or wrapped product makes a good block
\* look bad.
THEOREM NoFalseErrors == Spec => []NoFalseError
<1>1. Init => HashInv /\ ErrInv
  BY DEF Init, FuseInit, HashInv, ErrInv
<1>2. BaseInv /\ HashInv /\ [Next]_vars => HashInv'
  BY StepIsFuseStep, StepHash DEF BaseInv
<1>3. BaseInv /\ DaemonInv /\ [Next]_vars => DaemonInv'
  BY StepDaemon DEF BaseInv
<1>4. Init => DaemonInv
  BY InitSession
<1>5. ErrInv => NoFalseError
  BY DEF ErrInv, NoFalseError
<1> QED BY <1>1, <1>2, <1>3, <1>4, <1>5, InitBase, StepBase, StepErr, PTL DEF Spec
-----------------------------------------------------------------------------
(* Nobody waits in vain                                                    *)

\* Whoever waits has somebody to wait for.  The waits for the child after a
\* timeout or a kill find it dead; the wait after an installation finds it dead
\* or told to go, with its filesystem unmounted; and a request that has no
\* answer yet lies with a child that serves a mounted filesystem and either has
\* a read in hand or takes this one up.
WaitsAreServed ==
  /\ gui = "reap" => child \notin Alive
  /\ cancel = "wait" => child \notin Alive
  /\ gui = "wait" /\ child \in Alive => child = "serving" /\ ~mounted
  /\ \A c \in Callers : pending[c] # NoRequest =>
       /\ child = "serving" /\ mounted
       /\ current # Nobody => pending[current] \in Read
       /\ current = Nobody => pending[c] \in Read \cup Lookup

ExitRequest == [op |-> "lookup", name |-> "exit"]

\* What makes it inductive: only a child that serves has the filesystem mounted;
\* once the package has been seen the child does not listen any more; the action
\* thread that has asked for the exit file has no answer while it is mounted.
ServerInv ==
  /\ mounted => child = "serving"
  /\ \A c \in Callers : pending[c] # NoRequest => mounted
  /\ child = "listening" => gui \in {"assign", "poll", "stat"}
  /\ gui \in {"signalled", "wait"} /\ mounted =>
       gui = "signalled" /\ pending["gui"] = ExitRequest
  /\ cancel = "wait" => child \notin Alive

\* The server only takes requests away; it leaves none behind when it unmounts,
\* and it unmounts when it answers the request for the exit file.
LEMMA ServeRequests ==
  ASSUME FuseType, Shape, Serve
  PROVE  /\ mounted
         /\ \A c \in Callers : pending'[c] \in {pending[c], NoRequest}
         /\ ~mounted' => \A c \in Callers : pending'[c] = NoRequest
         /\ mounted' /\ pending["gui"] = ExitRequest => pending'["gui"] = ExitRequest
<1> DEFINE Goal == /\ mounted
                   /\ \A c \in Callers : pending'[c] \in {pending[c], NoRequest}
                   /\ ~mounted' => \A c \in Callers : pending'[c] = NoRequest
                   /\ mounted' /\ pending["gui"] = ExitRequest => pending'["gui"] = ExitRequest
<1>1. ASSUME NEW c \in Callers, HandleLookup(c) PROVE Goal
  <2>1. CASE pending[c].name = "exit"
    <3>1. mounted /\ mounted' = FALSE /\ pending' = [d \in Callers |-> NoRequest]
      BY <1>1, <2>1 DEF HandleLookup
    <3> QED BY <3>1
  <2>2. CASE pending[c].name # "exit"
    <3>1. mounted /\ mounted' = mounted /\ pending' = [pending EXCEPT ![c] = NoRequest]
      BY <1>1, <2>2 DEF HandleLookup, Answer
    <3>2. pending["gui"] = ExitRequest => c # "gui"
      BY <2>2 DEF ExitRequest
    <3> QED BY <3>1, <3>2 DEF FuseType
  <2> QED BY <2>1, <2>2
<1>2. ASSUME NEW c \in Callers, HandleRead(c) PROVE Goal
  BY <1>2 DEF HandleRead
<1>3. ASSUME current # Nobody, mounted, mounted' = mounted,
             pending' = pending \/ pending' = [pending EXCEPT ![current] = NoRequest]
      PROVE  Goal
  <2>1. pending[current] \in Read
    BY <1>3 DEF Shape
  <2>2. pending["gui"] = ExitRequest => current # "gui"
    BY <2>1 DEF ExitRequest, Read
  <2> QED BY <1>3, <2>2 DEF FuseType
<1>4. ASSUME NEW b, NEW x, Accepted(b, x)
      PROVE  pending' = pending \/ pending' = [pending EXCEPT ![current] = NoRequest]
  BY <1>4 DEF Accepted, Answer
<1>5. ASSUME Refused PROVE pending' = [pending EXCEPT ![current] = NoRequest]
  BY <1>5 DEF Refused, Answer
<1>6. CASE FetchCached \/ FetchBeyond
  BY <1>3, <1>4, <1>6 DEF FetchCached, FetchBeyond
<1>7. ASSUME NEW v \in Versions, FetchDelivered(v) PROVE Goal
  BY <1>3, <1>4, <1>5, <1>7 DEF FetchDelivered
<1>8. ASSUME NEW v \in Versions, NEW n \in 0..(BlockSize - 1), FetchFails(v, n) PROVE Goal
  BY <1>3, <1>5, <1>8 DEF FetchFails
<1> QED BY <1>1, <1>2, <1>6, <1>7, <1>8 DEF Serve, ServeAlone, ServeFetched

\* Every step of the session keeps it.
LEMMA StepServer == BaseInv /\ DaemonInv /\ ServerInv /\ [Next]_vars => ServerInv'
<1> SUFFICES ASSUME BaseInv, DaemonInv, ServerInv, [Next]_vars PROVE ServerInv'
  OBVIOUS
<1> USE DEF ServerInv, Alive, ExitRequest
<1>1. ASSUME KeepFuse PROVE UNCHANGED <<mounted, pending>>
  BY <1>1 DEF KeepFuse, fuseVars, calls
<1>2. ASSUME Forget PROVE mounted' = FALSE /\ \A c \in Callers : pending'[c] = NoRequest
  BY <1>2 DEF Forget
<1>3. ASSUME ChildKilled
      PROVE  /\ child' \notin Alive
             /\ mounted' = FALSE
             /\ \A c \in Callers : pending'[c] = NoRequest
  <2>1. CASE child \in Alive
    BY <1>3, <2>1 DEF ChildKilled, Gone
  <2>2. CASE child \notin Alive
    <3>1. UNCHANGED <<child, mounted, pending>> /\ ~mounted
      BY <1>3, <2>2 DEF ChildKilled, fuseVars, calls
    <3>2. mounted' = FALSE
      BY <3>1, Zenon DEF BaseInv, FuseFlags
    <3> QED BY <2>2, <3>1, <3>2
  <2> QED BY <2>1, <2>2
<1>4. ASSUME NEW c \in Callers, NEW r, Ask(c, r)
      PROVE  /\ mounted' = mounted
             /\ \A d \in Callers : pending'[d] = IF d = c THEN r ELSE pending[d]
  BY <1>4 DEF Ask, BaseInv, FuseType
<1>5. CASE UNCHANGED vars
  BY <1>1, <1>5 DEF vars, session_vars, KeepFuse
<1>6. CASE Start
  BY <1>1, <1>6 DEF Start, GuiTo, DaemonInv
<1>7. CASE GuiStep
  <2>1. CASE Fork
    BY <1>1, <2>1 DEF Fork, GuiTo, DaemonInv
  <2>2. CASE Assign
    BY <1>1, <2>2 DEF Assign, GuiTo
  <2>3. CASE PollChild
    BY <1>1, <2>3 DEF PollChild, GuiTo, Reap
  <2>4. CASE PollAbsent
    <3>1. CASE polls < MaxPolls - 1
      BY <1>1, <2>4, <3>1 DEF PollAbsent, GuiTo
    <3>2. CASE ~(polls < MaxPolls - 1)
      <4>1. gui' = "giveup" /\ ChildKilled /\ cancel' = cancel
        BY <2>4, <3>2 DEF PollAbsent, GuiTo
      <4> QED BY <1>3, <4>1
    <3> QED BY <3>1, <3>2
  <2>5. CASE PollStat
    <3>1. /\ gui' = "stated" /\ mounted /\ UNCHANGED <<child, cancel>>
          /\ Ask("gui", [op |-> "lookup", name |-> "package.zip"])
      BY <2>5 DEF PollStat, GuiTo
    <3> QED BY <1>4, <3>1
  <2>6. CASE PollStated
    <3>1. CASE reply["gui"] = "ok"
      BY <1>1, <2>6, <3>1 DEF PollStated, GuiTo
    <3>2. CASE reply["gui"] # "ok"
      <4>1. gui' = "giveup" /\ ChildKilled /\ cancel' = cancel
        BY <2>6, <3>2 DEF PollStated, GuiTo
      <4> QED BY <1>3, <4>1
    <3> QED BY <3>1, <3>2
  <2>7. CASE GiveUp \/ Failed \/ Installed
    BY <1>1, <2>7 DEF GiveUp, Failed, Installed, GuiTo
  <2>8. CASE GiveUpWait
    BY <1>1, <2>8 DEF GiveUpWait, GuiTo, Reap
  <2>9. CASE Signal
    <3>1. CASE sideload_child_pid # 0 /\ mounted
      <4>1. /\ gui' = "signalled" /\ UNCHANGED <<child, cancel>>
            /\ Ask("gui", [op |-> "lookup", name |-> "exit"])
        BY <2>9, <3>1 DEF Signal, GuiTo
      <4> QED BY <1>4, <3>1, <4>1
    <3>2. CASE ~(sideload_child_pid # 0 /\ mounted)
      <4>1. /\ gui' = (IF sideload_child_pid # 0 THEN "wait" ELSE "adbd") /\ KeepFuse
            /\ UNCHANGED <<child, cancel>>
        BY <2>9, <3>2 DEF Signal, GuiTo
      <4> QED BY <1>1, <2>9, <3>2, <4>1 DEF Signal
    <3> QED BY <3>1, <3>2
  <2>10. CASE Signalled
    <3>1. ~mounted
      BY <2>10 DEF Signalled, NoRequest
    <3> QED BY <1>1, <2>10, <3>1 DEF Signalled, GuiTo
  <2>11. CASE WaitChild
    BY <1>1, <2>11 DEF WaitChild, GuiTo, Reap
  <2>12. CASE End
    BY <1>2, <2>12 DEF End, GuiTo, DaemonInv
  <2> QED BY <1>7, <2>1, <2>2, <2>3, <2>4, <2>5, <2>6, <2>7, <2>8, <2>9, <2>10, <2>11, <2>12
          DEF GuiStep
<1>8. CASE KernelReads
  <2>1. PICK r : Ask("kernel", r)
    BY <1>8 DEF KernelReads
  <2>2. mounted /\ UNCHANGED <<child, gui, cancel>>
    BY <1>8 DEF KernelReads
  <2> QED BY <1>4, <2>1, <2>2
<1>9. CASE PressCancel
  BY <1>1, <1>9 DEF PressCancel, CancelTo
<1>10. CASE CancelStep
  <2>1. CASE CancelStat
    <3>1. CASE mounted
      <4>1. /\ cancel' = "stated" /\ UNCHANGED <<child, gui>>
            /\ Ask("cancel", [op |-> "lookup", name |-> "exit"])
        BY <2>1, <3>1 DEF CancelStat, CancelTo
      <4> QED BY <1>4, <3>1, <4>1
    <3>2. CASE ~mounted
      BY <1>1, <2>1, <3>2 DEF CancelStat, CancelTo
    <3> QED BY <3>1, <3>2
  <2>2. CASE CancelStated \/ CancelCheck \/ CancelClear
    BY <1>1, <2>2 DEF CancelStated, CancelCheck, CancelClear, CancelTo
  <2>3. CASE CancelKill
    <3>1. ChildKilled
      BY <2>3 DEF CancelKill
    <3> QED BY <1>3, <3>1
  <2>4. CASE CancelWait
    BY <1>1, <2>4 DEF CancelWait, Reap, CancelTo
  <2> QED BY <1>10, <2>1, <2>2, <2>3, <2>4 DEF CancelStep
<1>11. CASE HostConnects
  BY <1>11 DEF HostConnects, calls
<1>12. CASE ChildServes
  <2>1. Serve /\ child = "serving" /\ UNCHANGED <<gui, child, cancel>>
    BY <1>12 DEF ChildServes, session_vars
  <2>2. /\ mounted
        /\ \A c \in Callers : pending'[c] \in {pending[c], NoRequest}
        /\ ~mounted' => \A c \in Callers : pending'[c] = NoRequest
        /\ mounted' /\ pending["gui"] = ExitRequest => pending'["gui"] = ExitRequest
    BY <2>1, ServeRequests DEF BaseInv
  <2> QED BY <2>1, <2>2
<1>13. CASE ChildExits
  BY <1>13 DEF ChildExits, fuseVars, calls
<1>14. CASE Restart
  BY <1>2, <1>14 DEF Restart, GuiTo, DaemonInv
<1> QED BY <1>5, <1>6, <1>7, <1>8, <1>9, <1>10, <1>11, <1>12, <1>13, <1>14 DEF Next

\* No thread and no reader waits for a child that will not end or for an answer
\* that nobody is at work on, whatever users, hosts and readers do and however the
\* two threads are interleaved.  (The child at work may itself wait for its host.)
THEOREM NobodyWaitsInVain == Spec => []WaitsAreServed
<1>1. Init => ServerInv
  BY DEF Init, FuseInit, ServerInv
<1>2. BaseInv /\ DaemonInv /\ [Next]_vars => DaemonInv'
  BY StepDaemon DEF BaseInv
<1>3. Init => DaemonInv
  BY InitSession
<1>4. BaseInv /\ DaemonInv /\ ServerInv => WaitsAreServed
  BY DEF BaseInv, DaemonInv, ServerInv, WaitsAreServed, FuseType, Shape, Alive
<1> QED BY <1>1, <1>2, <1>3, <1>4, InitBase, StepBase, StepServer, PTL DEF Spec
=============================================================================
