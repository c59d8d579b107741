------------------------ MODULE NewDataThreadProofs ------------------------
(***************************************************************************)
(* The safety of the new-data hand-over, for any number of `new` commands  *)
(* of any length, any archive entry, any chunking and any buffer size.     *)
(***************************************************************************)
EXTENDS NewDataThread, TLAPS

(***************************************************************************)
(* The inductive invariant.                                                *)
(***************************************************************************)
\* Which command's writer is published, and how full it can be.
WriterInv ==
  /\ writer \in {0, cmd}
  /\ cmd = 0 => bytes_written = 0
  /\ cmd > 0 => bytes_written <= Length(cmd)
  /\ (cmd > 0 /\ writer = 0) => bytes_written = Length(cmd)
  /\ (writer # 0 /\ bpc # "clear") => bytes_written < Length(cmd)
  /\ bpc = "clear" => bytes_written = Length(cmd)

\* Where the threads can be with respect to each other.
ThreadInv ==
  /\ mpc \in {"header", "loop"} => writer = 0 /\ ~missing
  /\ mpc = "new_wait" => cmd > 0 /\ ~missing
  /\ bpc = "exited" => ~receiver_available
  /\ ~receiver_available => bpc = "exited" \/ mpc \in {"join", "returned"}
  /\ writer # 0 => mpc = "new_wait" \/ bpc = "exited"
  /\ WriterOwned
  /\ JoinedBeforeDestroy

\* What is on the partition, and which unit comes next.
DataInv ==
  /\ \A p \in 1..Total : block[p] = IF p <= Cursor THEN p ELSE 0
  /\ bpc \notin {"exit", "exited"} => pos = Cursor
  /\ pos <= Cursor
  /\ rc = 0 => cmd = NewCmds /\ writer = 0 /\ mpc \in {"pbiudone", "join", "returned"}

\* Why the receiver can have ended.
FaultInv ==
  /\ pos + size <= stream
  /\ (~fault /\ bpc = "exit") => pos = Cursor
  /\ (~fault /\ bpc = "exited") => pos = Cursor
  /\ (~fault /\ bpc \in {"exit", "exited"}) =>
        \/ pos = stream
        \/ mpc \in {"join", "returned"}
  /\ missing => fault \/ stream < Total

Inv == TypeOK /\ WriterInv /\ ThreadInv /\ DataInv /\ FaultInv
----------------------------------------------------------------------------
\* The target of a command is a non-empty interval inside 1..Total.
LEMMA EndFacts ==
  /\ \A c \in 0..NewCmds : End[c] \in Nat /\ End[c] <= Total
  /\ \A c \in 1..NewCmds : /\ c - 1 \in 0..NewCmds
                           /\ End[c-1] \in Nat
                           /\ Length(c) \in Nat \ {0}
                           /\ End[c-1] + Length(c) = End[c]
                           /\ End[c] <= Total
  /\ End[0] = 0 /\ Total \in Nat
BY NewCmdsAssumption, EndAssumption DEF Length, Total

\* A turn of the receive loop writes no more than the chunk holds and the writer takes.
LEMMA WriteNowBound ==
  ASSUME TypeOK, WriterInv, bpc = "write", writer # 0
  PROVE  /\ WriteNow \in Nat
         /\ WriteNow <= size
         /\ bytes_written + WriteNow <= Length(writer)
BY EndFacts, BoundsAssumption, NewCmdsAssumption
   DEF TypeOK, WriterInv, WriteNow, MinOf, AvailableSpace

\* A write that starts at the cursor with the unit the cursor is waiting for keeps every
\* written position equal to its unit.
LEMMA WriteUnitsInOrder ==
  ASSUME TypeOK, NEW k \in Nat, cmd > 0, writer = cmd, pos = Cursor,
         \A p \in 1..Total : block[p] = IF p <= Cursor THEN p ELSE 0,
         WriteUnits(k)
  PROVE  /\ block' \in [1..Total -> Nat]
         /\ \A p \in 1..Total : block'[p] = IF p <= Cursor + k THEN p ELSE 0
<1> DEFINE at == End[writer-1] + bytes_written
<1>1. at = Cursor /\ at \in Nat
  BY EndFacts DEF Cursor, TypeOK
<1>2. block' = [p \in 1..Total |->
                  IF at < p /\ p <= at + k THEN pos + (p - at) ELSE block[p]]
  BY DEF WriteUnits
<1> HIDE DEF at
<1>3. \A p \in 1..Total : block'[p] = IF p <= Cursor + k THEN p ELSE 0
  <2> SUFFICES ASSUME NEW p \in 1..Total
               PROVE  block'[p] = IF p <= Cursor + k THEN p ELSE 0
    OBVIOUS
  <2>1. block'[p] = IF at < p /\ p <= at + k THEN pos + (p - at) ELSE block[p]
    BY <1>2
  <2> QED
    BY <1>1, <2>1, EndFacts
<1>4. block' \in [1..Total -> Nat]
  BY <1>1, <1>2, <1>3, EndFacts
<1> QED
  BY <1>3, <1>4

\* The invariant holds when the thread has just been created.
LEMMA InitInv == Init => Inv
<1> SUFFICES ASSUME Init PROVE Inv
  OBVIOUS
<1>1. TypeOK
  <2>1. block \in [1..Total -> Nat]
    BY DEF Init
  <2>2. /\ stream \in Nat /\ blank \in Nat
        /\ writer \in 0..NewCmds /\ cmd \in 0..NewCmds
    BY NewCmdsAssumption, BoundsAssumption DEF Init
  <2>3. waiting \in SUBSET Threads
    BY DEF Init
  <2> QED
    BY <2>1, <2>2, <2>3 DEF Init, TypeOK, MainPC, BgPC
<1>2. WriterInv
  BY NewCmdsAssumption DEF Init, WriterInv
<1>3. ThreadInv
  BY DEF Init, ThreadInv, WriterOwned, JoinedBeforeDestroy
<1>4. DataInv
  BY EndFacts DEF Init, DataInv, Cursor
<1>5. FaultInv
  BY BoundsAssumption DEF Init, FaultInv, Cursor
<1> QED
  BY <1>1, <1>2, <1>3, <1>4, <1>5 DEF Inv

\* Every step of either thread, and every spurious wakeup, keeps the invariant.
LEMMA NextInv == Inv /\ [Next]_vars => Inv'
<1> SUFFICES ASSUME Inv, [Next]_vars PROVE Inv'
  OBVIOUS
<1> USE DEF Inv
<1>1. CASE HeaderOk
  <2>1. TypeOK'
    BY <1>1, EndFacts, NewCmdsAssumption, BoundsAssumption DEF HeaderOk, TypeOK, Threads, MainPC, BgPC, vars, nti, mainVars, bgVars, AfterChunk
  <2>2. WriterInv'
    BY <1>1, EndFacts DEF HeaderOk, TypeOK, WriterInv, ThreadInv, WriterOwned, Length, vars, nti, mainVars, bgVars, AfterChunk
  <2>3. ThreadInv'
    BY <1>1 DEF HeaderOk, TypeOK, WriterInv, ThreadInv, WriterOwned, JoinedBeforeDestroy, vars, nti, mainVars, bgVars, AfterChunk
  <2>4. DataInv'
    BY <1>1, EndFacts DEF HeaderOk, TypeOK, WriterInv, ThreadInv, DataInv, Cursor, vars, nti, mainVars, bgVars, AfterChunk
  <2>5. FaultInv'
    BY <1>1, EndFacts DEF HeaderOk, TypeOK, WriterInv, ThreadInv, DataInv, FaultInv, Cursor, vars, nti, mainVars, bgVars, AfterChunk
  <2> QED
    BY <2>1, <2>2, <2>3, <2>4, <2>5
<1>2. CASE EarlyReturn
  <2>1. TypeOK'
    BY <1>2, EndFacts, NewCmdsAssumption, BoundsAssumption DEF EarlyReturn, TypeOK, Threads, MainPC, BgPC, vars, nti, mainVars, bgVars, AfterChunk
  <2>2. WriterInv'
    BY <1>2, EndFacts DEF EarlyReturn, TypeOK, WriterInv, ThreadInv, WriterOwned, Length, vars, nti, mainVars, bgVars, AfterChunk
  <2>3. ThreadInv'
    BY <1>2 DEF EarlyReturn, TypeOK, WriterInv, ThreadInv, WriterOwned, JoinedBeforeDestroy, vars, nti, mainVars, bgVars, AfterChunk
  <2>4. DataInv'
    BY <1>2, EndFacts DEF EarlyReturn, TypeOK, WriterInv, ThreadInv, DataInv, Cursor, vars, nti, mainVars, bgVars, AfterChunk
  <2>5. FaultInv'
    BY <1>2, EndFacts DEF EarlyReturn, TypeOK, WriterInv, ThreadInv, DataInv, FaultInv, Cursor, vars, nti, mainVars, bgVars, AfterChunk
  <2> QED
    BY <2>1, <2>2, <2>3, <2>4, <2>5
<1>3. CASE OtherCommandFails
  <2>1. TypeOK'
    BY <1>3, EndFacts, NewCmdsAssumption, BoundsAssumption DEF OtherCommandFails, TypeOK, Threads, MainPC, BgPC, vars, nti, mainVars, bgVars, AfterChunk
  <2>2. WriterInv'
    BY <1>3, EndFacts DEF OtherCommandFails, TypeOK, WriterInv, ThreadInv, WriterOwned, Length, vars, nti, mainVars, bgVars, AfterChunk
  <2>3. ThreadInv'
    BY <1>3 DEF OtherCommandFails, TypeOK, WriterInv, ThreadInv, WriterOwned, JoinedBeforeDestroy, vars, nti, mainVars, bgVars, AfterChunk
  <2>4. DataInv'
    BY <1>3, EndFacts DEF OtherCommandFails, TypeOK, WriterInv, ThreadInv, DataInv, Cursor, vars, nti, mainVars, bgVars, AfterChunk
  <2>5. FaultInv'
    BY <1>3, EndFacts DEF OtherCommandFails, TypeOK, WriterInv, ThreadInv, DataInv, FaultInv, Cursor, vars, nti, mainVars, bgVars, AfterChunk
  <2> QED
    BY <2>1, <2>2, <2>3, <2>4, <2>5
<1>4. CASE PerformCommandNew
  <2>1. /\ cmd \in 0..NewCmds /\ cmd + 1 \in 1..NewCmds /\ (cmd + 1) - 1 = cmd
        /\ cmd' = cmd + 1 /\ writer' = cmd + 1 /\ bytes_written' = 0
        /\ mpc = "loop" /\ writer = 0 /\ ~missing
        /\ UNCHANGED <<brotli, receiver_available, rc, bgVars, block>>
    BY <1>4, NewCmdsAssumption DEF PerformCommandNew, TypeOK, ThreadInv
  <2>2. \/ receiver_available /\ mpc' = "new_wait" /\ waiting' = {"main"} /\ missing' = missing
        \/ ~receiver_available /\ mpc' = "pbiudone" /\ waiting' = {} /\ missing' = TRUE
    BY <1>4 DEF PerformCommandNew
  <2>3. Cursor = End[cmd] /\ Cursor' = End[cmd]
    <3>1. CASE cmd = 0
      BY <2>1, <3>1, EndFacts DEF Cursor, WriterInv
    <3>2. CASE cmd \in 1..NewCmds
      <4>1. Cursor = End[cmd-1] + Length(cmd)
        BY <2>1, <3>2 DEF Cursor, WriterInv
      <4>2. Cursor' = End[cmd]
        BY <2>1, <3>2, EndFacts DEF Cursor
      <4> QED
        BY <3>2, <4>1, <4>2, EndFacts
    <3> QED
      BY <2>1, <3>1, <3>2
  <2>4. TypeOK'
    <3>1. waiting' \in SUBSET Threads /\ mpc' \in MainPC /\ missing' \in BOOLEAN
      BY <2>2 DEF TypeOK, Threads, MainPC
    <3> QED
      BY <2>1, <3>1 DEF TypeOK, bgVars
  <2>5. WriterInv'
    BY <2>1, EndFacts DEF WriterInv, ThreadInv, WriterOwned, Length, TypeOK, bgVars
  <2>6. ThreadInv'
    BY <2>1, <2>2 DEF ThreadInv, WriterOwned, JoinedBeforeDestroy, TypeOK, bgVars
  <2>7. DataInv'
    BY <2>1, <2>2, <2>3 DEF DataInv, TypeOK, bgVars
  <2>8. FaultInv'
    <3>1. ~receiver_available => bpc = "exited"
      BY <2>1 DEF ThreadInv
    <3>2. End[cmd] < Total
      BY <2>1, EndFacts DEF TypeOK
    <3> QED
      BY <2>1, <2>2, <2>3, <3>1, <3>2, EndFacts DEF FaultInv, TypeOK, bgVars
  <2> QED
    BY <2>4, <2>5, <2>6, <2>7, <2>8
<1>5. CASE NewDataWakeup
  <2>1. TypeOK'
    BY <1>5, EndFacts, NewCmdsAssumption, BoundsAssumption DEF NewDataWakeup, TypeOK, Threads, MainPC, BgPC, vars, nti, mainVars, bgVars, AfterChunk
  <2>2. WriterInv'
    BY <1>5, EndFacts DEF NewDataWakeup, TypeOK, WriterInv, ThreadInv, WriterOwned, Length, vars, nti, mainVars, bgVars, AfterChunk
  <2>3. ThreadInv'
    BY <1>5 DEF NewDataWakeup, TypeOK, WriterInv, ThreadInv, WriterOwned, JoinedBeforeDestroy, vars, nti, mainVars, bgVars, AfterChunk
  <2>4. DataInv'
    BY <1>5, EndFacts DEF NewDataWakeup, TypeOK, WriterInv, ThreadInv, DataInv, Cursor, vars, nti, mainVars, bgVars, AfterChunk
  <2>5. FaultInv'
    <3>1. Cursor' = Cursor /\ Cursor \in Nat
      BY <1>5, EndFacts DEF NewDataWakeup, Cursor, TypeOK
    <3>2. CASE missing' = TRUE /\ writer # 0 /\ ~receiver_available /\ mpc = "new_wait"
      <4>1. bpc = "exited" /\ cmd \in 1..NewCmds /\ writer = cmd
        BY <3>2 DEF ThreadInv, WriterInv, TypeOK
      <4>2. Cursor = End[cmd-1] + bytes_written /\ bytes_written < Length(cmd)
        BY <4>1, <3>2 DEF Cursor, WriterInv
      <4>3. Cursor < Total
        <5>1. /\ End[cmd-1] \in Nat /\ End[cmd-1] + Length(cmd) = End[cmd]
              /\ Length(cmd) \in Nat /\ End[cmd] <= Total /\ Total \in Nat
          BY <4>1, EndFacts
        <5>2. bytes_written \in Nat
          BY DEF TypeOK
        <5> HIDE DEF Inv, Cursor, Length, Total
        <5> QED
          BY <4>2, <5>1, <5>2
      <4> QED
        BY <1>5, <3>1, <3>2, <4>1, <4>3, EndFacts DEF NewDataWakeup, FaultInv, TypeOK, bgVars
    <3>3. CASE missing' = missing
      BY <1>5, <3>1, <3>3 DEF NewDataWakeup, FaultInv, TypeOK, bgVars
    <3> QED
      BY <1>5, <3>2, <3>3 DEF NewDataWakeup
  <2> QED
    BY <2>1, <2>2, <2>3, <2>4, <2>5
<1>6. CASE AllCommandsDone
  <2>1. TypeOK'
    BY <1>6, EndFacts, NewCmdsAssumption, BoundsAssumption DEF AllCommandsDone, TypeOK, Threads, MainPC, BgPC, vars, nti, mainVars, bgVars, AfterChunk
  <2>2. WriterInv'
    BY <1>6, EndFacts DEF AllCommandsDone, TypeOK, WriterInv, ThreadInv, WriterOwned, Length, vars, nti, mainVars, bgVars, AfterChunk
  <2>3. ThreadInv'
    BY <1>6 DEF AllCommandsDone, TypeOK, WriterInv, ThreadInv, WriterOwned, JoinedBeforeDestroy, vars, nti, mainVars, bgVars, AfterChunk
  <2>4. DataInv'
    BY <1>6, EndFacts DEF AllCommandsDone, TypeOK, WriterInv, ThreadInv, DataInv, Cursor, vars, nti, mainVars, bgVars, AfterChunk
  <2>5. FaultInv'
    BY <1>6, EndFacts DEF AllCommandsDone, TypeOK, WriterInv, ThreadInv, DataInv, FaultInv, Cursor, vars, nti, mainVars, bgVars, AfterChunk
  <2> QED
    BY <2>1, <2>2, <2>3, <2>4, <2>5
<1>7. CASE StopReceiver
  <2>1. TypeOK'
    BY <1>7, EndFacts, NewCmdsAssumption, BoundsAssumption DEF StopReceiver, TypeOK, Threads, MainPC, BgPC, vars, nti, mainVars, bgVars, AfterChunk
  <2>2. WriterInv'
    BY <1>7, EndFacts DEF StopReceiver, TypeOK, WriterInv, ThreadInv, WriterOwned, Length, vars, nti, mainVars, bgVars, AfterChunk
  <2>3. ThreadInv'
    BY <1>7 DEF StopReceiver, TypeOK, WriterInv, ThreadInv, WriterOwned, JoinedBeforeDestroy, vars, nti, mainVars, bgVars, AfterChunk
  <2>4. DataInv'
    BY <1>7, EndFacts DEF StopReceiver, TypeOK, WriterInv, ThreadInv, DataInv, Cursor, vars, nti, mainVars, bgVars, AfterChunk
  <2>5. FaultInv'
    BY <1>7, EndFacts DEF StopReceiver, TypeOK, WriterInv, ThreadInv, DataInv, FaultInv, Cursor, vars, nti, mainVars, bgVars, AfterChunk
  <2> QED
    BY <2>1, <2>2, <2>3, <2>4, <2>5
<1>8. CASE JoinReceiver
  <2>1. TypeOK'
    BY <1>8, EndFacts, NewCmdsAssumption, BoundsAssumption DEF JoinReceiver, TypeOK, Threads, MainPC, BgPC, vars, nti, mainVars, bgVars, AfterChunk
  <2>2. WriterInv'
    BY <1>8, EndFacts DEF JoinReceiver, TypeOK, WriterInv, ThreadInv, WriterOwned, Length, vars, nti, mainVars, bgVars, AfterChunk
  <2>3. ThreadInv'
    BY <1>8 DEF JoinReceiver, TypeOK, WriterInv, ThreadInv, WriterOwned, JoinedBeforeDestroy, vars, nti, mainVars, bgVars, AfterChunk
  <2>4. DataInv'
    BY <1>8, EndFacts DEF JoinReceiver, TypeOK, WriterInv, ThreadInv, DataInv, Cursor, vars, nti, mainVars, bgVars, AfterChunk
  <2>5. FaultInv'
    BY <1>8, EndFacts DEF JoinReceiver, TypeOK, WriterInv, ThreadInv, DataInv, FaultInv, Cursor, vars, nti, mainVars, bgVars, AfterChunk
  <2> QED
    BY <2>1, <2>2, <2>3, <2>4, <2>5
<1>9. CASE DeliverChunk
  <2>1. /\ size' \in Nat /\ tail' \in BOOLEAN /\ blank' \in Nat
        /\ pos + size' <= stream
        /\ bpc' = "recv" /\ bpc = "process"
        /\ UNCHANGED <<nti, mainVars, pos, stream, fault, block>>
    <3>1. /\ bpc = "process" /\ bpc' = "recv"
          /\ UNCHANGED <<nti, mainVars, pos, stream, fault, block>>
      BY <1>9 DEF DeliverChunk
    <3>2. CASE /\ \E n \in 1..(stream - pos) : size' = n
               /\ tail' \in (IF brotli THEN BOOLEAN ELSE {FALSE})
               /\ UNCHANGED blank
      <4>1. tail' \in BOOLEAN
        BY <3>2
      <4> QED
        BY <3>1, <3>2, <4>1 DEF TypeOK
    <3>3. CASE /\ brotli /\ blank > 0
               /\ blank' = blank - 1
               /\ size' = 0 /\ tail' = TRUE
      BY <3>1, <3>3 DEF TypeOK, FaultInv
    <3> QED
      BY <1>9, <3>2, <3>3 DEF DeliverChunk
  <2>6. TypeOK'
    BY <2>1 DEF TypeOK, BgPC, nti, mainVars
  <2>2. WriterInv'
    BY <1>9, EndFacts DEF DeliverChunk, TypeOK, WriterInv, ThreadInv, WriterOwned, Length, vars, nti, mainVars, bgVars, AfterChunk
  <2>3. ThreadInv'
    BY <1>9 DEF DeliverChunk, TypeOK, WriterInv, ThreadInv, WriterOwned, JoinedBeforeDestroy, vars, nti, mainVars, bgVars, AfterChunk
  <2>4. DataInv'
    BY <1>9, EndFacts DEF DeliverChunk, TypeOK, WriterInv, ThreadInv, DataInv, Cursor, vars, nti, mainVars, bgVars, AfterChunk
  <2>5. FaultInv'
    BY <2>1 DEF FaultInv, Cursor, TypeOK, nti, mainVars
  <2> QED
    BY <2>2, <2>3, <2>4, <2>5, <2>6
<1>10. CASE ZipEntryEnds
  <2>1. TypeOK'
    BY <1>10, EndFacts, NewCmdsAssumption, BoundsAssumption DEF ZipEntryEnds, TypeOK, Threads, MainPC, BgPC, vars, nti, mainVars, bgVars, AfterChunk
  <2>2. WriterInv'
    BY <1>10, EndFacts DEF ZipEntryEnds, TypeOK, WriterInv, ThreadInv, WriterOwned, Length, vars, nti, mainVars, bgVars, AfterChunk
  <2>3. ThreadInv'
    BY <1>10 DEF ZipEntryEnds, TypeOK, WriterInv, ThreadInv, WriterOwned, JoinedBeforeDestroy, vars, nti, mainVars, bgVars, AfterChunk
  <2>4. DataInv'
    BY <1>10, EndFacts DEF ZipEntryEnds, TypeOK, WriterInv, ThreadInv, DataInv, Cursor, vars, nti, mainVars, bgVars, AfterChunk
  <2>5. FaultInv'
    BY <1>10, EndFacts DEF ZipEntryEnds, TypeOK, WriterInv, ThreadInv, DataInv, FaultInv, Cursor, vars, nti, mainVars, bgVars, AfterChunk
  <2> QED
    BY <2>1, <2>2, <2>3, <2>4, <2>5
<1>11. CASE AwaitWriter
  <2>1. TypeOK'
    BY <1>11, EndFacts, NewCmdsAssumption, BoundsAssumption DEF AwaitWriter, TypeOK, Threads, MainPC, BgPC, vars, nti, mainVars, bgVars, AfterChunk
  <2>2. WriterInv'
    BY <1>11, EndFacts DEF AwaitWriter, TypeOK, WriterInv, ThreadInv, WriterOwned, Length, vars, nti, mainVars, bgVars, AfterChunk
  <2>3. ThreadInv'
    BY <1>11 DEF AwaitWriter, TypeOK, WriterInv, ThreadInv, WriterOwned, JoinedBeforeDestroy, vars, nti, mainVars, bgVars, AfterChunk
  <2>4. DataInv'
    BY <1>11, EndFacts DEF AwaitWriter, TypeOK, WriterInv, ThreadInv, DataInv, Cursor, vars, nti, mainVars, bgVars, AfterChunk
  <2>5. FaultInv'
    BY <1>11, EndFacts DEF AwaitWriter, TypeOK, WriterInv, ThreadInv, DataInv, FaultInv, Cursor, vars, nti, mainVars, bgVars, AfterChunk
  <2> QED
    BY <2>1, <2>2, <2>3, <2>4, <2>5
<1>12. CASE ReceiveNewData
  <2> DEFINE n == WriteNow
  <2>1. writer = cmd /\ cmd > 0 /\ cmd \in 1..NewCmds /\ mpc = "new_wait"
    BY <1>12 DEF ReceiveNewData, ThreadInv, WriterOwned, TypeOK
  <2>2. n \in Nat /\ n <= size /\ bytes_written + n <= Length(cmd)
    BY <1>12, <2>1, WriteNowBound DEF ReceiveNewData
  <2>3. pos = Cursor /\ Cursor \in Nat
    BY <1>12, <2>1, EndFacts DEF ReceiveNewData, DataInv, Cursor, TypeOK
  <2>4. WriteUnits(n)
    BY <1>12 DEF ReceiveNewData
  <2>5. /\ block' \in [1..Total -> Nat]
        /\ \A p \in 1..Total : block'[p] = IF p <= Cursor + n THEN p ELSE 0
    BY <2>1, <2>2, <2>3, <2>4, WriteUnitsInOrder DEF DataInv
  <2>6. /\ bytes_written' = bytes_written + n /\ pos' = pos + n /\ size' = size - n
        /\ tail' \in TailAfter(n)
        /\ bpc' = IF bytes_written' = Length(writer) THEN "clear" ELSE AfterChunk(size', tail')
        /\ UNCHANGED <<brotli, writer, receiver_available, waiting, mainVars, stream, blank, fault>>
    BY <1>12 DEF ReceiveNewData
  <2> HIDE DEF n
  <2>7. Cursor' = Cursor + n
    BY <2>1, <2>2, <2>6, EndFacts DEF Cursor, TypeOK, mainVars
  <2>8. bpc' \in {"clear", "recv", "process"}
    BY <2>6 DEF AfterChunk
  <2>9. TypeOK'
    <3>1. tail' \in BOOLEAN
      BY <2>6 DEF TailAfter
    <3> QED
      BY <2>2, <2>5, <2>6, <2>8, <3>1 DEF TypeOK, mainVars, BgPC
  <2>10. WriterInv'
    <3>1. /\ bytes_written' \in Nat /\ bytes_written' <= Length(cmd)
          /\ bpc' = "clear" <=> bytes_written' = Length(cmd)
      BY <2>1, <2>2, <2>6, EndFacts DEF TypeOK, AfterChunk
    <3>2. cmd' = cmd /\ writer' = cmd /\ Length(cmd)' = Length(cmd) /\ Length(cmd) \in Nat
      BY <2>1, <2>6, EndFacts DEF mainVars, Length
    <3> QED
      BY <2>1, <3>1, <3>2 DEF WriterInv, TypeOK
  <2>11. ThreadInv'
    BY <1>12, <2>1, <2>6, <2>8 DEF ReceiveNewData, ThreadInv, WriterOwned, JoinedBeforeDestroy, mainVars, TypeOK
  <2>12. DataInv'
    BY <2>1, <2>2, <2>3, <2>5, <2>6, <2>7 DEF DataInv, TypeOK, mainVars
  <2>13. FaultInv'
    BY <1>12, <2>2, <2>3, <2>6, <2>7, <2>8 DEF FaultInv, TypeOK, mainVars
  <2> QED
    BY <2>9, <2>10, <2>11, <2>12, <2>13
<1>13. CASE ReceiveFails
  <2>1. writer = cmd /\ cmd > 0 /\ cmd \in 1..NewCmds /\ mpc = "new_wait"
    BY <1>13 DEF ReceiveFails, ThreadInv, WriterOwned, TypeOK
  <2>2. /\ WriteNow \in Nat /\ bytes_written + WriteNow <= Length(cmd)
        /\ bytes_written < Length(cmd)
    BY <1>13, <2>1, WriteNowBound DEF ReceiveFails, WriterInv
  <2>3. pos = Cursor /\ Cursor \in Nat
    BY <1>13, <2>1, EndFacts DEF ReceiveFails, DataInv, Cursor, TypeOK
  <2>4. PICK k \in 0..(WriteNow - 1) \cup (IF brotli THEN {0} ELSE {}) :
          WriteUnits(k) /\ bytes_written' = bytes_written + k
    BY <1>13 DEF ReceiveFails
  <2>5. k \in Nat /\ bytes_written + k < Length(cmd)
    BY <2>1, <2>2, <2>4, EndFacts DEF TypeOK
  <2>6. /\ block' \in [1..Total -> Nat]
        /\ \A p \in 1..Total : block'[p] = IF p <= Cursor + k THEN p ELSE 0
    BY <2>1, <2>3, <2>4, <2>5, WriteUnitsInOrder DEF DataInv
  <2>7. /\ fault' = TRUE /\ bpc' = "exit"
        /\ UNCHANGED <<brotli, writer, receiver_available, waiting, mainVars, size, tail, pos,
                       stream, blank>>
    BY <1>13 DEF ReceiveFails
  <2>8. Cursor' = Cursor + k
    BY <2>1, <2>4, <2>5, <2>7, EndFacts DEF Cursor, TypeOK, mainVars
  <2>9. TypeOK'
    BY <2>4, <2>5, <2>6, <2>7 DEF TypeOK, mainVars, BgPC
  <2>10. WriterInv'
    BY <2>1, <2>4, <2>5, <2>7, EndFacts DEF WriterInv, TypeOK, mainVars, Length
  <2>11. ThreadInv'
    BY <1>13, <2>1, <2>7 DEF ReceiveFails, ThreadInv, WriterOwned, JoinedBeforeDestroy, mainVars, TypeOK
  <2>12. DataInv'
    BY <2>1, <2>3, <2>5, <2>6, <2>7, <2>8 DEF DataInv, TypeOK, mainVars
  <2>13. FaultInv'
    BY <1>13, <2>7 DEF FaultInv, TypeOK, mainVars
  <2> QED
    BY <2>9, <2>10, <2>11, <2>12, <2>13
<1>14. CASE ClearWriter
  <2>1. TypeOK'
    BY <1>14, EndFacts, NewCmdsAssumption, BoundsAssumption DEF ClearWriter, TypeOK, Threads, MainPC, BgPC, vars, nti, mainVars, bgVars, AfterChunk
  <2>2. WriterInv'
    BY <1>14, EndFacts DEF ClearWriter, TypeOK, WriterInv, ThreadInv, WriterOwned, Length, vars, nti, mainVars, bgVars, AfterChunk
  <2>3. ThreadInv'
    BY <1>14 DEF ClearWriter, TypeOK, WriterInv, ThreadInv, WriterOwned, JoinedBeforeDestroy, vars, nti, mainVars, bgVars, AfterChunk
  <2>4. DataInv'
    BY <1>14, EndFacts DEF ClearWriter, TypeOK, WriterInv, ThreadInv, DataInv, Cursor, vars, nti, mainVars, bgVars, AfterChunk
  <2>5. FaultInv'
    BY <1>14, EndFacts DEF ClearWriter, TypeOK, WriterInv, ThreadInv, DataInv, FaultInv, Cursor, vars, nti, mainVars, bgVars, AfterChunk
  <2> QED
    BY <2>1, <2>2, <2>3, <2>4, <2>5
<1>15. CASE UnzipReturns
  <2>1. TypeOK'
    BY <1>15, EndFacts, NewCmdsAssumption, BoundsAssumption DEF UnzipReturns, TypeOK, Threads, MainPC, BgPC, vars, nti, mainVars, bgVars, AfterChunk
  <2>2. WriterInv'
    BY <1>15, EndFacts DEF UnzipReturns, TypeOK, WriterInv, ThreadInv, WriterOwned, Length, vars, nti, mainVars, bgVars, AfterChunk
  <2>3. ThreadInv'
    BY <1>15 DEF UnzipReturns, TypeOK, WriterInv, ThreadInv, WriterOwned, JoinedBeforeDestroy, vars, nti, mainVars, bgVars, AfterChunk
  <2>4. DataInv'
    BY <1>15, EndFacts DEF UnzipReturns, TypeOK, WriterInv, ThreadInv, DataInv, Cursor, vars, nti, mainVars, bgVars, AfterChunk
  <2>5. FaultInv'
    BY <1>15, EndFacts DEF UnzipReturns, TypeOK, WriterInv, ThreadInv, DataInv, FaultInv, Cursor, vars, nti, mainVars, bgVars, AfterChunk
  <2> QED
    BY <2>1, <2>2, <2>3, <2>4, <2>5
<1>16. CASE SpuriousWakeup
  <2>1. TypeOK'
    BY <1>16, EndFacts, NewCmdsAssumption, BoundsAssumption DEF SpuriousWakeup, TypeOK, Threads, MainPC, BgPC, vars, nti, mainVars, bgVars, AfterChunk
  <2>2. WriterInv'
    BY <1>16, EndFacts DEF SpuriousWakeup, TypeOK, WriterInv, ThreadInv, WriterOwned, Length, vars, nti, mainVars, bgVars, AfterChunk
  <2>3. ThreadInv'
    BY <1>16 DEF SpuriousWakeup, TypeOK, WriterInv, ThreadInv, WriterOwned, JoinedBeforeDestroy, vars, nti, mainVars, bgVars, AfterChunk
  <2>4. DataInv'
    BY <1>16, EndFacts DEF SpuriousWakeup, TypeOK, WriterInv, ThreadInv, DataInv, Cursor, vars, nti, mainVars, bgVars, AfterChunk
  <2>5. FaultInv'
    BY <1>16, EndFacts DEF SpuriousWakeup, TypeOK, WriterInv, ThreadInv, DataInv, FaultInv, Cursor, vars, nti, mainVars, bgVars, AfterChunk
  <2> QED
    BY <2>1, <2>2, <2>3, <2>4, <2>5
<1>17. CASE UNCHANGED vars
  BY <1>17 DEF vars, nti, mainVars, bgVars, TypeOK, WriterInv, ThreadInv, DataInv, FaultInv, Cursor, Length,
     WriterOwned, JoinedBeforeDestroy
<1> QED
  BY <1>1, <1>2, <1>3, <1>4, <1>5, <1>6, <1>7, <1>8, <1>9, <1>10, <1>11, <1>12, <1>13, <1>14, <1>15, <1>16, <1>17 DEF Next, Main, Background, Returned

----------------------------------------------------------------------------
\* The invariant holds in every reachable state.
THEOREM Invariance == Spec => []Inv
BY InitInv, NextInv, PTL DEF Spec

\* Type correctness of the hand-over.
THEOREM TypeCorrect == Spec => []TypeOK
<1>1. Inv => TypeOK
  BY DEF Inv
<1> QED
  BY <1>1, Invariance, PTL

\* Every target position holds nothing or the unit meant for it.
THEOREM DataInOrder == Spec => []InOrder
<1>1. Inv => InOrder
  BY DEF Inv, DataInv, InOrder
<1> QED
  BY <1>1, Invariance, PTL

\* Success is reported only when every target is written.
THEOREM SuccessIsComplete == Spec => []SuccessMeansWritten
<1>1. Inv => SuccessMeansWritten
  <2> SUFFICES ASSUME Inv, rc = 0, NEW p \in 1..Total PROVE block[p] = p
    BY DEF SuccessMeansWritten
  <2>1. cmd = NewCmds /\ writer = 0
    BY DEF Inv, DataInv
  <2>2. Cursor = Total
    BY <2>1, EndFacts, NewCmdsAssumption DEF Inv, WriterInv, TypeOK, Cursor, Total
  <2> QED
    BY <2>2, EndFacts DEF Inv, DataInv
<1> QED
  BY <1>1, Invariance, PTL

\* The background thread uses a writer only while the main thread waits for it.
THEOREM WriterIsOwned == Spec => []WriterOwned
<1>1. Inv => WriterOwned
  BY DEF Inv, ThreadInv
<1> QED
  BY <1>1, Invariance, PTL

\* "missing bytes of new data" is reported only when data is missing.
THEOREM MissingIsReal == Spec => []NoFalseMissing
<1>1. Inv => NoFalseMissing
  BY DEF Inv, FaultInv, NoFalseMissing
<1> QED
  BY <1>1, Invariance, PTL

\* After a run that reached the command loop the background thread has been joined.
THEOREM ReceiverIsJoined == Spec => []JoinedBeforeDestroy
<1>1. Inv => JoinedBeforeDestroy
  BY DEF Inv, ThreadInv
<1> QED
  BY <1>1, Invariance, PTL

----------------------------------------------------------------------------
\* Initially the sequential copy has not started.
LEMMA SinkInit == Init => Sink!Init
BY DEF Init, Sink!Init, Cursor, Status, Total

\* A write of k units at the cursor is a copy of k units.
LEMMA SinkCopy ==
  ASSUME Inv, bpc = "write", NEW k \in Nat, k <= WriteNow, WriteUnits(k),
         bytes_written' = bytes_written + k, UNCHANGED mainVars
  PROVE  Sink!Next
<1>1. writer = cmd /\ cmd \in 1..NewCmds /\ mpc = "new_wait"
  BY DEF Inv, ThreadInv, WriterOwned, TypeOK
<1>2. /\ WriteNow \in Nat
      /\ bytes_written + WriteNow <= Length(cmd)
  BY <1>1, WriteNowBound DEF Inv
<1>3. pos = Cursor /\ Cursor \in Nat /\ Cursor + k <= End[cmd] /\ k \in 0..Total
  <2>1. pos = Cursor /\ Cursor = End[cmd-1] + bytes_written
    BY <1>1 DEF Inv, DataInv, Cursor
  <2>2. bytes_written \in Nat /\ bytes_written + k <= Length(cmd)
    BY <1>1, <1>2, EndFacts DEF Inv, TypeOK
  <2> QED
    BY <1>1, <2>1, <2>2, EndFacts
<1>4. Cursor' = Cursor + k
  BY <1>1, EndFacts DEF Cursor, mainVars, Inv, TypeOK
<1>5. Status = "running" /\ Status' = "running"
  BY <1>1 DEF Status, mainVars, Inv, DataInv
<1>6. block' = [p \in 1..Total |->
                  IF Cursor < p /\ p <= Cursor + k THEN p ELSE block[p]]
  <2>1. End[writer-1] + bytes_written = Cursor
    BY <1>1 DEF Cursor
  <2>2. block' = [p \in 1..Total |->
                    IF Cursor < p /\ p <= Cursor + k THEN Cursor + (p - Cursor) ELSE block[p]]
    BY <1>3, <2>1 DEF WriteUnits
  <2> QED
    BY <1>3, <2>2, EndFacts
<1>7. Sink!Copy(k)
  BY <1>3, <1>4, <1>5, <1>6 DEF Sink!Copy, Total, mainVars
<1> QED
  BY <1>3, <1>7 DEF Sink!Next, Total

\* Every step of the threads is a step of the sequential copy or leaves it alone.
LEMMA SinkNext == Inv /\ Inv' /\ [Next]_vars => [Sink!Next]_(Sink!vars)
<1> SUFFICES ASSUME Inv, Inv', [Next]_vars
             PROVE  Sink!Next \/ UNCHANGED <<cmd, Cursor, Status, block>>
  BY DEF Sink!vars
<1> USE DEF Inv
<1>1. ASSUME HeaderOk \/ StopReceiver \/ JoinReceiver \/ SpuriousWakeup
      PROVE  UNCHANGED <<cmd, Cursor, Status, block>>
  BY <1>1 DEF HeaderOk, StopReceiver, JoinReceiver, SpuriousWakeup, nti, mainVars, bgVars,
     Cursor, Status
<1>2. ASSUME DeliverChunk \/ ZipEntryEnds \/ AwaitWriter \/ ClearWriter \/ UnzipReturns
      PROVE  UNCHANGED <<cmd, Cursor, Status, block>>
  BY <1>2 DEF DeliverChunk, ZipEntryEnds, AwaitWriter, ClearWriter, UnzipReturns, nti, mainVars,
     bgVars, Cursor, Status
<1>3. ASSUME EarlyReturn \/ OtherCommandFails PROVE Sink!Next
  <2>1. Status = "running" /\ Status' = "failed" /\ cmd' = cmd /\ Cursor' = Cursor /\ block' = block
    BY <1>3 DEF EarlyReturn, OtherCommandFails, Status, DataInv, Cursor, nti, mainVars, bgVars
  <2> QED
    BY <2>1 DEF Sink!Next, Sink!Fail
<1>4. ASSUME PerformCommandNew PROVE Sink!Next
  <2>1. /\ cmd \in 0..NewCmds /\ cmd < NewCmds /\ cmd' = cmd + 1 /\ (cmd + 1) - 1 = cmd
        /\ bytes_written' = 0 /\ rc' = rc /\ block' = block
        /\ mpc = "loop" /\ writer = 0 /\ mpc' \in {"new_wait", "pbiudone"}
    BY <1>4 DEF PerformCommandNew, TypeOK, ThreadInv
  <2>2. Cursor = End[cmd] /\ Cursor' = End[cmd]
    <3>1. CASE cmd = 0
      BY <2>1, <3>1, EndFacts DEF Cursor, WriterInv
    <3>2. CASE cmd \in 1..NewCmds
      <4>1. Cursor = End[cmd-1] + Length(cmd)
        BY <2>1, <3>2 DEF Cursor, WriterInv
      <4>2. Cursor' = End[cmd]
        BY <2>1, <3>2, EndFacts DEF Cursor
      <4> QED
        BY <3>2, <4>1, <4>2, EndFacts
    <3> QED
      BY <2>1, <3>1, <3>2
  <2>3. Status = "running" /\ Status' \in {"running", "failed"}
    BY <2>1 DEF Status, DataInv
  <2> QED
    BY <2>1, <2>2, <2>3 DEF Sink!Next, Sink!Begin, Sink!Fail
<1>5. ASSUME NewDataWakeup PROVE Sink!Next \/ UNCHANGED <<cmd, Cursor, Status, block>>
  <2>1. /\ cmd' = cmd /\ Cursor' = Cursor /\ block' = block /\ rc' = rc
        /\ mpc = "new_wait" /\ mpc' \in {"loop", "pbiudone", "new_wait"}
    BY <1>5 DEF NewDataWakeup, Cursor
  <2>2. Status = "running" /\ Status' \in {"running", "failed"}
    BY <2>1 DEF Status, DataInv
  <2> QED
    BY <2>1, <2>2 DEF Sink!Next, Sink!Fail
<1>6. ASSUME AllCommandsDone PROVE Sink!Next
  <2>1. cmd = NewCmds /\ cmd' = cmd /\ Cursor' = Cursor /\ block' = block
    BY <1>6 DEF AllCommandsDone, Cursor, nti
  <2>2. Cursor = End[NewCmds]
    BY <1>6, <2>1, EndFacts, NewCmdsAssumption
       DEF AllCommandsDone, ThreadInv, WriterInv, TypeOK, Cursor
  <2>3. Status = "running" /\ Status' = "ok"
    BY <1>6 DEF AllCommandsDone, Status, DataInv
  <2> QED
    BY <2>1, <2>2, <2>3 DEF Sink!Next, Sink!Succeed
<1>7. ASSUME ReceiveNewData PROVE Sink!Next
  <2>1. WriteNow \in Nat
    BY <1>7, WriteNowBound DEF ReceiveNewData, ThreadInv, WriterOwned
  <2> QED
    BY <1>7, <2>1, SinkCopy DEF ReceiveNewData, TypeOK
<1>8. ASSUME ReceiveFails PROVE Sink!Next
  <2>1. WriteNow \in Nat
    BY <1>8, WriteNowBound DEF ReceiveFails, ThreadInv, WriterOwned
  <2>2. PICK k \in 0..(WriteNow - 1) \cup (IF brotli THEN {0} ELSE {}) :
          WriteUnits(k) /\ bytes_written' = bytes_written + k
    BY <1>8 DEF ReceiveFails
  <2>3. k \in Nat /\ k <= WriteNow
    BY <2>1, <2>2
  <2> QED
    BY <1>8, <2>2, <2>3, SinkCopy DEF ReceiveFails
<1>9. ASSUME UNCHANGED vars PROVE UNCHANGED <<cmd, Cursor, Status, block>>
  BY <1>9 DEF vars, nti, mainVars, bgVars, Cursor, Status
<1> QED
  BY <1>1, <1>2, <1>3, <1>4, <1>5, <1>6, <1>7, <1>8, <1>9 DEF Next, Main, Background, Returned

\* The two threads implement the sequential copy of module NewDataSink.
THEOREM ImplementsSequentialCopy == Spec => CopiesSequentially
<1>1. Spec => Init /\ [][Next]_vars
  BY PTL DEF Spec
<1> QED
  BY <1>1, SinkInit, SinkNext, Invariance, PTL DEF CopiesSequentially, Sink!Spec
----------------------------------------------------------------------------
(***************************************************************************)
(* No lost wakeup, and a bound on the work left: what termination rests    *)
(* on, for all values of the constants.                                    *)
(***************************************************************************)
\* A thread sleeps only while what it waits for has not happened: the main thread while
\* its writer is published and the receiver lives, the receiver while no writer is
\* published and the main thread has not told it to stop.
SleepInv ==
  /\ "main" \in waiting => mpc = "new_wait" /\ writer # 0 /\ receiver_available
  /\ "bg" \in waiting => bpc = "recv" /\ writer = 0 /\ receiver_available
  /\ mpc = "join" => ~receiver_available

\* The main thread is at a step that it will not answer by going to sleep.
MainAdvances ==
  \/ mpc \in {"header", "loop", "pbiudone"}
  \/ mpc = "new_wait" /\ "main" \notin waiting /\ (writer = 0 \/ ~receiver_available)
  \/ mpc = "join" /\ bpc = "exited"

\* The same for the receiver.
ReceiverAdvances ==
  \/ bpc \in {"process", "write", "clear", "exit"}
  \/ bpc = "recv" /\ "bg" \notin waiting /\ (writer # 0 \/ ~receiver_available)

\* Until PerformBlockImageUpdate has returned one of the two threads can go on: there is
\* no state in which each waits for a broadcast, or for the end, of the other.
NeverStuck == mpc \in {"returned", "abandoned"} \/ MainAdvances \/ ReceiverAdvances

\* Steps of the main thread that are left, at most.
MainWork ==
  2 * (NewCmds - cmd) +
  (CASE mpc = "header" -> 4
     [] mpc = "loop" -> 3
     [] mpc = "new_wait" -> 4
     [] mpc = "pbiudone" -> 2
     [] mpc = "join" -> 1
     [] OTHER -> 0)

\* Steps of the receiver that are left, at most: ten for every unit and every blank chunk
\* still in the entry, and those for the chunk at hand.  A turn of the receive loop that
\* moves no unit ends its chunk.
ReceiverWork ==
  10 * ((stream - pos) + blank) +
  (CASE bpc = "clear" -> 13
     [] bpc = "recv" -> IF size = 0 THEN 12 ELSE 8
     [] bpc = "write" -> IF size = 0 THEN 11 ELSE 7
     [] bpc = "process" -> 9
     [] bpc = "exit" -> 1
     [] OTHER -> 0)

Work == MainWork + ReceiverWork

\* Every step lowers Work unless a thread goes to sleep or wakes by itself; a thread that
\* advances lowers it with its next step, and nothing the other thread does makes it wait
\* again before that.
Progress ==
  /\ Work \in Nat /\ Work' \in Nat /\ Work' <= Work
  /\ Main /\ MainAdvances => Work' < Work
  /\ Background /\ ReceiverAdvances => Work' < Work
  /\ MainAdvances => MainAdvances' \/ MainWork' < MainWork
  /\ ReceiverAdvances => ReceiverAdvances' \/ ReceiverWork' < ReceiverWork

\* Sleeping threads have something to wait for: initially nobody sleeps, and who changes
\* nti so that a wait is over broadcasts.
LEMMA SleepHolds == Spec => []SleepInv
<1>1. Init => SleepInv
  BY DEF Init, SleepInv
<1>2. ASSUME Inv, SleepInv, [Next]_vars PROVE SleepInv'
  <2>1. CASE Main
    BY <1>2, <2>1, NewCmdsAssumption DEF Main, HeaderOk, EarlyReturn, OtherCommandFails, PerformCommandNew,
       NewDataWakeup, AllCommandsDone, StopReceiver, JoinReceiver, SleepInv, Inv, ThreadInv,
       TypeOK, nti, mainVars, bgVars
  <2>2. CASE Background
    <3>1. CASE DeliverChunk \/ ZipEntryEnds
      <4>1. bpc = "process" /\ UNCHANGED <<nti, mainVars>>
        BY <3>1 DEF DeliverChunk, ZipEntryEnds
      <4> QED
        BY <1>2, <4>1 DEF SleepInv, nti, mainVars
    <3>2. CASE AwaitWriter
      BY <1>2, <3>2 DEF AwaitWriter, SleepInv, mainVars
    <3>3. CASE ReceiveNewData
      BY <1>2, <3>3 DEF ReceiveNewData, SleepInv, mainVars
    <3>4. CASE ReceiveFails
      BY <1>2, <3>4 DEF ReceiveFails, SleepInv, mainVars
    <3>5. CASE ClearWriter \/ UnzipReturns
      BY <1>2, <3>5 DEF ClearWriter, UnzipReturns, SleepInv, mainVars
    <3> QED
      BY <2>2, <3>1, <3>2, <3>3, <3>4, <3>5 DEF Background
  <2>3. CASE SpuriousWakeup
    BY <1>2, <2>3 DEF SpuriousWakeup, SleepInv, mainVars, bgVars
  <2>4. CASE UNCHANGED vars
    BY <1>2, <2>4 DEF SleepInv, vars, nti, mainVars, bgVars
  <2> QED
    BY <1>2, <2>1, <2>2, <2>3, <2>4 DEF Next, Returned
<1> QED
  BY <1>1, <1>2, Invariance, PTL DEF Spec

\* Neither thread can be left asleep with nobody to wake it.
THEOREM NoDeadlock == Spec => []NeverStuck
<1>1. Inv /\ SleepInv => NeverStuck
  BY DEF Inv, TypeOK, ThreadInv, SleepInv, NeverStuck, MainAdvances, ReceiverAdvances, MainPC, BgPC
<1> QED
  BY <1>1, Invariance, SleepHolds, PTL

\* The work left is a number.
LEMMA WorkType == ASSUME Inv PROVE MainWork \in Nat /\ ReceiverWork \in Nat
<1>1. NewCmds - cmd \in Nat /\ stream - pos \in Nat /\ blank \in Nat
  BY NewCmdsAssumption DEF Inv, TypeOK, FaultInv
<1>2. MainWork \in Nat
  BY <1>1 DEF MainWork
<1>3. ReceiverWork \in Nat
  BY <1>1 DEF ReceiverWork
<1> QED
  BY <1>2, <1>3

\* What is left of a number.
LEMMA DifferenceType ==
  /\ \A a, b, c \in Nat : b + c <= a => a - b \in Nat
  /\ \A a \in Nat : \A b \in 0..a : a - b \in Nat
OBVIOUS

\* The same after a step.
LEMMA WorkTypeNext == ASSUME Inv' PROVE MainWork' \in Nat /\ ReceiverWork' \in Nat
<1>1. NewCmds - cmd' \in Nat /\ stream' - pos' \in Nat /\ blank' \in Nat
  <2>1. TypeOK' /\ FaultInv'
    BY DEF Inv
  <2>2. cmd' \in 0..NewCmds
    BY <2>1 DEF TypeOK
  <2>3. stream' \in Nat /\ pos' \in Nat /\ size' \in Nat /\ blank' \in Nat
    BY <2>1 DEF TypeOK
  <2>4. pos' + size' <= stream'
    BY <2>1 DEF FaultInv
  <2>5. NewCmds - cmd' \in Nat
    BY <2>2, NewCmdsAssumption, DifferenceType
  <2>6. stream' - pos' \in Nat
    BY <2>3, <2>4, DifferenceType
  <2> QED
    BY <2>3, <2>5, <2>6
<1>2. MainWork' \in Nat
  BY <1>1 DEF MainWork
<1>3. ReceiverWork' \in Nat
  BY <1>1 DEF ReceiverWork
<1> QED
  BY <1>2, <1>3

\* Arithmetic of the sum of two numbers of which one stays and one falls.
LEMMA SumFalls ==
  ASSUME NEW a \in Nat, NEW b \in Nat, NEW c \in Nat, NEW d \in Nat
  PROVE  /\ a + b \in Nat
         /\ (a = c /\ b <= d) => a + b <= c + d
         /\ (a = c /\ b < d) => a + b < c + d
         /\ (a <= c /\ b = d) => a + b <= c + d
         /\ (a < c /\ b = d) => a + b < c + d
OBVIOUS

\* A step of the main thread leaves the receiver where it is and lowers the work of the
\* main thread, unless the thread goes to sleep.
LEMMA MainStep ==
  ASSUME Inv, Main
  PROVE  /\ ReceiverWork' = ReceiverWork
         /\ MainWork' <= MainWork
         /\ MainAdvances => MainWork' < MainWork
         /\ ReceiverAdvances => ReceiverAdvances'
<1>1. UNCHANGED bgVars
  BY DEF Main, HeaderOk, EarlyReturn, OtherCommandFails, PerformCommandNew,
     NewDataWakeup, AllCommandsDone, StopReceiver, JoinReceiver
<1>2. ReceiverWork' = ReceiverWork
  BY <1>1 DEF ReceiverWork, bgVars
<1>3. ReceiverAdvances => ReceiverAdvances'
  BY <1>1, NewCmdsAssumption DEF Main, HeaderOk, EarlyReturn, OtherCommandFails, PerformCommandNew,
     NewDataWakeup, AllCommandsDone, StopReceiver, JoinReceiver, ReceiverAdvances, Inv, TypeOK,
     nti, bgVars
<1>4. /\ MainWork' <= MainWork
      /\ MainAdvances => MainWork' < MainWork
  <2>1. NewCmds - cmd \in Nat /\ cmd \in Nat /\ NewCmds \in Nat
    BY NewCmdsAssumption DEF Inv, TypeOK
  <2>2. CASE PerformCommandNew
    BY <2>1, <2>2 DEF PerformCommandNew, MainWork
  <2>3. CASE NewDataWakeup
    BY <2>1, <2>3 DEF NewDataWakeup, MainWork, MainAdvances
  <2>4. CASE HeaderOk \/ EarlyReturn \/ OtherCommandFails \/ AllCommandsDone \/ StopReceiver \/ JoinReceiver
    BY <2>1, <2>4 DEF HeaderOk, EarlyReturn, OtherCommandFails, AllCommandsDone, StopReceiver,
       JoinReceiver, MainWork
  <2> QED
    BY <2>2, <2>3, <2>4 DEF Main
<1> QED
  BY <1>2, <1>3, <1>4

\* A turn of the receive loop takes a unit from the entry or finishes its chunk.
LEMMA TurnMoves ==
  ASSUME Inv, ReceiveNewData
  PROVE  /\ WriteNow \in Nat /\ WriteNow <= size
         /\ size > 0 => WriteNow > 0
         /\ size = 0 => bpc' = "process" /\ WriteNow = 0
<1>1. bpc = "write" /\ writer = cmd /\ cmd \in 1..NewCmds /\ bytes_written < Length(writer)
  BY DEF ReceiveNewData, Inv, ThreadInv, WriterOwned, WriterInv, TypeOK
<1>2. AvailableSpace \in Nat \ {0}
  BY <1>1, EndFacts DEF AvailableSpace, Inv, TypeOK
<1>3. WriteNow \in Nat /\ WriteNow <= size /\ (size > 0 => WriteNow > 0)
  BY <1>2, BoundsAssumption DEF WriteNow, MinOf, Inv, TypeOK
<1>4. ASSUME size = 0 PROVE bpc' = "process" /\ WriteNow = 0
  <2>1. WriteNow = 0
    BY <1>3, <1>4
  <2>2. MinOf(OutBuf, AvailableSpace) # 0
    BY <1>2, BoundsAssumption DEF MinOf
  <2>3. tail' = FALSE
    BY <2>1, <2>2 DEF ReceiveNewData, TailAfter
  <2>4. bytes_written' = bytes_written /\ size' = 0
    BY <1>4, <2>1 DEF ReceiveNewData, Inv, TypeOK
  <2>5. bytes_written' # Length(writer)
    BY <1>1, <2>4, EndFacts DEF Inv, TypeOK
  <2> QED
    BY <2>1, <2>3, <2>4, <2>5 DEF ReceiveNewData, AfterChunk
<1> QED
  BY <1>3, <1>4

\* The same for a step of the receiver.
LEMMA ReceiverStep ==
  ASSUME Inv, Background
  PROVE  /\ MainWork' = MainWork
         /\ ReceiverWork' <= ReceiverWork
         /\ ReceiverAdvances => ReceiverWork' < ReceiverWork
         /\ MainAdvances => MainAdvances'
<1>1. UNCHANGED mainVars
  BY DEF Background, DeliverChunk, ZipEntryEnds, AwaitWriter, ReceiveNewData,
     ReceiveFails, ClearWriter, UnzipReturns
<1>2. MainWork' = MainWork
  BY <1>1 DEF MainWork, mainVars
<1>3. MainAdvances => MainAdvances'
  <2>1. /\ bpc # "exited"
        /\ writer = 0 => writer' = 0
        /\ ~receiver_available => ~receiver_available'
    <3>1. bpc # "exited" /\ (writer' = writer \/ writer' = 0)
      BY DEF Background, DeliverChunk, ZipEntryEnds, AwaitWriter, ReceiveNewData,
         ReceiveFails, ClearWriter, UnzipReturns, nti
    <3>2. receiver_available' = receiver_available \/ receiver_available' = FALSE
      BY DEF Background, DeliverChunk, ZipEntryEnds, AwaitWriter, ReceiveNewData,
         ReceiveFails, ClearWriter, UnzipReturns, nti
    <3> QED
      BY <3>1, <3>2
  <2>2. waiting' \subseteq waiting \cup {"bg"}
    BY DEF Background, DeliverChunk, ZipEntryEnds, AwaitWriter, ReceiveNewData,
       ReceiveFails, ClearWriter, UnzipReturns, nti
  <2> QED
    BY <1>1, <2>1, <2>2 DEF MainAdvances, mainVars
<1>4. /\ ReceiverWork' <= ReceiverWork
      /\ ReceiverAdvances => ReceiverWork' < ReceiverWork
  <2>1. /\ stream - pos \in Nat /\ blank \in Nat /\ size \in Nat /\ pos \in Nat /\ stream \in Nat
        /\ stream' = stream
    <3>1. stream' = stream
      BY DEF Background, DeliverChunk, ZipEntryEnds, AwaitWriter, ReceiveNewData,
         ReceiveFails, ClearWriter, UnzipReturns
    <3> QED
      BY <3>1 DEF Inv, TypeOK, FaultInv
  <2>2. CASE DeliverChunk
    <3>1. bpc = "process" /\ bpc' = "recv" /\ pos' = pos
      BY <2>2 DEF DeliverChunk
    <3>2. CASE blank' = blank /\ \E n \in 1..(stream - pos) : size' = n
      <4>1. size' # 0
        BY <2>1, <3>2
      <4> QED
        BY <2>1, <3>1, <3>2, <4>1 DEF ReceiverWork
    <3>3. CASE blank' = blank - 1 /\ size' = 0
      BY <2>1, <3>1, <3>3 DEF ReceiverWork
    <3> QED
      BY <2>2, <3>2, <3>3 DEF DeliverChunk
  <2>3. CASE ReceiveNewData
    <3>1. bpc = "write" /\ pos' = pos + WriteNow /\ size' = size - WriteNow /\ blank' = blank
      BY <2>3 DEF ReceiveNewData
    <3>2. bpc' \in {"clear", "recv", "process"}
      BY <2>3 DEF ReceiveNewData, AfterChunk
    <3> QED
      BY <2>1, <2>3, <3>1, <3>2, TurnMoves DEF ReceiverWork
  <2>4. CASE AwaitWriter
    BY <2>1, <2>4 DEF AwaitWriter, ReceiverWork, ReceiverAdvances
  <2>5. CASE ClearWriter
    BY <2>1, <2>5 DEF ClearWriter, ReceiverWork, AfterChunk
  <2>6. CASE ZipEntryEnds \/ ReceiveFails \/ UnzipReturns
    BY <2>1, <2>6 DEF ZipEntryEnds, ReceiveFails, UnzipReturns, ReceiverWork
  <2> QED
    BY <2>2, <2>3, <2>4, <2>5, <2>6 DEF Background
<1> QED
  BY <1>2, <1>3, <1>4

\* The work left shrinks with every step but the going to sleep and the spurious wakeup,
\* and a thread that can go on stays able to until it does.
THEOREM WorkShrinks == Spec => [][Progress]_vars
<1>3. ASSUME Inv, Inv', [Next]_vars PROVE [Progress]_vars
  <2>1. MainWork \in Nat /\ ReceiverWork \in Nat /\ MainWork' \in Nat /\ ReceiverWork' \in Nat
    BY <1>3, WorkType, WorkTypeNext
  <2>2. Work \in Nat /\ Work' \in Nat
    BY <2>1, SumFalls DEF Work
  <2>3. ASSUME Main PROVE
          /\ Work' <= Work
          /\ MainAdvances => Work' < Work
          /\ MainAdvances => MainWork' < MainWork
          /\ ReceiverAdvances => ReceiverAdvances'
    <3>1. /\ ReceiverWork' = ReceiverWork
          /\ MainWork' <= MainWork
          /\ MainAdvances => MainWork' < MainWork
          /\ ReceiverAdvances => ReceiverAdvances'
      BY <1>3, <2>3, MainStep
    <3>2. Work' <= Work /\ (MainWork' < MainWork => Work' < Work)
      BY <2>1, <3>1, SumFalls DEF Work
    <3> QED
      BY <3>1, <3>2
  <2>4. ASSUME Background PROVE
          /\ Work' <= Work
          /\ ReceiverAdvances => Work' < Work
          /\ ReceiverAdvances => ReceiverWork' < ReceiverWork
          /\ MainAdvances => MainAdvances'
    <3>1. /\ MainWork' = MainWork
          /\ ReceiverWork' <= ReceiverWork
          /\ ReceiverAdvances => ReceiverWork' < ReceiverWork
          /\ MainAdvances => MainAdvances'
      BY <1>3, <2>4, ReceiverStep
    <3>2. Work' <= Work /\ (ReceiverWork' < ReceiverWork => Work' < Work)
      BY <2>1, <3>1, SumFalls DEF Work
    <3> QED
      BY <3>1, <3>2
  <2>5. ASSUME SpuriousWakeup PROVE
          /\ Work' <= Work
          /\ MainAdvances => MainAdvances'
          /\ ReceiverAdvances => ReceiverAdvances'
    <3>1. UNCHANGED <<mainVars, bgVars, writer, receiver_available>> /\ waiting' \subseteq waiting
      BY <2>5 DEF SpuriousWakeup
    <3>2. MainWork' = MainWork /\ ReceiverWork' = ReceiverWork
      BY <3>1 DEF MainWork, ReceiverWork, mainVars, bgVars
    <3>3. (MainAdvances => MainAdvances') /\ (ReceiverAdvances => ReceiverAdvances')
      BY <3>1 DEF MainAdvances, ReceiverAdvances, mainVars, bgVars
    <3> QED
      BY <2>1, <3>2, <3>3 DEF Work
  <2>6. CASE UNCHANGED vars
    BY <2>6
  <2> QED
    BY <1>3, <2>2, <2>3, <2>4, <2>5, <2>6 DEF Next, Returned, Progress
<1> QED
  BY <1>3, Invariance, PTL DEF Spec
=============================================================================
