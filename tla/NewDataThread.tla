--------------------------- MODULE NewDataThread ---------------------------
(***************************************************************************)
(* The hand-over of `new` data between the two threads of                  *)
(* block_image_update (updater/blockimg.cpp).                              *)
(*                                                                         *)
(* The background thread unzips one archive entry that holds the data of   *)
(* every `new` command, in order.  The main thread executes the transfer   *)
(* list; for a `new` command it publishes a RangeSinkWriter in             *)
(* nti->writer and sleeps on nti->cv until the background thread has       *)
(* filled the writer and reset the pointer.                                *)
(*                                                                         *)
(* Abstraction.  Data is counted in units.  Unit p of the archive entry is *)
(* meant for target position p: the targets of the `new` commands, laid    *)
(* out one after the other, are the positions 1..End[NewCmds], and command *)
(* c owns End[c-1]+1 .. End[c].  nti->writer is the number of the command  *)
(* whose writer is published, 0 for nullptr.  Every region between a       *)
(* pthread_mutex_lock and the matching unlock (or cond_wait) is one        *)
(* action, so nti->mu itself is not a variable; what a thread does with    *)
(* the writer outside the mutex is an action of its own.                   *)
(***************************************************************************)
EXTENDS Integers

CONSTANTS NewCmds,    \* number of `new` commands in the transfer list
          End,        \* End[c]: last target position owned by command c
          MaxStream,  \* bound on the length of the archive entry, in units
          MaxBlank,   \* bound on the brotli chunks that decode to no output at all
          OutBuf      \* size of the brotli output buffer, in units

ASSUME NewCmdsAssumption == NewCmds \in Nat
ASSUME EndAssumption ==
  /\ End \in [0..NewCmds -> Nat]
  /\ End[0] = 0
  /\ \A c \in 1..NewCmds : End[c-1] < End[c]   \* CHECK_NE(tgt.size(), 0)
  /\ \A c \in 0..NewCmds : End[c] <= End[NewCmds]
ASSUME BoundsAssumption == MaxStream \in Nat /\ MaxBlank \in Nat /\ OutBuf \in Nat \ {0}

Total == End[NewCmds]
Threads == {"main", "bg"}

VARIABLES
  \* NewThreadInfo
  brotli,              \* nti->brotli_compressed
  writer,              \* nti->writer: 0 is nullptr, else the command it serves
  bytes_written,       \* writer->bytes_written_ of the writer last published
  receiver_available,  \* nti->receiver_available
  waiting,             \* threads blocked in pthread_cond_wait(&nti->cv)
  \* main thread
  mpc, cmd, rc,        \* cmd: `new` commands issued so far; rc: 0 once all succeeded
  missing,             \* main has logged "missing ... bytes of new data"
  \* background thread
  bpc, size, tail,     \* units, and output-free input bytes, left in this chunk
  pos, stream, blank,  \* units taken from the entry; units, and blank chunks, in it
  fault,               \* some zip, decoder or write error has happened
  \* the partition
  block                \* block[p]: the unit written at target position p, 0 if none

nti     == <<brotli, writer, bytes_written, receiver_available, waiting>>
mainVars == <<mpc, cmd, rc, missing>>
bgVars  == <<bpc, size, tail, pos, stream, blank, fault>>
vars    == <<nti, mainVars, bgVars, block>>

MainPC == {"header", "loop", "new_wait", "pbiudone", "join", "returned", "abandoned"}
BgPC   == {"process", "recv", "write", "clear", "exit", "exited"}

TypeOK ==
  /\ brotli \in BOOLEAN /\ receiver_available \in BOOLEAN
  /\ writer \in 0..NewCmds
  /\ bytes_written \in Nat
  /\ waiting \in SUBSET Threads
  /\ mpc \in MainPC /\ bpc \in BgPC
  /\ cmd \in 0..NewCmds
  /\ rc \in {0, -1}
  /\ missing \in BOOLEAN /\ tail \in BOOLEAN /\ fault \in BOOLEAN
  /\ size \in Nat /\ pos \in Nat /\ stream \in Nat /\ blank \in Nat
  /\ block \in [1..Total -> Nat]

(***************************************************************************)
(* PerformBlockImageUpdate has just created the thread and is about to     *)
(* parse the header of the transfer list.                                  *)
(***************************************************************************)
Init ==
  /\ brotli \in BOOLEAN
  /\ writer = 0 /\ bytes_written = 0
  /\ receiver_available = TRUE
  /\ waiting = {}
  /\ mpc = "header" /\ cmd = 0 /\ rc = -1 /\ missing = FALSE
  /\ bpc = "process" /\ size = 0 /\ tail = FALSE /\ pos = 0 /\ fault = FALSE
  /\ stream \in 0..MaxStream /\ blank \in 0..MaxBlank
  /\ block = [p \in 1..Total |-> 0]

(***************************************************************************)
(* RangeSinkWriter of the published writer.                                *)
(***************************************************************************)
Length(c) == End[c] - End[c-1]

AvailableSpace == Length(writer) - bytes_written

Finished == bytes_written = Length(writer)

\* Writer->Write of n units, starting with unit pos+1, of which done reach the device
WriteUnits(done) ==
  LET at == End[writer-1] + bytes_written
  IN  block' = [p \in 1..Total |->
                  IF at < p /\ p <= at + done THEN pos + (p - at) ELSE block[p]]

(***************************************************************************)
(* Main thread                                                             *)
(***************************************************************************)

\* The transfer list header is sound and CreateStash succeeded.
HeaderOk ==
  /\ mpc = "header"
  /\ mpc' = "loop"
  /\ UNCHANGED <<nti, cmd, rc, missing, bgVars, block>>

\* A bad header, no blocks to write or a CreateStash failure: return at once, without
\* telling the background thread and without joining it.
EarlyReturn ==
  /\ mpc = "header"
  /\ mpc' = "abandoned"
  /\ UNCHANGED <<nti, cmd, rc, missing, bgVars, block>>

\* A command other than `new` fails: goto pbiudone with rc = -1.
OtherCommandFails ==
  /\ mpc = "loop"
  /\ mpc' = "pbiudone"
  /\ UNCHANGED <<nti, cmd, rc, missing, bgVars, block>>

\* Publish the writer, wake the receiver, and wait unless it has already gone.
PerformCommandNew ==
  /\ mpc = "loop" /\ cmd < NewCmds
  /\ cmd' = cmd + 1
  /\ writer' = cmd + 1
  /\ bytes_written' = 0
  /\ \/ /\ receiver_available
        /\ mpc' = "new_wait"
        /\ waiting' = {"main"}
        /\ UNCHANGED missing
     \/ /\ ~receiver_available
        /\ mpc' = "pbiudone"
        /\ waiting' = {}
        /\ missing' = TRUE
  /\ UNCHANGED <<brotli, receiver_available, rc, bgVars, block>>

\* Mutant: the wait in PerformCommandNew is an if, not a while.
NewDataWakeup_If ==
  /\ mpc = "new_wait" /\ "main" \notin waiting
  /\ \/ /\ writer = 0
        /\ mpc' = "loop"
        /\ UNCHANGED <<waiting, missing>>
     \/ /\ writer # 0 /\ ~receiver_available
        /\ mpc' = "pbiudone"
        /\ missing' = TRUE
        /\ UNCHANGED waiting
     \/ /\ writer # 0 /\ receiver_available
        /\ mpc' = "loop"
        /\ UNCHANGED <<waiting, missing>>
  /\ UNCHANGED <<brotli, writer, bytes_written, receiver_available, cmd, rc, bgVars, block>>

\* Mutant: the end of the receiver ends the wait as if the writer were done.
NewDataWakeup_IgnoreReceiver ==
  /\ mpc = "new_wait" /\ "main" \notin waiting
  /\ \/ /\ writer = 0
        /\ mpc' = "loop"
        /\ UNCHANGED <<waiting, missing>>
     \/ /\ writer # 0 /\ ~receiver_available
        /\ mpc' = "loop"
        /\ UNCHANGED <<waiting, missing>>
     \/ /\ writer # 0 /\ receiver_available
        /\ waiting' = waiting \cup {"main"}
        /\ UNCHANGED <<mpc, missing>>
  /\ UNCHANGED <<brotli, writer, bytes_written, receiver_available, cmd, rc, bgVars, block>>

\* Mutant: receiver_available is tested before writer.
NewDataWakeup_ReceiverFirst ==
  /\ mpc = "new_wait" /\ "main" \notin waiting
  /\ \/ /\ writer = 0 /\ receiver_available
        /\ mpc' = "loop"
        /\ UNCHANGED <<waiting, missing>>
     \/ /\ ~receiver_available
        /\ mpc' = "pbiudone"
        /\ missing' = TRUE
        /\ UNCHANGED waiting
     \/ /\ writer # 0 /\ receiver_available
        /\ waiting' = waiting \cup {"main"}
        /\ UNCHANGED <<mpc, missing>>
  /\ UNCHANGED <<brotli, writer, bytes_written, receiver_available, cmd, rc, bgVars, block>>

\* Back from pthread_cond_wait in PerformCommandNew: test the loop conditions again.
NewDataWakeup ==
  /\ mpc = "new_wait" /\ "main" \notin waiting
  /\ \/ /\ writer = 0
        /\ mpc' = "loop"
        /\ UNCHANGED <<waiting, missing>>
     \/ /\ writer # 0 /\ ~receiver_available
        /\ mpc' = "pbiudone"
        /\ missing' = TRUE
        /\ UNCHANGED waiting
     \/ /\ writer # 0 /\ receiver_available
        /\ waiting' = waiting \cup {"main"}
        /\ UNCHANGED <<mpc, missing>>
  /\ UNCHANGED <<brotli, writer, bytes_written, receiver_available, cmd, rc, bgVars, block>>

\* Every command has been executed: rc = 0.
AllCommandsDone ==
  /\ mpc = "loop" /\ cmd = NewCmds
  /\ mpc' = "pbiudone"
  /\ rc' = 0
  /\ UNCHANGED <<nti, cmd, missing, bgVars, block>>

\* pbiudone: tell the receiver to stop.
StopReceiver ==
  /\ mpc = "pbiudone"
  /\ receiver_available' = FALSE
  /\ waiting' = {}
  /\ mpc' = "join"
  /\ UNCHANGED <<brotli, writer, bytes_written, cmd, rc, missing, bgVars, block>>

\* pthread_join; then the mutex and the condition variable are destroyed and the
\* function returns, which ends the lifetime of nti.
JoinReceiver ==
  /\ mpc = "join" /\ bpc = "exited"
  /\ mpc' = "returned"
  /\ UNCHANGED <<nti, cmd, rc, missing, bgVars, block>>

Main ==
  \/ HeaderOk \/ EarlyReturn \/ OtherCommandFails \/ PerformCommandNew
  \/ NewDataWakeup \/ AllCommandsDone \/ StopReceiver \/ JoinReceiver

(***************************************************************************)
(* Background thread.  Once the main thread has abandoned nti its storage  *)
(* is gone and what the thread does is undefined: the model stops there.   *)
(***************************************************************************)

\* ProcessZipEntryContents hands the next chunk to the receive function.  A brotli
\* chunk may hold input that produces no output of its own.
DeliverChunk ==
  /\ bpc = "process"
  /\ \/ /\ \E n \in 1..(stream - pos) : size' = n
        /\ tail' \in (IF brotli THEN BOOLEAN ELSE {FALSE})
        /\ UNCHANGED blank
     \/ /\ brotli /\ blank > 0
        /\ blank' = blank - 1
        /\ size' = 0 /\ tail' = TRUE
  /\ bpc' = "recv"
  /\ UNCHANGED <<nti, mainVars, pos, stream, fault, block>>

\* The entry is used up, or it cannot be inflated any further.
ZipEntryEnds ==
  /\ bpc = "process"
  /\ \/ pos = stream /\ UNCHANGED fault
     \/ fault' = TRUE
  /\ bpc' = "exit"
  /\ UNCHANGED <<nti, mainVars, size, tail, pos, stream, blank, block>>

\* The `while (nti->writer == nullptr)` loop of receive_new_data and of
\* receive_brotli_new_data.
AwaitWriter ==
  /\ bpc = "recv" /\ "bg" \notin waiting
  /\ \/ /\ writer # 0
        /\ bpc' = "write"
        /\ UNCHANGED waiting
     \/ /\ writer = 0 /\ ~receiver_available
        /\ bpc' = "exit"
        /\ UNCHANGED waiting
     \/ /\ writer = 0 /\ receiver_available
        /\ waiting' = waiting \cup {"bg"}
        /\ UNCHANGED bpc
  /\ UNCHANGED <<brotli, writer, bytes_written, receiver_available, mainVars,
                 size, tail, pos, stream, blank, fault, block>>

MinOf(a, b) == IF a <= b THEN a ELSE b

\* Mutant: the space left in the writer is not looked at.
WriteNow_NoBound ==
  IF brotli THEN MinOf(size, OutBuf)
            ELSE size

\* Units one turn of the receive loop hands to writer->Write.
WriteNow ==
  IF brotli THEN MinOf(size, MinOf(OutBuf, AvailableSpace))
            ELSE MinOf(size, AvailableSpace)

\* Does the receive function go round again with what is left of its chunk?
AfterChunk(left, t) == IF left > 0 \/ t THEN "recv" ELSE "process"

\* The decoder stops because its output is full, perhaps before the input that
\* produces nothing more, or because the input is used up.
TailAfter(n) ==
  IF tail /\ n = MinOf(OutBuf, AvailableSpace) THEN {TRUE, FALSE} ELSE {FALSE}

\* Mutant: the data pointer is not advanced.
ReceiveNewData_NoAdvance ==
  /\ bpc = "write"
  /\ WriteUnits(WriteNow)
  /\ bytes_written' = bytes_written + WriteNow
  /\ pos' = pos
  /\ size' = size - WriteNow
  /\ tail' \in TailAfter(WriteNow)
  /\ bpc' = IF bytes_written' = Length(writer) THEN "clear" ELSE AfterChunk(size', tail')
  /\ UNCHANGED <<brotli, writer, receiver_available, waiting, mainVars, stream, blank, fault>>

\* One turn of the receive loop: write what fits.
ReceiveNewData ==
  /\ bpc = "write"
  /\ WriteUnits(WriteNow)
  /\ bytes_written' = bytes_written + WriteNow
  /\ pos' = pos + WriteNow
  /\ size' = size - WriteNow
  /\ tail' \in TailAfter(WriteNow)
  /\ bpc' = IF bytes_written' = Length(writer) THEN "clear" ELSE AfterChunk(size', tail')
  /\ UNCHANGED <<brotli, writer, receiver_available, waiting, mainVars, stream, blank, fault>>

\* write_all, lseek or discard fails part of the way, or the decoder reports an error
\* before anything is written: the receive function returns false.
ReceiveFails ==
  /\ bpc = "write"
  /\ \E done \in 0..(WriteNow - 1) \cup (IF brotli THEN {0} ELSE {}) :
       /\ WriteUnits(done)
       /\ bytes_written' = bytes_written + done
  /\ fault' = TRUE
  /\ bpc' = "exit"
  /\ UNCHANGED <<brotli, writer, receiver_available, waiting, mainVars, size, tail, pos, stream, blank>>

\* Mutant: the main thread is not woken.
ClearWriter_NoBroadcast ==
  /\ bpc = "clear"
  /\ writer' = 0
  /\ waiting' = waiting
  /\ bpc' = AfterChunk(size, tail)
  /\ UNCHANGED <<brotli, bytes_written, receiver_available, mainVars,
                 size, tail, pos, stream, blank, fault, block>>

\* The writer is Finished(): reset it and wake the main thread.
ClearWriter ==
  /\ bpc = "clear"
  /\ writer' = 0
  /\ waiting' = {}
  /\ bpc' = AfterChunk(size, tail)
  /\ UNCHANGED <<brotli, bytes_written, receiver_available, mainVars,
                 size, tail, pos, stream, blank, fault, block>>

\* The end of unzip_new_data.
UnzipReturns ==
  /\ bpc = "exit"
  /\ receiver_available' = FALSE
  /\ waiting' = IF writer # 0 THEN {} ELSE waiting
  /\ bpc' = "exited"
  /\ UNCHANGED <<brotli, writer, bytes_written, mainVars, size, tail, pos, stream, blank, fault, block>>

Background ==
  /\ mpc # "abandoned"
  /\ \/ DeliverChunk \/ ZipEntryEnds \/ AwaitWriter \/ ReceiveNewData
     \/ ReceiveFails \/ ClearWriter \/ UnzipReturns

(***************************************************************************)
(* pthread_cond_wait may return without a signal.                          *)
(***************************************************************************)
SpuriousWakeup ==
  /\ mpc # "abandoned"
  /\ \E t \in waiting : waiting' = waiting \ {t}
  /\ UNCHANGED <<brotli, writer, bytes_written, receiver_available, mainVars, bgVars, block>>

\* The function has returned; nothing is left to do.
Returned ==
  /\ mpc \in {"returned", "abandoned"}
  /\ UNCHANGED vars

Next == Main \/ Background \/ SpuriousWakeup \/ Returned

(***************************************************************************)
(* Both threads keep running, and every call they make outside the shared  *)
(* structure (inflating, writing to the device) returns.  Spurious wakeups *)
(* are not owed to anyone.                                                 *)
(***************************************************************************)
Fairness == WF_vars(Main) /\ WF_vars(Background)

Spec == Init /\ [][Next]_vars /\ Fairness
----------------------------------------------------------------------------
\* The target position the hand-over has reached.
Cursor == IF cmd = 0 THEN 0 ELSE End[cmd-1] + bytes_written

\* What the main thread has made of the update so far.
Status == IF rc = 0 THEN "ok"
          ELSE IF mpc \in {"header", "loop", "new_wait"} THEN "running" ELSE "failed"

(***************************************************************************)
(* Properties                                                              *)
(***************************************************************************)

\* The data of the `new` commands reaches the partition in transfer-list order: whatever
\* the chunk sizes, the buffer sizes and the wakeups were, a target position holds either
\* nothing or the one unit of the archive entry that is meant for it.
InOrder == \A p \in 1..Total : block[p] \in {0, p}

\* block_image_update reports success only when every `new` target is completely
\* written; a receiver that died half-way through a writer is never taken for one that
\* finished it.
SuccessMeansWritten == rc = 0 => \A p \in 1..Total : block[p] = p

\* "At this point nti->writer is set, and we own it. The main thread is waiting for it to
\* disappear from nti": while the background thread uses the writer outside the mutex,
\* the writer is published and the main thread is still inside PerformCommandNew, so the
\* RangeSet the writer refers to is alive.
WriterOwned == bpc \in {"write", "clear"} => writer = cmd /\ cmd > 0 /\ mpc = "new_wait"

\* PerformCommandNew reports missing data only when data really is missing: something
\* failed, or the entry is shorter than the commands need.  In particular a receiver
\* that completes the last writer and ends before the main thread wakes up is no error.
NoFalseMissing == missing => fault \/ stream < Total

\* The main thread leaves the hand-over structure only after the background thread has
\* exited, unless it returned before executing any command.
JoinedBeforeDestroy == mpc = "returned" => bpc = "exited" /\ ~receiver_available

\* Neither thread sleeps for ever: block_image_update returns on every path, with no help
\* from spurious wakeups.
Terminates == <>(mpc \in {"returned", "abandoned"})

\* The two threads together behave like a main thread that copies the archive entry
\* itself, command by command (module NewDataSink).
Sink == INSTANCE NewDataSink WITH at <- Cursor, status <- Status
CopiesSequentially == Sink!Spec

\* "End the new data receiver if we encounter an error when performing block image
\* update": whenever the function has returned, the background thread has exited.
ReceiverEnded == mpc \in {"returned", "abandoned"} => bpc = "exited"

=============================================================================
