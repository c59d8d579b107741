---------------------------- MODULE FuseSideload ----------------------------
(***************************************************************************)
(* The filesystem of fuse_sideload.cpp: one thread that takes requests of  *)
(* the kernel one at a time and answers reads of package.zip from a cache  *)
(* of one block, fetched from a provider (the adb host or an sdcard file)  *)
(* whose content may change between two fetches and whose reads may fail.  *)
(*                                                                         *)
(* Sizes are counted in units, several of which make a block.  A unit of   *)
(* the package is its position and the version it was fetched in; a block's*)
(* SHA-256 is the block itself.                                            *)
(***************************************************************************)
EXTENDS Integers

CONSTANTS
  BlockSize, FileSize, \* in units
  Word,        \* 2^32: block * fd->block_size is computed in 32 bits
  Versions,    \* contents the provider may deliver
  MaxOffset,   \* last position the kernel reads at
  Callers      \* who has requests under way

ASSUME SizesAssumption ==
  /\ BlockSize \in Nat \ {0} /\ FileSize \in Nat /\ MaxOffset \in Nat
  /\ Word \in Nat \ {0} /\ Versions # {}

VARIABLES
  mounted,
  curr_block, block_data, extra_block, hashes,
  pending,     \* the request of each caller
  current,     \* the caller whose read is being handled
  stage,       \* which of its blocks is to be fetched
  reply,       \* the answer to each caller
  data,        \* what the last read returned: position and units, and from which stale buffers
  first,       \* what the first read of each position returned, stale ones aside
  stale,       \* buffers that hold something else than they stand for (history)
  mishap       \* during the last read the provider failed; its content changed

cache == <<curr_block, block_data, extra_block, hashes>>
calls == <<pending, current, stage, reply>>
seen  == <<data, first, stale, mishap>>
fuseVars == <<mounted, cache, calls, seen>>

file_blocks == IF FileSize = 0 THEN 0 ELSE ((FileSize - 1) \div BlockSize) + 1

NoBlock == -1
Zero == <<"zero">>
Junk == <<"junk">>
None == <<"none">>
Nobody == "nobody"

Offsets == 0..MaxOffset
InBlock == 0..(BlockSize - 1)
Unit == {Zero, Junk} \cup (Nat \X Versions)
Block == [InBlock -> Unit]
NoRequest == [op |-> "none"]
Read == [op : {"read"}, offset : Offsets, size : 1..BlockSize]
NoMishap == [failed |-> FALSE, changed |-> FALSE]
Lookup == [op : {"lookup"}, name : {"package.zip", "exit", "other"}]

FuseTypeOK ==
  /\ mounted \in BOOLEAN
  /\ curr_block \in NoBlock..(MaxOffset + 1)
  /\ block_data \in Block /\ extra_block \in Block
  /\ hashes \in [0..(file_blocks - 1) -> Block \cup {None}]
  /\ pending \in [Callers -> Read \cup Lookup \cup {NoRequest}]
  /\ current \in Callers \cup {Nobody} /\ stage \in {1, 2}
  /\ reply \in [Callers -> {"none", "ok", "ENOENT", "error"}]
  /\ data.offset \in Int /\ data.size \in Nat
  /\ data.stale \subseteq {"block", "extra"} /\ stale \subseteq {"block", "extra"}
  /\ first \in [Offsets -> Unit \cup {None}]
  /\ mishap \in [failed : BOOLEAN, changed : BOOLEAN]

FuseInit ==
  /\ mounted = FALSE
  /\ curr_block = NoBlock
  /\ block_data = [i \in InBlock |-> Junk] /\ extra_block = [i \in InBlock |-> Junk]
  /\ hashes = [b \in 0..(file_blocks - 1) |-> None]
  /\ pending = [c \in Callers |-> NoRequest] /\ current = Nobody /\ stage = 1
  /\ reply = [c \in Callers |-> "none"]
  /\ data = [offset |-> 0, size |-> 0, units |-> block_data, stale |-> {}]
  /\ first = [p \in Offsets |-> None] /\ stale = {}
  /\ mishap = NoMishap

-----------------------------------------------------------------------------
(* Requests                                                                *)

Ask(c, r) ==
  /\ pending[c] = NoRequest
  /\ pending' = [pending EXCEPT ![c] = r]
  /\ reply' = [reply EXCEPT ![c] = "none"]
  /\ mishap' = IF r.op = "read" THEN NoMishap ELSE mishap
  /\ UNCHANGED <<mounted, cache, current, stage, data, first, stale>>

Answer(c, how) ==
  /\ pending' = [pending EXCEPT ![c] = NoRequest]
  /\ reply' = [reply EXCEPT ![c] = how]

\* The filesystem disappears: everyone who waits gets an error.
Gone ==
  /\ mounted' = FALSE
  /\ pending' = [c \in Callers |-> NoRequest]
  /\ reply' = [c \in Callers |-> IF pending[c] = NoRequest THEN reply[c] ELSE "error"]
  /\ current' = Nobody /\ stage' = 1

\* handle_lookup and handle_getattr: the exit file is answered, and then the
\* loop ends.
HandleLookup(c) ==
  /\ mounted /\ current = Nobody /\ pending[c] \in Lookup
  /\ IF pending[c].name = "exit"
       THEN /\ mounted' = FALSE
            /\ pending' = [d \in Callers |-> NoRequest]
            /\ reply' = [d \in Callers |-> IF d = c THEN "ok"
                           ELSE IF pending[d] = NoRequest THEN reply[d] ELSE "error"]
       ELSE /\ Answer(c, IF pending[c].name = "package.zip" THEN "ok" ELSE "ENOENT")
            /\ UNCHANGED mounted
  /\ UNCHANGED <<cache, current, stage, seen>>

HandleRead(c) ==
  /\ mounted /\ current = Nobody /\ pending[c] \in Read
  /\ current' = c /\ stage' = 1
  /\ UNCHANGED <<mounted, cache, pending, reply, seen>>

-----------------------------------------------------------------------------
(* fetch_block                                                             *)

\* Of the last block only what the file has is asked for.
FetchSize(block) ==
  LET start == (block * BlockSize) % Word
  IN  IF start + BlockSize > FileSize THEN FileSize - start ELSE BlockSize

\* Mutant: the rest of the buffer is left as it is.
Padded_Not(block) == block_data

\* The rest of the buffer is cleared before the provider is asked.
Padded(block) == [i \in InBlock |-> IF i >= FetchSize(block) THEN Zero ELSE block_data[i]]

\* The first n units of the block, as the provider has them in version v.
Delivered(block, v, n) ==
  [i \in InBlock |-> IF i < n THEN <<block * BlockSize + i, v>> ELSE Padded(block)[i]]

\* The block was first fetched in another version.
Changed(block, v) == hashes[block] # None /\ hashes[block][0] # <<block * BlockSize, v>>

wanted == (pending[current].offset \div BlockSize) + (stage - 1)
from   == IF stage = 1 THEN pending[current].offset % BlockSize ELSE 0

\* The read goes over into the next block.
Spills == stage = 1 /\ from + pending[current].size > BlockSize

\* What writev sends: the copy of the first block, then the second.
Units(buffer) ==
  LET head == BlockSize - (pending[current].offset % BlockSize)
  IN  [i \in 0..(pending[current].size - 1) |->
         IF stage = 1 THEN buffer[from + i]
         ELSE IF i < head THEN extra_block[i] ELSE buffer[i - head]]

Returned(buffer, bad) ==
  LET off  == pending[current].offset
      n    == pending[current].size
      used == bad \cup (IF stage = 2 THEN stale \cap {"extra"} ELSE {})
  IN  /\ data' = [offset |-> off, size |-> n, units |-> Units(buffer), stale |-> used]
      /\ first' = [p \in Offsets |->
                     IF used = {} /\ first[p] = None /\ p >= off /\ p < off + n
                       THEN Units(buffer)[p - off] ELSE first[p]]

\* handle_read goes on with a block that fetch_block has accepted.  (bad is {"block"} if the
\* buffer is stale.)
Accepted(buffer, bad) ==
  IF Spills
    THEN /\ extra_block' = [i \in InBlock |->
                              IF from + i < BlockSize THEN buffer[from + i] ELSE extra_block[i]]
         /\ stage' = 2
         /\ stale' = bad \cup (IF bad = {} THEN {} ELSE {"extra"})
         /\ UNCHANGED <<pending, reply, current, data, first>>
    ELSE /\ Answer(current, "ok") /\ Returned(buffer, bad)
         /\ current' = Nobody /\ stage' = 1
         /\ stale' = bad
         /\ UNCHANGED extra_block

Refused ==
  /\ Answer(current, "error")
  /\ current' = Nobody /\ stage' = 1
  /\ UNCHANGED <<extra_block, data, first>>

FetchCached ==
  /\ mounted /\ current # Nobody /\ wanted = curr_block
  /\ Accepted(block_data, stale \cap {"block"})
  /\ UNCHANGED <<mounted, curr_block, block_data, hashes, mishap>>

FetchBeyond ==
  /\ mounted /\ current # Nobody /\ wanted # curr_block /\ wanted >= file_blocks
  /\ curr_block' = wanted /\ block_data' = [i \in InBlock |-> Zero]
  /\ Accepted(block_data', {})
  /\ UNCHANGED <<mounted, hashes, mishap>>

\* Mutant: a block that does not match stays in the cache.
FetchDelivered_Keep(v) ==
  /\ mounted /\ current # Nobody /\ wanted # curr_block /\ wanted < file_blocks
  /\ block_data' = Delivered(wanted, v, FetchSize(wanted))
  /\ curr_block' = wanted
  /\ IF hashes[wanted] \in {None, block_data'}
       THEN hashes' = [hashes EXCEPT ![wanted] = block_data'] /\ Accepted(block_data', {})
       ELSE Refused /\ stale' = {} /\ UNCHANGED hashes
  /\ mishap' = [mishap EXCEPT !.changed = @ \/ Changed(wanted, v)]
  /\ UNCHANGED mounted

FetchDelivered(v) ==
  /\ mounted /\ current # Nobody /\ wanted # curr_block /\ wanted < file_blocks
  /\ block_data' = Delivered(wanted, v, FetchSize(wanted))
  /\ IF hashes[wanted] \in {None, block_data'}
       THEN /\ curr_block' = wanted
            /\ hashes' = [hashes EXCEPT ![wanted] = block_data']
            /\ Accepted(block_data', {})
       ELSE /\ curr_block' = NoBlock
            /\ Refused /\ stale' = {} /\ UNCHANGED hashes
  /\ mishap' = [mishap EXCEPT !.changed = @ \/ Changed(wanted, v)]
  /\ UNCHANGED mounted

\* read_block fails after n units: curr_block still names the block that was in the buffer, which
\* is stale from then on.
FetchFails(v, n) ==
  /\ mounted /\ current # Nobody /\ wanted # curr_block /\ wanted < file_blocks
  /\ n < FetchSize(wanted)
  /\ block_data' = Delivered(wanted, v, n)
  /\ Refused /\ stale' = IF curr_block = NoBlock THEN {} ELSE {"block"}
  /\ mishap' = [mishap EXCEPT !.failed = TRUE]
  /\ UNCHANGED <<mounted, curr_block, hashes>>

\* A block has been asked for, and the answer has not come.
Fetching == mounted /\ current # Nobody /\ wanted # curr_block /\ wanted < file_blocks

\* What the server does by itself, and what it waits for the provider for.
ServeAlone ==
  \/ \E c \in Callers : HandleLookup(c) \/ HandleRead(c)
  \/ FetchCached \/ FetchBeyond
ServeFetched ==
  \E v \in Versions : FetchDelivered(v) \/ \E n \in 0..(BlockSize - 1) : FetchFails(v, n)
Serve == ServeAlone \/ ServeFetched

-----------------------------------------------------------------------------
(* What the first lines of fuse_sideload.cpp promise.                      *)

Same == \A i \in 0..(data.size - 1) :
          data.offset + i \in Offsets => data.units[i] = first[data.offset + i]
=============================================================================
