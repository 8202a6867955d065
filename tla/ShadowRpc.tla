----------------------------- MODULE ShadowRpc -----------------------------
(***************************************************************************)
(* The JSON-RPC endpoint that answers Ethereum reads from the database.    *)
(* A call is a few statements, and the ingest commits blocks between them; *)
(* of the ingest only what IndexedChain promises is used.                  *)
(*                                                                         *)
(* A block is its number.  Of its contents there is whether it holds a log *)
(* that the caller's filter matches, a transaction of the caller's account *)
(* and a balance reading of that account; fees are those of the block.     *)
(* Encoding, parameter errors and the methods with a constant answer are   *)
(* left out.                                                               *)
(***************************************************************************)
EXTENDS Integers, Sequences, FiniteSetsExt, Functions

CONSTANTS
  None,
  Confirmations, Oldest,   \* of IndexedChain
  LogBlocks,     \* environment: the blocks with a matching log
  SentBlocks,    \* environment: the blocks in which the account sends a transaction
  ReadBlocks,    \* environment: the blocks with a balance reading of the account
  Requests,      \* the calls that are made
  Span,          \* MAX_LOG_QUERY_BLOCKS
  FeeSpan,       \* MAX_FEE_HISTORY_BLOCKS
  MaxHeight      \* bound: height of the chain

Blocks == 0..MaxHeight

\* A block parameter: a tag, a number or a header hash.
Tags == [kind : {"latest", "earliest"}, block : {0}]
          \cup [kind : {"number", "hash"}, block : Blocks]

\* The answer to a call for a block that is stored.
Found == [block : Blocks, whole : BOOLEAN]

Methods == {"blockNumber", "count", "balance", "block", "fees", "logs"}

ShadowRpcAssumption ==
  /\ Confirmations \in Nat /\ Oldest \in Nat /\ MaxHeight \in Nat \ {0}
  /\ LogBlocks \subseteq Blocks /\ SentBlocks \subseteq Blocks
  /\ ReadBlocks \subseteq Blocks
  /\ Span \in Nat \ {0} /\ FeeSpan \in Nat \ {0}
  /\ Requests \subseteq [method : Methods, from : Tags, to : Tags, count : Nat \ {0}]
  /\ None \notin Int \union Found

VARIABLES
  height, indexed, forward, backfill,   \* of IndexedChain
  call,     \* the call under way
  before,   \* history: what was indexed, the head and what was heard when it was made
  heard     \* history: the highest head the caller was told

chain == <<height, indexed, forward, backfill>>
vars == <<height, indexed, forward, backfill, call, before, heard>>

Chain == INSTANCE IndexedChain

NoCall == [pc |-> "idle", request |-> None, head |-> None, from |-> None, to |-> None,
           rows |-> {}, answer |-> None]

-----------------------------------------------------------------------------
(* The reads, each one statement. *)

indexedHead == forward

MinStoredBlock == IF indexed = {} THEN None ELSE Min(indexed)

\* resolveBlockTag, but for an unknown hash.
Resolve(tag) ==
  CASE tag.kind = "latest"   -> indexedHead
    [] tag.kind = "earliest" -> MinStoredBlock
    [] OTHER                 -> tag.block

UnknownHash(tag) == tag.kind = "hash" /\ tag.block \notin indexed

\* The nonce after a set of blocks: they are numbered along the chain.
Nonce(sent) ==
  IF sent = {} THEN 0 ELSE Cardinality({b \in SentBlocks : b <= Max(sent)})

\* Mutant of getSentTransactionCount: the block itself is left out.
CountBefore(stored, upTo) == Nonce({b \in stored \cap SentBlocks : b < upTo})

getSentTransactionCount(stored, upTo) == Nonce({b \in stored \cap SentBlocks : b <= upTo})

queryLogs(stored, from, to) == {b \in stored \cap LogBlocks : from <= b /\ b <= to}

\* The newest reading at or before a block.
getBalanceAt(stored, upTo) ==
  LET readings == {b \in stored \cap ReadBlocks : b <= upTo}
  IN  IF readings = {} THEN None ELSE Max(readings)

\* The stored blocks of a fee window, and its next block if that is stored.
FeeWindow(stored, newest, count) ==
  {b \in stored : b > newest - (IF count < FeeSpan THEN count ELSE FeeSpan) /\ b <= newest + 1}

-----------------------------------------------------------------------------
Init ==
  /\ height = MaxHeight - 1 /\ Chain!Init
  /\ call = NoCall /\ before = None /\ heard = None

\* The ingest: blocks become readable as IndexedChain has it.
ChainStep ==
  /\ \/ height < MaxHeight /\ Chain!Grow
     \/ \E b \in Blocks : forward' = b /\ Chain!IndexForward
     \/ \E b \in Blocks : backfill' = b - 1 /\ Chain!IndexBackward
     \/ \E b \in Blocks : indexed' = indexed \cup {b} /\ Chain!FillHole
  /\ UNCHANGED <<call, before, heard>>

-----------------------------------------------------------------------------
(* A call. *)

At(pc) == call.pc = pc
Asked(method) == ~At("idle") /\ call.request.method = method
Goto(pc) == call' = [call EXCEPT !.pc = pc]

Ask(request) ==
  /\ At("idle")
  /\ call' = [NoCall EXCEPT !.pc = "start", !.request = request]
  /\ before' = [indexed |-> indexed, head |-> forward, heard |-> heard]
  /\ UNCHANGED <<chain, heard>>

Answer(answer) == call' = [call EXCEPT !.pc = "answered", !.answer = answer]

\* "unknown block", "header for hash not found", a range too large: an error.
Refuse == call' = [call EXCEPT !.pc = "refused"]

\* eth_blockNumber
AnswerHead ==
  /\ At("start") /\ Asked("blockNumber")
  /\ Answer(IF indexedHead = None THEN 0 ELSE indexedHead)
  /\ heard' = IF indexedHead = None THEN heard ELSE indexedHead
  /\ UNCHANGED <<chain, before>>

\* The block parameter of the methods that take one; "earliest" has no nonce.
ResolveBlockTag ==
  /\ At("start") /\ ~Asked("blockNumber") /\ ~Asked("logs")
  /\ LET tag == call.request.to IN
       IF Asked("count") /\ tag.kind = "earliest" THEN Answer(0)
       ELSE IF UnknownHash(tag) THEN Refuse
       ELSE IF Resolve(tag) = None
       THEN CASE Asked("count")   -> Answer(0)
              [] Asked("block")   -> Answer(None)
              [] Asked("fees")    -> Answer(<< >>)
              [] Asked("balance") -> Goto("floor")
       ELSE call' = [call EXCEPT !.pc = "read", !.to = Resolve(tag)]
  /\ UNCHANGED <<chain, before, heard>>

\* eth_getTransactionCount
CountSent ==
  /\ At("read") /\ Asked("count")
  /\ Answer(getSentTransactionCount(indexed, call.to))
  /\ UNCHANGED <<chain, before, heard>>

\* eth_getBalance: no reading that early is an error that names the floor.
ReadBalance ==
  /\ At("read") /\ Asked("balance")
  /\ IF getBalanceAt(indexed, call.to) = None THEN Goto("floor")
     ELSE Answer(getBalanceAt(indexed, call.to))
  /\ UNCHANGED <<chain, before, heard>>

ReadFloor ==
  /\ At("floor") /\ Refuse
  /\ UNCHANGED <<chain, before, heard>>

\* eth_getBlockByNumber, -ByHash: the row, then its transactions.
ReadBlock ==
  /\ At("read") /\ Asked("block")
  /\ IF call.to \in indexed THEN Goto("transactions") ELSE Answer(None)
  /\ UNCHANGED <<chain, before, heard>>

ReadTransactions ==
  /\ At("transactions")
  /\ Answer([block |-> call.to, whole |-> call.to \in indexed])
  /\ UNCHANGED <<chain, before, heard>>

\* eth_feeHistory: the rows of the window, in order; a caller reads the entry at
\* position i as that of block oldestBlock + i.
ReadWindow ==
  /\ At("read") /\ Asked("fees")
  /\ LET rows == FeeWindow(indexed, call.to, call.request.count) IN
       IF \A b \in rows : b > call.to THEN Answer(<< >>)
       ELSE call' = [call EXCEPT !.pc = "samples", !.rows = rows]
  /\ UNCHANGED <<chain, before, heard>>

\* The rows as they are asked for, by ascending number.
InOrder(rows) ==
  [i \in 1..Cardinality(rows) |->
     CHOOSE b \in rows : Cardinality({c \in rows : c < b}) = i - 1]

\* The rewards are grouped by block; the base fee that closes the array is the
\* next block's, or the newest one's again.
ReadSamples ==
  /\ At("samples")
  /\ Answer(Append(InOrder({b \in call.rows : b <= call.to}), Max(call.rows)))
  /\ UNCHANGED <<chain, before, heard>>

\* eth_getLogs of one block, named by its hash.
LogsOfHash ==
  /\ At("start") /\ Asked("logs") /\ call.request.from.kind = "hash"
  /\ IF UnknownHash(call.request.from) THEN Refuse
     ELSE call' = [call EXCEPT !.pc = "read", !.from = call.request.from.block,
                               !.to = call.request.from.block]
  /\ UNCHANGED <<chain, before, heard>>

\* eth_getLogs of a range: the head, then the two ends, the upper one not above
\* that head.
LogsHead ==
  /\ At("start") /\ Asked("logs") /\ call.request.from.kind # "hash"
  /\ IF indexedHead = None THEN Answer({})
     ELSE call' = [call EXCEPT !.pc = "from", !.head = indexedHead]
  /\ UNCHANGED <<chain, before, heard>>

ResolveFrom ==
  /\ At("from")
  /\ call' = [call EXCEPT !.pc = "to", !.from = Resolve(call.request.from)]
  /\ UNCHANGED <<chain, before, heard>>

ResolveTo ==
  /\ At("to")
  /\ IF UnknownHash(call.request.to) THEN Refuse
     ELSE LET to == Resolve(call.request.to)
              clamped == IF to > call.head THEN call.head ELSE to
          IN  IF call.from = None \/ to = None \/ clamped < call.from THEN Answer({})
              ELSE IF clamped - call.from + 1 > Span THEN Refuse
              ELSE call' = [call EXCEPT !.pc = "read", !.to = clamped]
  /\ UNCHANGED <<chain, before, heard>>

QueryLogs ==
  /\ At("read") /\ Asked("logs")
  /\ call' = [call EXCEPT !.pc = "hashes", !.rows = queryLogs(indexed, call.from, call.to)]
  /\ UNCHANGED <<chain, before, heard>>

\* The header hashes of the logs' blocks, in a statement of its own.
ReadHashes ==
  /\ At("hashes")
  /\ Answer(call.rows \cap indexed)
  /\ UNCHANGED <<chain, before, heard>>

\* The answer has left; the next call may follow.
Done ==
  /\ call.pc \in {"answered", "refused"}
  /\ call' = NoCall /\ before' = None
  /\ UNCHANGED <<chain, heard>>

-----------------------------------------------------------------------------
CallStep ==
  \/ AnswerHead \/ ResolveBlockTag \/ CountSent \/ ReadBalance \/ ReadFloor
  \/ ReadBlock \/ ReadTransactions \/ ReadWindow \/ ReadSamples
  \/ LogsOfHash \/ LogsHead \/ ResolveFrom \/ ResolveTo \/ QueryLogs \/ ReadHashes

Next == ChainStep \/ (\E request \in Requests : Ask(request)) \/ CallStep \/ Done

Spec == Init /\ [][Next]_vars

-----------------------------------------------------------------------------
\* Types of the variables.
TypeOK ==
  /\ height \in Blocks /\ indexed \subseteq Blocks
  /\ forward \in Blocks \cup {None} /\ backfill \in Blocks \cup {-1, None}
  /\ call.rows \subseteq Blocks /\ heard \in Blocks \cup {None}
  /\ {call.head, call.from, call.to} \subseteq Blocks \cup {None}

Answered(method) == At("answered") /\ Asked(method)

Matching(stored, from, to) == {b \in stored \cap LogBlocks : b \in from..to}
UpTo(stored, block) == {b \in stored : b <= block}
Newest(blocks) == IF blocks = {} THEN -1 ELSE Max(blocks)

\* The block a parameter named: at least (of before), and at most (by now).
Least(tag) ==
  CASE tag.kind = "latest"   -> before.head
    [] tag.kind = "earliest" -> IF before.indexed = {} THEN None ELSE Min(before.indexed)
    [] OTHER                 -> tag.block

\* A range of logs that starts at a number or at the first stored block and ends at a
\* number or at the head: the answer has every matching block that was stored in it when
\* the call was made, up to the head of then, and nothing outside it; and of every log
\* the block's hash was found.
LogsComplete ==
  Answered("logs") /\ call.request.from.kind # "latest"
    /\ call.request.to.kind # "earliest" /\ Least(call.request.to) # None =>
    LET from == call.request.from
        low == IF from.kind = "earliest" THEN 0 ELSE from.block
        high == IF from.kind = "hash" THEN from.block ELSE Resolve(call.request.to)
        first == IF from.kind = "hash" THEN from.block ELSE Least(call.request.to)
        top == IF from.kind = "hash" THEN from.block ELSE before.head
    IN  /\ call.answer \subseteq Matching(indexed, low, high)
        /\ top # None =>
             Matching(before.indexed, low, IF first < top THEN first ELSE top)
               \subseteq call.answer

\* A nonce is never below that of the transactions stored when it was asked for, nor
\* above that of those stored by now; a balance is the newest reading that was
\* stored, or a newer one; a block that was stored is found, with its transactions.
ReadsNotBehind ==
  LET tag == call.request.to IN
  /\ Answered("count") /\ tag.kind # "earliest" /\ Least(tag) # None =>
       /\ Nonce(UpTo(before.indexed, Least(tag)) \cap SentBlocks) <= call.answer
       /\ call.answer <= Nonce(UpTo(indexed, Resolve(tag)) \cap SentBlocks)
  /\ Answered("balance") /\ tag.kind # "earliest" /\ Least(tag) # None =>
       Newest(UpTo(before.indexed, Least(tag)) \cap ReadBlocks) <= call.answer
  /\ Asked("balance") /\ At("refused") /\ tag.kind = "number" =>
       UpTo(before.indexed, tag.block) \cap ReadBlocks = {}
  /\ Answered("block") =>
       /\ call.answer # None => call.answer.whole
       /\ call.answer = None /\ Least(tag) # None => tag.kind = "number" /\ tag.block \notin before.indexed

\* A caller that was told a head finds that block in whatever call follows, and the
\* latest block is never an older one.  (The 0 of an empty index names no block.)
HeadHolds ==
  Answered("block") /\ before.heard # None =>
    LET tag == call.request.to IN
    /\ tag.kind = "latest" => call.answer # None /\ before.heard <= call.answer.block
    /\ tag.kind = "number" /\ tag.block = before.heard => call.answer # None

\* A fee history without a hole in its window when the call was made: entry i is
\* that of block oldestBlock + i.
Entries == Len(call.answer) - 1
FeesAligned ==
  Answered("fees") /\ call.answer # << >> =>
    LET newest == call.answer[Entries]
        oldest == call.answer[1]
    IN  /\ {b \in before.indexed : b >= oldest /\ b <= newest} \subseteq Range(call.answer)
        /\ oldest..newest \subseteq before.indexed =>
             \A i \in 1..Entries : call.answer[i] = oldest + i - 1

\* "Stored logs matching `fromBlock`/`toBlock` (default `latest`, ...)": a call without
\* a range answers with the logs of a block that was the head while it ran.
LatestLogs ==
  Answered("logs") /\ call.request.from.kind = "latest" /\ call.request.to.kind = "latest"
    /\ before.head # None =>
      \E head \in before.head..forward : call.answer = LogBlocks \cap {head}
=============================================================================
