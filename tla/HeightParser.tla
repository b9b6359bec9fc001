---------------------------- MODULE HeightParser ----------------------------
(***************************************************************************)
(* Parsing the four RPC payloads of one height into the rows that are      *)
(* stored (indexer/parsers.py and the payload parsers of                   *)
(* scripts/inspect_rpc.py), with every transaction sent through the        *)
(* decoder, and the later backfill of execution results                    *)
(* (indexer/execution_backfill.py).                                        *)
(*                                                                         *)
(* The payloads are chosen by the environment.  An RpcError anywhere drops *)
(* the whole height: rows exist only once every check has passed.          *)
(***************************************************************************)
EXTENDS TransactionDecoder

CONSTANTS
    Validators,      \* signing addresses of the active set
    Precommits,      \* precommits a commit may hold, see below
    MaxTxs,          \* bound: transactions of a block
    MaxPrecommits,   \* bound: entries of a commit
    MaxHeights,      \* bound: heights parsed
    NotBase64        \* a transaction that is not valid base64

ASSUME ParserAssumption ==
    /\ NotBase64 \notin Txs \cup {None, TooLarge}
    /\ {MaxTxs, MaxPrecommits, MaxHeights} \subseteq Nat
    /\ \A p \in Precommits : p.id = "null" => p.addr \notin Validators

VARIABLES
    block,           \* the block being parsed: [txs, rows], or None
    stored,          \* the rows of the last height written, or None
    heights          \* heights begun so far

parserVars == <<block, stored, heights>>
vars == <<decoderVars, parserVars>>

Init == DecoderInit /\ block = None /\ stored = None /\ heights = 0

-----------------------------------------------------------------------------
(* Transactions.                                                           *)

\* parse_height: the block payload, its transaction count agreeing with the
\* header.
parse_block ==
    /\ block = None /\ call = Idle
    /\ heights < MaxHeights
    /\ heights' = heights + 1
    /\ \E n \in 0..MaxTxs, txs \in [1..MaxTxs -> Txs \cup {TooLarge, NotBase64}] :
          block' = [txs |-> SubSeq(txs, 1, n), rows |-> <<>>]
    /\ stored' = None
    /\ UNCHANGED decoderVars

NextTx == block.txs[Len(block.rows) + 1]
MoreTxs == block # None /\ Len(block.rows) < Len(block.txs)
AddRow(row) == block' = [block EXCEPT !.rows = Append(@, row)]

\* parse_tx, the part before the decoder is asked.
ParseUnreadable ==
    /\ MoreTxs /\ call = Idle
    /\ NextTx = NotBase64
    /\ AddRow([tx |-> None, sent |-> None, summary |-> generic_summary("invalid")])
    /\ UNCHANGED <<decoderVars, stored, heights>>

ParseDecode ==
    /\ MoreTxs
    /\ NextTx # NotBase64
    /\ DecodeRefused(NextTx) \/ DecodeBegin(NextTx)
    /\ UNCHANGED parserVars

\* parse_tx with the decoder's result.  A normalised summary has a parsed or
\* unsupported status and normalises to itself.
ParseDecoded ==
    /\ call.phase = "done"
    /\ AddRow([tx      |-> NextTx,
               sent    |-> call.sent,
               summary |-> IF call.summary = None THEN generic_summary("unparsed")
                                                  ELSE call.summary])
    /\ call' = Idle
    /\ UNCHANGED <<now, retry_at, request_number, process, starts, alive,
                   input, output, buffer, stored, heights>>

-----------------------------------------------------------------------------
(* Votes.  A precommit is [addr, id, sig]: its signer (None when it is not *)
(* an object or names none), the block it votes for ("commit", "zero",     *)
(* "other", "malformed", or "null" for a null entry of the list) and       *)
(* whether the signature is usable (64 bytes, a supported key type).       *)

Votes(precommits) == {i \in DOMAIN precommits : precommits[i].id # "null"}

\* classify_votes raises on a vote without signer or from outside the set.
VotesReadable(precommits) ==
    \A i \in Votes(precommits) : precommits[i].addr \in Validators

_classify_precommit(p) ==
    CASE p.id = "malformed"         -> "invalid"
      [] p.id = "commit" /\ p.sig   -> "commit"
      [] p.id = "zero"              -> "nil"
      [] OTHER                      -> "invalid"

\* Mutant: a double vote is taken for one vote.
classify_votes_first(precommits) ==
    [v \in Validators |->
        LET mine == {i \in Votes(precommits) : precommits[i].addr = v}
        IN  IF mine = {} THEN "absent"
            ELSE _classify_precommit(precommits[CHOOSE i \in mine : TRUE])]

classify_votes(precommits) ==
    [v \in Validators |->
        LET mine == {i \in Votes(precommits) : precommits[i].addr = v}
        IN  IF mine = {} THEN "absent"
            ELSE IF Cardinality(mine) > 1 THEN "invalid"
            ELSE _classify_precommit(precommits[CHOOSE i \in mine : TRUE])]

-----------------------------------------------------------------------------
(* Execution results: one of "ok", "failed" or "malformed" per deliver_tx. *)

parse_execution_results(deliver, tx_count) ==
    IF Len(deliver) # tx_count \/ \E i \in DOMAIN deliver : deliver[i] = "malformed"
      THEN None
      ELSE deliver

Delivers == SeqOf({"ok", "malformed"}, MaxTxs)

\* The rest of parse_height: commit and validators at the same height, votes
\* and results readable.  block_results names a height and no block: the
\* answers of one endpoint about a height are taken to be of one history.
\* results = None: rows written before the results table existed.
parse_height ==
    /\ block # None /\ ~MoreTxs /\ call = Idle
    /\ \/ stored' = None                    \* RpcError: the height is not written
       \/ \E precommits \in SeqOf(Precommits, MaxPrecommits), deliver \in Delivers :
            /\ VotesReadable(precommits)
            /\ parse_execution_results(deliver, Len(block.txs)) # None
            /\ \E results \in {deliver, None} :
                 stored' = [txs |-> block.txs, rows |-> block.rows, precommits |-> precommits,
                            votes |-> classify_votes(precommits),
                            results |-> results, resultsOf |-> "stored"]
    /\ block' = None
    /\ UNCHANGED <<decoderVars, heights>>

\* backfill_height: block and results as one endpoint reports them; theirs is
\* the block it has at the height.  Result rows that exist are kept.
SameBlock(theirs) == theirs = "stored"

backfill_height ==
    /\ stored # None /\ stored.results = None
    /\ block = None
    /\ \E theirs \in {"stored", "other"}, deliver \in Delivers :
         /\ SameBlock(theirs)
         /\ parse_execution_results(deliver, Len(stored.rows)) # None
         /\ stored' = [stored EXCEPT !.results = deliver, !.resultsOf = theirs]
    /\ UNCHANGED <<decoderVars, block, heights>>

\* The indexer is killed: a new decoder object, the helper sees end of file.
Crash ==
    /\ block # None
    /\ block' = None
    /\ retry_at' = 0 /\ request_number' = 0
    /\ process' = 0 /\ alive' = alive \ {process}
    /\ input' = <<>> /\ output' = <<>> /\ buffer' = <<>>
    /\ call' = Idle
    /\ UNCHANGED <<now, starts, stored, heights>>

Next ==
    \/ parse_block \/ ParseUnreadable \/ ParseDecode \/ ParseDecoded
    \/ parse_height \/ backfill_height \/ Crash
    \/ (DecodeStep \/ Close \/ HelperStep \/ Tick) /\ UNCHANGED parserVars

Spec == Init /\ [][Next]_vars

-----------------------------------------------------------------------------
(* Properties.                                                             *)

Rows == IF block # None THEN block.rows ELSE IF stored # None THEN stored.rows ELSE <<>>

\* decode, normalize_summary and parse_tx never give a transaction the summary
\* of another one: not when the helper answers twice, answers after the
\* deadline, dies or is restarted, and not when the indexer restarts and
\* numbers requests anew.  A summary that leaves out a message the helper sent
\* or counted says so, and is within the size limit.
SummaryIsOwn ==
    /\ \A i \in DOMAIN Rows :
         LET r == Rows[i] IN r.sent # None =>
            /\ r.sent.of = r.tx
            /\ \/ r.summary.truncated
               \/ r.summary.shown = Len(r.sent.sent.sizes)
                  /\ r.summary.count \in {None, r.summary.shown}
            /\ r.summary.bytes <= MaxBytes
    /\ block # None => \A i \in DOMAIN Rows :
          Rows[i].tx = IF block.txs[i] = NotBase64 THEN None ELSE block.txs[i]

\* close and _fail leave no helper behind: between calls the only process
\* that may still run is the one the decoder would use next.
NoStrayHelper == call.phase \in {"idle", "done"} => alive \subseteq {process}

\* A validator is recorded as having signed exactly when its one precommit
\* endorses the committed block with a usable signature (classify_votes), and
\* the stored results are the stored block's, one per transaction, also when
\* they were filled in later (backfill_height).
VotesAndResultsFit ==
    stored # None =>
      /\ \A v \in Validators :
           stored.votes[v] = "commit" <=>
             \E i \in DOMAIN stored.precommits :
               /\ stored.precommits[i].id = "commit" /\ stored.precommits[i].sig
               /\ \A j \in DOMAIN stored.precommits : stored.precommits[j].addr = v <=> j = i
      /\ stored.resultsOf = "stored"
      /\ stored.results # None => Len(stored.results) = Len(stored.txs)
=============================================================================
