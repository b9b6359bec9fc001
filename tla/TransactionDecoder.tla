------------------------- MODULE TransactionDecoder -------------------------
(***************************************************************************)
(* The client of the external transaction decoder                          *)
(* (indexer/transaction_decoder.py) and the normalisation of what it       *)
(* answers (indexer/transaction_summary.py).                               *)
(*                                                                         *)
(* The helper is a child process that reads one request per line and       *)
(* writes answers.  It may be slow, repeat an answer, write garbage or     *)
(* die; the client must neither mix up answers nor collect processes.  A   *)
(* line is the unit of both pipes: part of a line in the buffer and the    *)
(* same bytes still in the pipe are one state to the client.               *)
(***************************************************************************)
EXTENDS Integers, Sequences, FiniteSets, SequencesExt

CONSTANTS
    Txs,             \* raw transactions within the request limits
    TooLarge,        \* one over MAX_DECODED_BYTES or MAX_REQUEST_BYTES
    Candidates,      \* summaries the helper may send, see Summary below
    Timeout,         \* timeout_seconds
    Backoff,         \* restart_backoff_seconds
    MaxMessages,     \* MAX_MESSAGES
    MaxBytes,        \* MAX_SUMMARY_BYTES
    MaxTime,         \* bound: the clock stops here
    MaxRequests,     \* bound: requests of one decoder object
    MaxStarts,       \* bound: helper processes started
    None

ASSUME DecoderAssumption ==
    /\ {Timeout, Backoff, MaxMessages, MaxBytes, MaxTime, MaxRequests, MaxStarts} \subseteq Nat
    /\ {None, TooLarge} \cap (Txs \cup Int) = {} /\ None # TooLarge
    /\ Candidates \subseteq
         [valid : BOOLEAN, status : STRING, family : STRING, count : Nat \cup {None},
          sizes : Seq(Nat), base : Nat, truncated : BOOLEAN]

VARIABLES
    now,             \* time.monotonic()
    retry_at,        \* no helper is started before this time
    request_number,  \* requests numbered so far, never reset by a failure
    process,         \* the helper in use, 0: none
    starts,          \* helpers started so far: the last process id
    alive,           \* helper processes that have not exited
    input,           \* requests written to the helper and not yet read
    output,          \* lines the helper wrote and the client has not read
    buffer,          \* _response_buffer
    call             \* the decode call in progress and, at the end, its result

decoderVars == <<now, retry_at, request_number, process, starts, alive,
                 input, output, buffer, call>>

Idle == [phase |-> "idle"]

DecoderInit ==
    /\ now = 0 /\ retry_at = 0 /\ request_number = 0
    /\ process = 0 /\ starts = 0 /\ alive = {}
    /\ input = <<>> /\ output = <<>> /\ buffer = <<>>
    /\ call = Idle

-----------------------------------------------------------------------------
(* Summaries.  A candidate is what the helper sent: valid (shape, versions *)
(* and every message field acceptable), its status and chain family, the   *)
(* message count or None, the size of each message, the size of the rest   *)
(* and the truncation flag.  A normalised summary keeps how many messages  *)
(* are shown.                                                              *)

generic_summary(status) ==
    [status |-> status, family |-> "unknown", count |-> None,
     shown |-> 0, bytes |-> 0, truncated |-> FALSE]

SumOf(sizes, k) == FoldLeft(LAMBDA a, b : a + b, 0, SubSeq(sizes, 1, k))

\* The number of messages left once the last ones have been dropped until
\* the summary fits; -1 when it does not fit without any.
FittingMessages(c, most) ==
    LET fits == {k \in 0..most : c.base + SumOf(c.sizes, k) <= MaxBytes}
    IN  IF fits = {} THEN -1 ELSE CHOOSE k \in fits : \A j \in fits : j <= k

normalize_summary(c) ==
    LET kept  == IF Len(c.sizes) <= MaxMessages THEN Len(c.sizes) ELSE MaxMessages
        shown == FittingMessages(c, kept)
    IN  IF \/ ~c.valid
           \/ c.count # None /\ c.count < Len(c.sizes)
           \/ shown = -1
          THEN generic_summary("unparsed")
          ELSE [status    |-> c.status,
                family    |-> c.family,
                count     |-> c.count,
                shown     |-> shown,
                bytes     |-> c.base + SumOf(c.sizes, shown),
                truncated |-> \/ c.truncated
                              \/ Len(c.sizes) > MaxMessages
                              \/ c.count # None /\ c.count > kept
                              \/ shown < kept]

\* None, the answer of a call that failed, is not a summary.
ASSUME SummaryAssumption == \A c \in Candidates : normalize_summary(c) # None

-----------------------------------------------------------------------------
(* Ending a call.                                                          *)

Return(summary, sent) ==
    call' = [phase |-> "done", tx |-> call.tx, summary |-> summary, sent |-> sent]

\* Mutant: the helper is forgotten and left running.
CloseHelperLeak ==
    /\ process' = 0
    /\ input' = <<>> /\ output' = <<>> /\ buffer' = <<>>
    /\ UNCHANGED alive

\* close(): forget the helper, drop what was buffered, make it exit.
CloseHelper ==
    /\ process' = 0
    /\ alive' = alive \ {process}
    /\ input' = <<>> /\ output' = <<>> /\ buffer' = <<>>

Fail ==
    /\ CloseHelper
    /\ retry_at' = now + Backoff
    /\ Return(None, None)
    /\ UNCHANGED <<now, request_number, starts>>

-----------------------------------------------------------------------------
(* decode.                                                                 *)

\* A call that ends before a request is numbered: a transaction over the
\* limits, or the backoff time not over.
DecodeRefused(tx) ==
    /\ call = Idle
    /\ tx = TooLarge \/ now < retry_at
    /\ call' = [phase |-> "done", tx |-> tx, summary |-> None, sent |-> None]
    /\ UNCHANGED <<now, retry_at, request_number, process, starts, alive,
                   input, output, buffer>>

DecodeBegin(tx) ==
    /\ call = Idle
    /\ tx # TooLarge
    /\ now >= retry_at
    /\ request_number < MaxRequests
    /\ request_number' = request_number + 1
    /\ call' = [phase |-> "start", tx |-> tx, id |-> request_number + 1, deadline |-> 0]
    /\ UNCHANGED <<now, retry_at, process, starts, alive, input, output, buffer>>

\* _ensure_process: reuse a live helper, start one when there is none.
ReuseHelper ==
    /\ call.phase = "start"
    /\ process # 0 /\ process \in alive
    /\ call' = [call EXCEPT !.phase = "write", !.deadline = now + Timeout]
    /\ UNCHANGED <<now, retry_at, request_number, process, starts, alive,
                   input, output, buffer>>

StartHelper ==
    /\ call.phase = "start"
    /\ process = 0
    /\ starts < MaxStarts
    /\ starts' = starts + 1
    /\ process' = starts + 1
    /\ alive' = alive \cup {starts + 1}
    /\ call' = [call EXCEPT !.phase = "write", !.deadline = now + Timeout]
    /\ UNCHANGED <<now, retry_at, request_number, input, output, buffer>>

\* The helper exited since the last call, or cannot be started.
HelperUnavailable ==
    /\ call.phase = "start"
    /\ process # 0 => process \notin alive
    /\ Fail

\* _write: the whole request is in the pipe before the deadline.
WriteRequest ==
    /\ call.phase = "write"
    /\ now < call.deadline
    /\ process \in alive
    /\ input' = Append(input, [id |-> call.id, tx |-> call.tx])
    /\ call' = [call EXCEPT !.phase = "read"]
    /\ UNCHANGED <<now, retry_at, request_number, process, starts, alive, output, buffer>>

BrokenPipe ==
    /\ call.phase = "write"
    /\ process \notin alive
    /\ Fail

\* _wait: the deadline passed while the client was blocked on a pipe.
TimedOut ==
    /\ \/ call.phase = "write"
       \/ call.phase = "read" /\ buffer = <<>>
    /\ now >= call.deadline
    /\ Fail

\* _read_line, one chunk: some of what the helper wrote.
ReadChunk ==
    /\ call.phase = "read"
    /\ buffer = <<>>
    /\ now < call.deadline
    /\ \E k \in 1..Len(output) :
          /\ buffer' = SubSeq(output, 1, k)
          /\ output' = SubSeq(output, k + 1, Len(output))
    /\ UNCHANGED <<now, retry_at, request_number, process, starts, alive, input, call>>

EndOfFile ==
    /\ call.phase = "read"
    /\ buffer = <<>> /\ output = <<>>
    /\ process \notin alive
    /\ Fail

\* Mutant: the id of the answer is not compared.
AcceptableAnyId(line) ==
    /\ line.kind = "summary"
    /\ LET s == normalize_summary(line.sent)
       IN  s.family = "gno" /\ s.status \in {"parsed", "unsupported"}

\* _validate_response on the first buffered line.
Acceptable(line) ==
    /\ line.kind = "summary"
    /\ line.id = call.id
    /\ LET s == normalize_summary(line.sent)
       IN  s.family = "gno" /\ s.status \in {"parsed", "unsupported"}

\* SAFE_ERROR_CODES: the helper could not decode this transaction.
Undecodable(line) == line.kind = "safe_error" /\ line.id = call.id

ValidateAnswer ==
    /\ call.phase = "read"
    /\ buffer # <<>>
    /\ LET line == Head(buffer)
       IN  \/ /\ Acceptable(line)
              /\ Return(normalize_summary(line.sent), line)
              /\ buffer' = Tail(buffer)
              /\ UNCHANGED <<now, retry_at, request_number, process, starts, alive,
                             input, output>>
           \/ /\ Undecodable(line)
              /\ Return(None, None)
              /\ buffer' = Tail(buffer)
              /\ UNCHANGED <<now, retry_at, request_number, process, starts, alive,
                             input, output>>
           \/ /\ ~Acceptable(line) /\ ~Undecodable(line)
              /\ Fail

Close ==
    /\ call = Idle
    /\ process # 0
    /\ CloseHelper
    /\ UNCHANGED <<now, retry_at, request_number, starts, call>>

-----------------------------------------------------------------------------
(* The helper and the clock.                                               *)

\* The helper answers the oldest request, once or twice: gno-tx-decoder answers
\* once, but the client starts whatever program it is configured with.  "bad"
\* is any line it cannot accept: oversized, not JSON, another protocol version,
\* an internal error.
HelperAnswers ==
    /\ process \in alive
    /\ input # <<>>
    /\ \E kind \in {"summary", "safe_error", "bad"}, sent \in Candidates, copies \in 1..2 :
          output' = output \o [i \in 1..copies |->
                      [id |-> Head(input).id, of |-> Head(input).tx, kind |-> kind,
                       sent |-> IF kind = "summary" THEN sent ELSE None]]
    /\ input' = Tail(input)
    /\ UNCHANGED <<now, retry_at, request_number, process, starts, alive, buffer, call>>

HelperDies ==
    /\ process \in alive
    /\ alive' = alive \ {process}
    /\ UNCHANGED <<now, retry_at, request_number, process, starts,
                   input, output, buffer, call>>

Tick ==
    /\ now < MaxTime
    /\ now' = now + 1
    /\ UNCHANGED <<retry_at, request_number, process, starts, alive,
                   input, output, buffer, call>>

DecodeStep ==
    \/ ReuseHelper \/ StartHelper \/ HelperUnavailable
    \/ WriteRequest \/ BrokenPipe \/ TimedOut
    \/ ReadChunk \/ EndOfFile \/ ValidateAnswer

HelperStep == HelperAnswers \/ HelperDies
=============================================================================
