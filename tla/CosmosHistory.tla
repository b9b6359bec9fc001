---------------------------- MODULE CosmosHistory ----------------------------
(***************************************************************************)
(* A reader pages through the transaction history of a Cosmos chain        *)
(* (api/cosmos/transaction_endpoint_policy.py, service.py): each page is a *)
(* search of one window of heights below the height at which the reader    *)
(* started, by the first endpoint that returns rows; empty windows are     *)
(* skipped, a few per request.  The chain grows meanwhile, and endpoints   *)
(* fail, have no transaction index, an empty one, or one that has not yet  *)
(* reached the height the reader started at.  The shared cache is          *)
(* RequestCache.                                                           *)
(***************************************************************************)
EXTENDS Integers, Sequences, FiniteSets, SequencesExt, RowOrder

CONSTANTS
    TxsAt,         \* number of transactions of each height; its length is the last height
    HistoryWindow, \* _TX_HISTORY_WINDOW
    EmptyHops,     \* _TX_HISTORY_EMPTY_HOPS
    PageRows,      \* rows of a page
    MaxPage,       \* _TX_HISTORY_MAX_WINDOW_PAGE
    Endpoints,     \* 1..n: REST endpoints in the order of their latency
    Indexed,       \* those that have indexed the chain; the others' index is empty
    MaxLag,        \* max_height_lag: how far the index of a fresh endpoint may be behind
    SuspectTime,   \* _TX_SUSPECT_SECONDS
    MaxNow         \* bound: monotonic clock

Lower(upper) == IF upper - HistoryWindow + 1 > 1 THEN upper - HistoryWindow + 1 ELSE 1

\* The transactions of heights lower..upper, by height and index.
TxsOf(lower, upper) == UNION {{h} \X (1..TxsAt[h]) : h \in lower..upper}

ASSUME HistoryAssumption ==
    /\ TxsAt \in Seq(Nat) /\ TxsAt # <<>>
    /\ {HistoryWindow, EmptyHops, PageRows, MaxPage} \subseteq Nat \ {0}
    /\ \A h \in DOMAIN TxsAt :                                 \* a window fits in its pages
         Cardinality(TxsOf(Lower(h), h)) <= MaxPage * PageRows
    /\ Indexed \subseteq Endpoints /\ Endpoints \subseteq Nat /\ {MaxLag, SuspectTime, MaxNow} \subseteq Nat

VARIABLES
    tip,           \* height of the chain
    time,
    suspect,       \* endpoint -> until when it is asked last (_tx_operation_suspect_until)
    page,          \* what the reader sees
    req,           \* the request for another page, or Quiet
    shown,         \* the rows seen, page after older page
    misled         \* a search on the way did not show what the window holds

historyVars == <<tip, time, suspect, page, req, shown, misled>>

NoCursor == [upper |-> 0, page |-> 0]
Cursor(upper, n) == [upper |-> upper, page |-> n]
Blank == [state |-> "none", anchor |-> 0, start |-> NoCursor, at |-> NoCursor,
          older |-> NoCursor, newer |-> NoCursor]
Quiet == [busy |-> FALSE, anchor |-> 0, start |-> NoCursor, at |-> NoCursor, hop |-> 0, live |-> FALSE]

HistoryInit ==
    /\ tip \in DOMAIN TxsAt /\ time = 0
    /\ suspect = [e \in Endpoints |-> 0]
    /\ page = Blank /\ req = Quiet /\ shown = <<>> /\ misled = FALSE

-----------------------------------------------------------------------------
(* The chain's index                                                       *)

\* The rows of a window, newest first (ORDER_BY_DESC).
Descending(lower, upper) == NewestFirst(TxsOf(lower, upper))

PageOf(rows, n) ==
    SubSeq(rows, (n - 1) * PageRows + 1, IF n * PageRows < Len(rows) THEN n * PageRows ELSE Len(rows))

-----------------------------------------------------------------------------
(* _operation_candidates, _tx_search_payload, _transaction_window          *)

Suspected(e) == suspect[e] > time

\* Endpoints that are suspected come last; otherwise the order is kept.
AskedBefore(e, f) == (~Suspected(e) /\ Suspected(f)) \/ (Suspected(e) = Suspected(f) /\ e < f)

\* What an endpoint returns for a search: rows, an error that says there is no
\* index, or nothing usable.  A total may be missing; lag is how far behind the
\* chain the index is that the rows come from.
Replies == [kind : {"rows"}, total : BOOLEAN, lag : 0..MaxLag]
             \cup [kind : {"no index", "failed"}, total : {FALSE}, lag : {0}]

\* What the index an endpoint answers from has of a window.
Shows(reply, e, upper) ==
    IF e \in Indexed
      THEN Descending(Lower(upper), IF upper <= tip - reply[e].lag THEN upper ELSE tip - reply[e].lag)
      ELSE <<>>

RowsFrom(reply, e, upper, n) == PageOf(Shows(reply, e, upper), n)

\* The outcome of a search, given every endpoint's reply: the first that has
\* rows, then the first that is empty.
Found(reply, upper, n) ==
    {e \in Endpoints : reply[e].kind = "rows" /\ RowsFrom(reply, e, upper, n) # <<>>}
Empty(reply, upper, n) ==
    {e \in Endpoints : reply[e].kind = "rows" /\ RowsFrom(reply, e, upper, n) = <<>>}
FirstOf(es) == CHOOSE e \in es : \A f \in es \ {e} : AskedBefore(e, f)

Search(reply, upper, n) ==
    LET found == Found(reply, upper, n)
        empty == Empty(reply, upper, n)
    IN  IF found # {} THEN
            [state |-> "available", rows |-> RowsFrom(reply, FirstOf(found), upper, n),
             total |-> IF reply[FirstOf(found)].total
                         THEN Len(Shows(reply, FirstOf(found), upper)) ELSE -1]
        ELSE IF empty # {} THEN [state |-> "available", rows |-> <<>>, total |-> -1]
        ELSE IF \E e \in Endpoints : reply[e].kind = "no index"
               THEN [state |-> "indexing_unavailable", rows |-> <<>>, total |-> -1]
        ELSE [state |-> "error", rows |-> <<>>, total |-> -1]

\* _mark_operation_suspect and _clear_operation_suspect: endpoints asked before
\* the one with rows lose their place if they were empty or have no index.
Asked(reply, upper, n, e) ==
    Found(reply, upper, n) # {} => e = FirstOf(Found(reply, upper, n)) \/ AskedBefore(e, FirstOf(Found(reply, upper, n)))

Suspects(reply, upper, n) ==
    LET found == Found(reply, upper, n) IN
    [e \in Endpoints |->
        IF found # {} /\ e = FirstOf(found) THEN 0
        ELSE IF Asked(reply, upper, n, e)
                /\ (reply[e].kind = "no index" \/ (found # {} /\ e \in Empty(reply, upper, n)))
               THEN time + SuspectTime
        ELSE suspect[e]]

\* No endpoint that knows the rows of the window gave them, or the one that
\* answered has not indexed the whole window yet.
Misleads(reply, upper, n) ==
    LET whole == Descending(Lower(upper), upper)
        found == Found(reply, upper, n)
    IN  IF found = {} THEN PageOf(whole, n) # <<>>
        ELSE Shows(reply, FirstOf(found), upper) # whole

-----------------------------------------------------------------------------
(* _transaction_history_uncached                                           *)

MoreInWindow(at, result) ==
    /\ result.rows # <<>> /\ at.page < MaxPage
    /\ IF result.total >= 0 THEN at.page * PageRows < result.total ELSE Len(result.rows) = PageRows

\* Mutant: the next window starts with the lowest height of this one.
OlderInclusive(at, result) ==
    IF MoreInWindow(at, result) THEN Cursor(at.upper, at.page + 1)
    ELSE IF Lower(at.upper) > 1 THEN Cursor(Lower(at.upper), 1) ELSE NoCursor

OlderCursor(at, result) ==
    IF MoreInWindow(at, result) THEN Cursor(at.upper, at.page + 1)
    ELSE IF Lower(at.upper) > 1 THEN Cursor(Lower(at.upper) - 1, 1) ELSE NoCursor

\* service.py, _newer_history_cursor: one page or one window towards the
\* anchor; none means back to the live page.
NewerCursor(anchor, at) ==
    IF at.page > 1
      THEN IF at.upper = anchor /\ at.page = 2 THEN NoCursor ELSE Cursor(at.upper, at.page - 1)
      ELSE IF at.upper >= anchor \/ at.upper + HistoryWindow >= anchor THEN NoCursor
           ELSE Cursor(at.upper + HistoryWindow, 1)

\* start is where the reader's walk down began.
AskPage(anchor, start, at, live) ==
    /\ ~req.busy
    /\ req' = [busy |-> TRUE, anchor |-> anchor, start |-> start, at |-> at, hop |-> 1, live |-> live]
    /\ UNCHANGED <<tip, time, suspect>>

\* The live page, anchored at the chain's height (node_status); an anchor below
\* it is this one followed by NewBlock.
OpenLive ==
    /\ page.state # "available"
    /\ AskPage(tip, Cursor(tip, 1), Cursor(tip, 1), TRUE)
    /\ page' = Blank /\ shown' = <<>> /\ misled' = FALSE

FollowOlder ==
    /\ page.state = "available" /\ page.older # NoCursor
    /\ AskPage(page.anchor, page.start, page.older, FALSE)
    /\ UNCHANGED <<page, shown, misled>>

\* A newer page, from where the walk down starts anew, or the live one.
FollowNewer ==
    /\ ~req.busy /\ page.state = "available" /\ page.at # page.start
    /\ page' = Blank /\ shown' = <<>> /\ misled' = FALSE
    /\ IF page.newer = NoCursor THEN UNCHANGED <<tip, time, suspect, req>>
       ELSE AskPage(page.anchor, page.newer, page.newer, FALSE)

\* One window: an empty one leads to the next below it, at most EmptyHops per
\* request; an error leaves the reader where he is.
SearchWindow ==
    /\ req.busy
    /\ \E reply \in [Endpoints -> Replies] :
         LET at == req.at
             result == Search(reply, at.upper, at.page)
         IN  /\ suspect' = Suspects(reply, at.upper, at.page)
             /\ misled' = (misled \/ (result.state = "available" /\ Misleads(reply, at.upper, at.page)))
             /\ IF result.state = "error" THEN req' = Quiet /\ UNCHANGED <<page, shown>>
                ELSE IF /\ result.state = "available" /\ result.rows = <<>>
                        /\ Lower(at.upper) > 1 /\ req.hop < EmptyHops
                  THEN /\ req' = [req EXCEPT !.at = Cursor(Lower(at.upper) - 1, 1), !.hop = @ + 1]
                       /\ UNCHANGED <<page, shown>>
                  ELSE /\ req' = Quiet
                       /\ shown' = shown \o result.rows
                       /\ page' = [state |-> result.state, anchor |-> req.anchor,
                            start |-> req.start, at |-> at,
                            older |-> IF result.state = "available"
                                        THEN OlderCursor(at, result) ELSE NoCursor,
                            newer |-> IF req.live THEN NoCursor ELSE NewerCursor(req.anchor, at)]
    /\ UNCHANGED <<tip, time>>

NewBlock ==
    /\ tip < Len(TxsAt) /\ tip' = tip + 1
    /\ UNCHANGED <<time, suspect, page, req, shown, misled>>

TimePasses ==
    /\ time < MaxNow /\ time' = time + 1
    /\ UNCHANGED <<tip, suspect, page, req, shown, misled>>

HistoryNext == OpenLive \/ FollowOlder \/ FollowNewer \/ SearchWindow \/ NewBlock \/ TimePasses

HistorySpec == HistoryInit /\ [][HistoryNext]_historyVars

-----------------------------------------------------------------------------
\* Following older cursors from the first page shows every transaction below
\* it once, newest first, whatever endpoint answers each page and however far
\* the chain has grown, down to the end of the history: unless every endpoint
\* that has the rows of a window failed to give them, or a page was answered
\* from an index that had not reached its window's end, whose missing rows
\* then shift the walk although its anchor is frozen (transaction_history,
\* adapter._candidates).
HistoryComplete ==
    page.state = "available" /\ ~misled =>
      LET below == Descending(1, page.start.upper)
          all == SubSeq(below, (page.start.page - 1) * PageRows + 1, Len(below))
      IN  /\ IsPrefix(shown, all)
          /\ page.older = NoCursor => shown = all
=============================================================================
