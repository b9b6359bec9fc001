----------------------------- MODULE RpcSessions -----------------------------
(***************************************************************************)
(* The HTTP sessions of one RPC client (inspect_rpc.py, GnoRpcClient):     *)
(* threads check a session out of a bounded pool, or wait for one that     *)
(* comes back, and close may be called meanwhile from any thread.          *)
(* _session_state_lock makes Checkout, Return and Close atomic; a waiting  *)
(* thread takes from the queue without it.                                 *)
(***************************************************************************)
EXTENDS Integers, FiniteSets

CONSTANTS
    Threads,
    Sessions,     \* sessions that can ever be opened (bound)
    MaxSessions   \* _SESSION_POOL_MAX_SIZE

ASSUME SessionsAssumption ==
    /\ MaxSessions \in Nat \ {0} /\ MaxSessions <= Cardinality(Sessions)
    /\ 0 \notin Sessions

VARIABLES
    idle,         \* _idle_sessions
    count,        \* _session_count
    closed,       \* _closed
    thread,       \* what each thread does, and with which session
    open          \* sessions opened and not yet closed

sessionVars == <<idle, count, closed, thread, open>>

Out == [pc |-> "out", session |-> 0]

SessionsInit ==
    /\ idle = {} /\ count = 0 /\ closed = FALSE /\ open = {}
    /\ thread = [t \in Threads |-> Out]

\* get: _check_open, then _checkout_session under the lock: an idle session,
\* a new one, or the way to wait for one.
Checkout(t) ==
    /\ thread[t].pc = "out" /\ ~closed
    /\ \/ \E s \in idle :
            /\ idle' = idle \ {s}
            /\ thread' = [thread EXCEPT ![t] = [pc |-> "request", session |-> s]]
            /\ UNCHANGED <<count, open>>
       \/ /\ idle = {} /\ count < MaxSessions
          /\ \E s \in Sessions \ open :
               /\ open' = open \cup {s}
               /\ thread' = [thread EXCEPT ![t] = [pc |-> "request", session |-> s]]
          /\ count' = count + 1
          /\ UNCHANGED idle
       \/ /\ idle = {} /\ count >= MaxSessions
          /\ thread' = [thread EXCEPT ![t].pc = "wait"]
          /\ UNCHANGED <<idle, count, open>>
    /\ UNCHANGED closed

\* The wait ends with a session, or with "pool exhausted".
WaitEnds(t) ==
    /\ thread[t].pc = "wait"
    /\ \/ \E s \in idle :
            /\ idle' = idle \ {s}
            /\ thread' = [thread EXCEPT ![t] = [pc |-> "request", session |-> s]]
       \/ thread' = [thread EXCEPT ![t] = Out] /\ UNCHANGED idle
    /\ UNCHANGED <<count, closed, open>>

\* The request ends, in whatever way; _return_session clears the cookies first.
Respond(t) ==
    /\ thread[t].pc = "request"
    /\ \E pc \in {"return", "broken"} : thread' = [thread EXCEPT ![t].pc = pc]
    /\ UNCHANGED <<idle, count, closed, open>>

\* Mutant: a session is put back after close.
ReturnAlways(t) ==
    /\ thread[t].pc = "return"
    /\ idle' = idle \cup {thread[t].session}
    /\ thread' = [thread EXCEPT ![t] = Out]
    /\ UNCHANGED <<count, closed, open>>

Return(t) ==
    /\ thread[t].pc = "return"
    /\ IF closed
         THEN /\ count' = count - 1
              /\ thread' = [thread EXCEPT ![t].pc = "close"]
              /\ UNCHANGED idle
         ELSE /\ idle' = idle \cup {thread[t].session}
              /\ thread' = [thread EXCEPT ![t] = Out]
              /\ UNCHANGED count
    /\ UNCHANGED <<closed, open>>

\* Cookies that cannot be cleared: the session is not used again.
Discard(t) ==
    /\ thread[t].pc = "broken"
    /\ count' = count - 1
    /\ thread' = [thread EXCEPT ![t].pc = "close"]
    /\ UNCHANGED <<idle, closed, open>>

CloseSession(t) ==
    /\ thread[t].pc = "close"
    /\ open' = open \ {thread[t].session}
    /\ thread' = [thread EXCEPT ![t] = Out]
    /\ UNCHANGED <<idle, count, closed>>

\* close: the idle sessions now, those in use when they come back.
CloseClient ==
    /\ ~closed /\ closed' = TRUE
    /\ count' = count - Cardinality(idle)
    /\ open' = open \ idle
    /\ idle' = {}
    /\ UNCHANGED thread

SessionsNext ==
    \/ \E t \in Threads : Checkout(t) \/ WaitEnds(t) \/ Respond(t) \/ Return(t)
                          \/ Discard(t) \/ CloseSession(t)
    \/ CloseClient

SessionsSpec == SessionsInit /\ [][SessionsNext]_sessionVars

-----------------------------------------------------------------------------

InUse == {thread[t].session : t \in {u \in Threads : thread[u].pc \in {"request", "return", "broken"}}}

\* The pool neither leaks nor shares a session: what is counted is what is
\* idle or in use, never more than the pool's size; no two threads have the
\* same session; and a closed client keeps none, so that once its threads have
\* come back every session it ever opened is closed.
SessionsSound ==
    /\ count = Cardinality(idle) + Cardinality(InUse) /\ count <= MaxSessions
    /\ idle \cap InUse = {}
    /\ \A t, u \in Threads :
         t # u /\ thread[t].session # 0 => thread[t].session # thread[u].session
    /\ closed => idle = {}
    /\ closed /\ (\A t \in Threads : thread[t].pc = "out") => open = {} /\ count = 0
=============================================================================
