---------------------------- MODULE CosmosSigning ----------------------------
(***************************************************************************)
(* The signing strips of the Cosmos validator page: for each active        *)
(* validator the last heights and whether it signed them.  A request for   *)
(* the page (service_core.py, validators) starts a warm-up task when none  *)
(* is running; the task (_warm_signing) reads the new blocks, appends one  *)
(* point per height and validator to the strips all requests share, and    *)
(* trims them at its end.  asyncio runs a task until it awaits a request.  *)
(***************************************************************************)
EXTENDS Integers, Sequences, FiniteSets

CONSTANTS
    Signers,      \* consensus addresses
    SignersAt,    \* height -> validators of the consensus set, which stands for its hash
    SignedAt,     \* height -> what each of them did: "commit", "nil" or "absent"
    Points,       \* 50: length of a strip
    SetCache,     \* 64: validator sets remembered
    TaskIds

ASSUME SigningAssumption ==
    /\ SignersAt \in Seq(SUBSET Signers) /\ Len(SignedAt) = Len(SignersAt)
    /\ \A h \in DOMAIN SignersAt : SignersAt[h] # {} /\ SignedAt[h] \in [SignersAt[h] -> {"commit", "nil", "absent"}]
    /\ {Points, SetCache} \subseteq Nat \ {0} /\ 0 \notin TaskIds

VARIABLES
    signingHeight,   \* _signing_height
    strip,           \* _signing_strip: validator -> sequence of points
    blocks,          \* _signing_blocks: heights read
    lost,            \* those of them that no endpoint had (None)
    sets,            \* _validator_sets_by_hash, oldest first
    task,            \* the warm-up tasks
    warmup           \* _signing_warmup: the last one started, 0 before the first

signingVars == <<signingHeight, strip, blocks, lost, sets, task, warmup>>

ChainHeights == DOMAIN SignersAt
Done == [pc |-> "done", active |-> {}, from |-> 0, to |-> 0, at |-> 0]

SigningInit ==
    /\ signingHeight = 0
    /\ strip = [v \in Signers |-> <<>>]
    /\ blocks = {} /\ lost = {} /\ sets = <<>>
    /\ task = [t \in TaskIds |-> Done] /\ warmup = 0

-----------------------------------------------------------------------------

Greatest(a, b) == IF a > b THEN a ELSE b

\* signing_height_range: at most Points heights below the head.
FirstHeight(previous, head) == Greatest(1, Greatest(previous + 1, head - Points))
LastHeight(head) == head - 1

\* A task that is past its last await runs on before anything else does.
Running(t) == task[t].pc = "aggregate"
Suspended == \A t \in TaskIds : ~Running(t)

\* Mutant: a request starts a warm-up beside the running one.
WarmupIgnored == TRUE

\* validators: the previous warm-up has ended.
WarmupDone == warmup # 0 => task[warmup].pc = "done"

\* validators: the page is requested; the head is what an endpoint reports.
RequestValidators(active, head) ==
    /\ Suspended
    /\ WarmupDone
    /\ signingHeight < head - 1
    /\ \E t \in TaskIds :
         /\ task[t].pc = "done"
         /\ task' = [task EXCEPT ![t] =
              [pc |-> "start", active |-> active, from |-> head, to |-> head, at |-> head]]
         /\ warmup' = t
    /\ UNCHANGED <<signingHeight, strip, blocks, lost, sets>>

\* _warm_signing up to its first await: a gap forgets what was collected.
Start(t) ==
    /\ Suspended /\ task[t].pc = "start"
    /\ LET from == FirstHeight(signingHeight, task[t].to)
           to == LastHeight(task[t].to)
       IN  IF signingHeight >= to
             THEN /\ task' = [task EXCEPT ![t] = Done]
                  /\ UNCHANGED <<strip, blocks, lost>>
             ELSE /\ task' = [task EXCEPT ![t].pc = "candidates", ![t].from = from,
                                          ![t].to = to, ![t].at = from]
                  /\ IF signingHeight = 0 \/ from > signingHeight + 1
                       THEN strip' = [v \in Signers |-> <<>>] /\ blocks' = {} /\ lost' = {}
                       ELSE UNCHANGED <<strip, blocks, lost>>
    /\ UNCHANGED <<signingHeight, sets, warmup>>

\* No candidate endpoint: the task ends with an error nobody awaits.
Candidates(t) ==
    /\ Suspended /\ task[t].pc = "candidates"
    /\ \/ task' = [task EXCEPT ![t].pc = "blocks"]
       \/ task' = [task EXCEPT ![t] = Done]
    /\ UNCHANGED <<signingHeight, strip, blocks, lost, sets, warmup>>

\* One block up to the successor of the last height; a height once read, or
\* once lost, is not read again.
ReadBlock(t) ==
    /\ Suspended /\ task[t].pc = "blocks"
    /\ LET unread == (task[t].from..(task[t].to + 1)) \ blocks IN
       IF unread = {}
         THEN /\ task' = [task EXCEPT ![t].pc = "aggregate"]
              /\ UNCHANGED <<blocks, lost>>
         ELSE LET h == CHOOSE x \in unread : \A y \in unread : x <= y IN
              /\ blocks' = blocks \cup {h}
              /\ lost' \in {lost, lost \cup {h}}
              /\ UNCHANGED task
    /\ UNCHANGED <<signingHeight, strip, sets, warmup>>

-----------------------------------------------------------------------------
(* aggregate_commit, for one height                                        *)

\* The commit of a height is in its successor.
Readable(h) == {h, h + 1} \subseteq blocks \ lost

\* normalize_commit_participation; an active validator that is not in the set
\* of the height is unknown.
Status(h, known, v) ==
    IF Readable(h) /\ known /\ v \in SignersAt[h] THEN SignedAt[h][v] ELSE "unknown"

Append1(t, known) ==
    LET h == task[t].at IN
    strip' = [v \in Signers |->
                IF v \in task[t].active
                  THEN Append(strip[v], [height |-> h, status |-> Status(h, known, v)])
                  ELSE strip[v]]

Remembered(hash) == \E i \in DOMAIN sets : sets[i] = hash

\* A height whose block is lost, or whose validator set is remembered, needs
\* no request.
Aggregate(t) ==
    /\ task[t].pc = "aggregate" /\ task[t].at <= task[t].to
    /\ IF Readable(task[t].at) /\ ~Remembered(SignersAt[task[t].at])
         THEN task' = [task EXCEPT ![t].pc = "set"] /\ UNCHANGED strip
         ELSE /\ Append1(t, Readable(task[t].at))
              /\ task' = [task EXCEPT ![t].at = @ + 1]
    /\ UNCHANGED <<signingHeight, blocks, lost, sets, warmup>>

\* _validator_set_for_hash: the set arrives, or no endpoint has it.
ReadSet(t) ==
    /\ Suspended /\ task[t].pc = "set"
    /\ \E known \in BOOLEAN :
         /\ Append1(t, known)
         /\ sets' = IF ~known \/ Remembered(SignersAt[task[t].at]) THEN sets
                    ELSE IF Len(sets) = SetCache THEN Append(Tail(sets), SignersAt[task[t].at])
                    ELSE Append(sets, SignersAt[task[t].at])
    /\ task' = [task EXCEPT ![t].pc = "aggregate", ![t].at = @ + 1]
    /\ UNCHANGED <<signingHeight, blocks, lost, warmup>>

Newest(points) ==
    SubSeq(points, Greatest(1, Len(points) - Points + 1), Len(points))

\* The end of the task.
Trim(t) ==
    /\ task[t].pc = "aggregate" /\ task[t].at > task[t].to
    /\ strip' = [v \in Signers |-> IF v \in task[t].active THEN Newest(strip[v]) ELSE strip[v]]
    /\ blocks' = {h \in blocks : h >= task[t].to - Points + 1}
    /\ lost' = lost \cap blocks'
    /\ signingHeight' = task[t].to
    /\ task' = [task EXCEPT ![t] = Done]
    /\ UNCHANGED <<sets, warmup>>

SigningNext ==
    \/ \E active \in SUBSET Signers, head \in ChainHeights : RequestValidators(active, head)
    \/ \E t \in TaskIds : Start(t) \/ Candidates(t) \/ ReadBlock(t) \/ Aggregate(t) \/ ReadSet(t) \/ Trim(t)

SigningSpec == SigningInit /\ [][SigningNext]_signingVars

-----------------------------------------------------------------------------

\* What a request can see of the strips at any await: each validator's heights
\* ascend without repetition, every status other than unknown is what the
\* validator did at that height, and between warm-ups no strip is longer than
\* the page allows nor ahead of the height the next warm-up starts after.
StripSound ==
    \A v \in Signers :
      /\ \A i \in DOMAIN strip[v] :
           LET p == strip[v][i] IN
           /\ i > 1 => strip[v][i - 1].height < p.height
           /\ p.status # "unknown" => v \in SignersAt[p.height] /\ p.status = SignedAt[p.height][v]
      /\ (\A t \in TaskIds : task[t].pc = "done") =>
           /\ Len(strip[v]) <= Points
           /\ strip[v] # <<>> => strip[v][Len(strip[v])].height <= signingHeight

\* schemas.py declares signing_strip with max_length=50, and validators hands
\* the shared strips to that schema whenever a request runs.
StripFits == Suspended => \A v \in Signers : Len(strip[v]) <= Points
=============================================================================
