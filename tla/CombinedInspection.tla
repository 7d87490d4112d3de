-------------------------- MODULE CombinedInspection --------------------------
(***************************************************************************)
(* The three inspection endpoints of the Vision API: one upload goes       *)
(* through PatchCore, through YOLO or through both in parallel, is decided *)
(* by policy, stored in one transaction and announced after the response.  *)
(*                                                                         *)
(* Handlers are coroutines of one event loop; inference and persistence    *)
(* run in a bounded thread pool, and each model runtime has a lock.  The   *)
(* database is external: a statement may fail, a commit may succeed, fail, *)
(* or succeed while its caller is told that it failed.                     *)
(***************************************************************************)
EXTENDS Naturals, Sequences, FiniteSets

CONSTANTS
    Requests,
    Kind,         \* Kind[r]: "patchcore", "known" or "combined", the endpoint of r
    PoolSize,     \* threads of the pool
    Free,         \* stands for the holder of a lock nobody holds
    MaxCrashes    \* bound on process crashes

Models == {"patchcore", "yolo"}

ASSUME CombinedInspectionAssumption ==
    /\ Kind \in [Requests -> {"patchcore", "known", "combined"}]
    /\ PoolSize \in Nat \ {0}
    /\ Free \notin Requests
    /\ MaxCrashes \in Nat

VARIABLES
    handler,      \* program counter of the coroutine
    branch,       \* branch[r][m]: what became of r's inference by model m
    lock,         \* _inference_lock of each runtime: its holder
    pool,         \* pool threads in use, by the request and the work they do
    session,      \* rows of each request flushed and not committed
    database,     \* rows of each request committed
    decision,     \* disposition of each request's decision row
    response,
    tasks,        \* background broadcasts not yet run
    announced,    \* broadcasts that ran, in order
    predictions,  \* smartfactory_predictions_total
    up, crashes

handlerVars  == <<handler, response, tasks, announced, predictions>>
inferVars    == <<branch, lock>>
dbVars       == <<session, database, decision>>
processVars  == <<up, crashes>>
vars == <<handlerVars, inferVars, pool, dbVars, processVars>>

\* The runtimes an endpoint calls, the rows it inserts in order, and the
\* channels it announces the result on, child events first.
ModelsOf(r) == CASE Kind[r] = "patchcore" -> {"patchcore"}
                 [] Kind[r] = "known" -> {"yolo"}
                 [] Kind[r] = "combined" -> Models

RowsOf(r) == CASE Kind[r] = "patchcore" -> <<"inspection">>
               [] Kind[r] = "known" -> <<"known">>
               [] Kind[r] = "combined" -> <<"inspection", "known", "correlation", "decision">>

Channels(r) == CASE Kind[r] = "patchcore" -> <<"inspection">>
                 [] Kind[r] = "known" -> <<"known">>
                 [] Kind[r] = "combined" -> <<"inspection", "known", "combined">>

Whole(r) == {RowsOf(r)[i] : i \in DOMAIN RowsOf(r)}

Idle == [m \in Models |-> "idle"]

Init ==
    /\ handler = [r \in Requests |-> "none"]
    /\ branch = [r \in Requests |-> Idle]
    /\ lock = [m \in Models |-> Free]
    /\ pool = {}
    /\ session = [r \in Requests |-> <<>>]
    /\ database = [r \in Requests |-> {}]
    /\ decision = [r \in Requests |-> "none"]
    /\ response = [r \in Requests |-> "none"]
    /\ tasks = [r \in Requests |-> <<>>]
    /\ announced = [r \in Requests |-> <<>>]
    /\ predictions = 0
    /\ up = TRUE
    /\ crashes = 0

Become(r, pc) == handler' = [handler EXCEPT ![r] = pc]

-----------------------------------------------------------------------------
(* Inference.                                                              *)

\* The handler decoded the upload and hands its branches to the thread pool.
Receive(r) ==
    /\ up
    /\ handler[r] = "none"
    /\ Become(r, "inferring")
    /\ branch' = [branch EXCEPT ![r] = [m \in Models |-> IF m \in ModelsOf(r) THEN "queued"
                                                         ELSE "idle"]]
    /\ UNCHANGED <<lock, pool, dbVars, response, tasks, announced, predictions, processVars>>

\* A thread of the pool starts to work on a branch.
StartBranch(r, m) ==
    /\ branch[r][m] = "queued"
    /\ Cardinality(pool) < PoolSize
    /\ pool' = pool \union {<<r, m>>}
    /\ branch' = [branch EXCEPT ![r][m] = "started"]
    /\ UNCHANGED <<lock, handlerVars, dbVars, processVars>>

\* predict() takes the runtime's lock, keeping its thread while it waits.
AcquireLock(r, m) ==
    /\ branch[r][m] = "started"
    /\ lock[m] = Free
    /\ lock' = [lock EXCEPT ![m] = r]
    /\ branch' = [branch EXCEPT ![r][m] = "running"]
    /\ UNCHANGED <<pool, handlerVars, dbVars, processVars>>

\* Mutant: a model that raises keeps its runtime's lock.
FinishBranchKeepsLock(r, m) ==
    /\ branch[r][m] = "running"
    /\ \E outcome \in {"positive", "negative", "failed"} :
          /\ branch' = [branch EXCEPT ![r][m] = outcome]
          /\ lock' = IF outcome = "failed" THEN lock ELSE [lock EXCEPT ![m] = Free]
    /\ pool' = pool \ {<<r, m>>}
    /\ UNCHANGED <<handlerVars, dbVars, processVars>>

\* The model finds something, finds nothing, or raises.
FinishBranch(r, m) ==
    /\ branch[r][m] = "running"
    /\ \E outcome \in {"positive", "negative", "failed"} :
          branch' = [branch EXCEPT ![r][m] = outcome]
    /\ lock' = [lock EXCEPT ![m] = Free]
    /\ pool' = pool \ {<<r, m>>}
    /\ UNCHANGED <<handlerVars, dbVars, processVars>>

\* Mutant: the first failure ends the wait, the other branch runs on.
BranchesEndedEarly(r) ==
    /\ handler[r] = "inferring"
    /\ \/ \A m \in ModelsOf(r) : branch[r][m] \in {"positive", "negative"}
       \/ \E m \in ModelsOf(r) : branch[r][m] = "failed"

\* gather() returns when every branch ended, also after one has failed.
BranchesEnded(r) ==
    /\ handler[r] = "inferring"
    /\ \A m \in ModelsOf(r) : branch[r][m] \in {"positive", "negative", "failed"}

\* An ApiError leaves the handler.
AnswerError(r) ==
    /\ Become(r, "answered")
    /\ response' = [response EXCEPT ![r] = "failed"]
    /\ UNCHANGED <<tasks, announced, predictions, inferVars, pool, dbVars, processVars>>

InferenceFails(r) ==
    /\ BranchesEnded(r)
    /\ \E m \in ModelsOf(r) : branch[r][m] = "failed"
    /\ AnswerError(r)

\* The provenance of a runtime is missing, or the evidence is no valid
\* decision input.
DecisionFails(r) ==
    /\ handler[r] = "decided"
    /\ AnswerError(r)

\* Mutant: the prediction is counted before it is stored.
CountAtInference(r) ==
    /\ BranchesEnded(r)
    /\ \A m \in ModelsOf(r) : branch[r][m] # "failed"
    /\ Become(r, "decided")
    /\ predictions' = predictions + 1
    /\ UNCHANGED <<response, tasks, announced, inferVars, pool, dbVars, processVars>>

InferenceSucceeds(r) ==
    /\ BranchesEnded(r)
    /\ \A m \in ModelsOf(r) : branch[r][m] # "failed"
    /\ Become(r, "decided")
    /\ UNCHANGED <<response, tasks, announced, predictions, inferVars, pool, dbVars, processVars>>

\* Mutant: a known defect alone passes.
DispositionAnomalyOnly(isAnomaly, hasKnownDefect) ==
    CASE ~isAnomaly -> "PASS"
      [] isAnomaly /\ ~hasKnownDefect -> "REVIEW"
      [] isAnomaly /\ hasKnownDefect -> "REJECT"

\* decide_manufacturing_inspection, Policy v1.
Disposition(isAnomaly, hasKnownDefect) ==
    CASE ~isAnomaly /\ ~hasKnownDefect -> "PASS"
      [] isAnomaly /\ ~hasKnownDefect -> "REVIEW"
      [] ~isAnomaly /\ hasKnownDefect -> "REVIEW"
      [] isAnomaly /\ hasKnownDefect -> "REJECT"

Positive(r, m) == branch[r][m] = "positive"

-----------------------------------------------------------------------------
(* Persistence: repository.create in a pool thread.                        *)

BeginInsert(r) ==
    /\ handler[r] = "decided"
    /\ Cardinality(pool) < PoolSize
    /\ pool' = pool \union {<<r, "insert">>}
    /\ Become(r, "inserting")
    /\ UNCHANGED <<response, tasks, announced, predictions, inferVars, dbVars, processVars>>

\* Mutant: each child aggregate commits on its own.
FlushAndCommit(r) ==
    /\ handler[r] = "inserting"
    /\ Len(session[r]) < Len(RowsOf(r))
    /\ LET rows == Append(session[r], RowsOf(r)[Len(session[r]) + 1]) IN
         /\ session' = [session EXCEPT ![r] = rows]
         /\ database' = [database EXCEPT ![r] = {rows[i] : i \in DOMAIN rows}]
    /\ UNCHANGED <<decision, handlerVars, inferVars, pool, processVars>>

\* Mutant: the rows that refer to the children go first.
FlushLinkFirst(r) ==
    /\ handler[r] = "inserting"
    /\ Len(session[r]) < Len(RowsOf(r))
    /\ session' = [session EXCEPT ![r] = Append(@, RowsOf(r)[Len(RowsOf(r)) - Len(@)])]
    /\ UNCHANGED <<database, decision, handlerVars, inferVars, pool, processVars>>

Flush(r) ==
    /\ handler[r] = "inserting"
    /\ Len(session[r]) < Len(RowsOf(r))
    /\ session' = [session EXCEPT ![r] = Append(@, RowsOf(r)[Len(@) + 1])]
    /\ UNCHANGED <<database, decision, handlerVars, inferVars, pool, processVars>>

\* The rows of the session become durable.
MakeDurable(r) ==
    /\ database' = [database EXCEPT ![r] = {session[r][i] : i \in DOMAIN session[r]}]
    /\ decision' = [decision EXCEPT ![r] =
                      IF Kind[r] = "combined"
                      THEN Disposition(Positive(r, "patchcore"), Positive(r, "yolo"))
                      ELSE "none"]
    /\ session' = [session EXCEPT ![r] = <<>>]

\* create() leaves its thread and the handler resumes.
LeaveThread(r, pc) ==
    /\ pool' = pool \ {<<r, "insert">>}
    /\ Become(r, pc)
    /\ UNCHANGED <<response, tasks, announced, predictions, inferVars, processVars>>

AllFlushed(r) == handler[r] = "inserting" /\ Len(session[r]) = Len(RowsOf(r))

Commit(r) ==
    /\ AllFlushed(r)
    /\ MakeDurable(r)
    /\ LeaveThread(r, "committed")

\* Mutant: the error is swallowed, the handler goes on as if it had committed.
RollbackUnreported(r) ==
    /\ handler[r] = "inserting"
    /\ session' = [session EXCEPT ![r] = <<>>]
    /\ UNCHANGED <<database, decision>>
    /\ LeaveThread(r, "committed")

\* A statement or the commit fails: rollback and PersistenceError.
Rollback(r) ==
    /\ handler[r] = "inserting"
    /\ session' = [session EXCEPT ![r] = <<>>]
    /\ UNCHANGED <<database, decision>>
    /\ LeaveThread(r, "failing")

\* The connection breaks after the server has committed: the driver raises,
\* the rollback has nothing to undo.
CommitUnacknowledged(r) ==
    /\ AllFlushed(r)
    /\ MakeDurable(r)
    /\ LeaveThread(r, "failing")

-----------------------------------------------------------------------------
(* Answer and announcement.                                                *)

AnswerFailure(r) ==
    /\ handler[r] = "failing"
    /\ AnswerError(r)

\* Schedule the broadcasts, count the prediction (not on the known-defect
\* endpoint) and answer.
AnswerSuccess(r) ==
    /\ handler[r] = "committed"
    /\ Become(r, "answered")
    /\ tasks' = [tasks EXCEPT ![r] = Channels(r)]
    /\ predictions' = IF Kind[r] = "known" THEN predictions ELSE predictions + 1
    /\ response' = [response EXCEPT ![r] = "ok"]
    /\ UNCHANGED <<announced, inferVars, pool, dbVars, processVars>>

\* The background tasks of a response run one after the other.
RunTask(r) ==
    /\ handler[r] = "answered"
    /\ tasks[r] # <<>>
    /\ announced' = [announced EXCEPT ![r] = Append(@, Head(tasks[r]))]
    /\ tasks' = [tasks EXCEPT ![r] = Tail(@)]
    /\ UNCHANGED <<handler, response, predictions, inferVars, pool, dbVars, processVars>>

-----------------------------------------------------------------------------
(* The process.                                                            *)

Working(r) == handler[r] \notin {"none", "answered", "lost"}

\* Everything in memory is gone; the database drops uncommitted rows.
Crash ==
    /\ up /\ crashes < MaxCrashes
    /\ up' = FALSE
    /\ crashes' = crashes + 1
    /\ handler' = [r \in Requests |-> IF Working(r) THEN "lost" ELSE handler[r]]
    /\ response' = [r \in Requests |-> IF Working(r) THEN "lost" ELSE response[r]]
    /\ branch' = [r \in Requests |-> Idle]
    /\ lock' = [m \in Models |-> Free]
    /\ pool' = {}
    /\ session' = [r \in Requests |-> <<>>]
    /\ tasks' = [r \in Requests |-> <<>>]
    /\ predictions' = 0
    /\ UNCHANGED <<announced, database, decision>>

Restart ==
    /\ ~up
    /\ up' = TRUE
    /\ UNCHANGED <<handlerVars, inferVars, pool, dbVars, crashes>>

-----------------------------------------------------------------------------

Proceed(r) ==
    \/ \E m \in Models : StartBranch(r, m) \/ AcquireLock(r, m) \/ FinishBranch(r, m)
    \/ InferenceFails(r) \/ InferenceSucceeds(r) \/ DecisionFails(r)
    \/ BeginInsert(r) \/ Flush(r) \/ Commit(r) \/ Rollback(r) \/ CommitUnacknowledged(r)
    \/ AnswerFailure(r) \/ AnswerSuccess(r) \/ RunTask(r)

Next ==
    \/ \E r \in Requests : Receive(r) \/ Proceed(r)
    \/ Crash \/ Restart

Spec == Init /\ [][Next]_vars

\* The event loop and the pool threads are scheduled, models and database
\* return, and the process is restarted.  Requests need not arrive.
FairSpec ==
    /\ Spec
    /\ \A r \in Requests : WF_vars(Proceed(r))
    /\ WF_vars(Restart)

-----------------------------------------------------------------------------
(* Safety.                                                                 *)

TypeOK ==
    /\ handler \in [Requests -> {"none", "inferring", "decided", "inserting", "committed",
                                 "failing", "answered", "lost"}]
    /\ branch \in [Requests -> [Models -> {"idle", "queued", "started", "running", "positive",
                                           "negative", "failed"}]]
    /\ lock \in [Models -> Requests \union {Free}]
    /\ pool \subseteq Requests \X (Models \union {"insert"})
    /\ \A r \in Requests : session[r] = SubSeq(RowsOf(r), 1, Len(session[r]))
    /\ \A r \in Requests : database[r] \subseteq Whole(r)
    /\ decision \in [Requests -> {"none", "PASS", "REVIEW", "REJECT"}]
    /\ response \in [Requests -> {"none", "ok", "failed", "lost"}]
    /\ predictions \in Nat
    /\ up \in BOOLEAN
    /\ crashes \in 0 .. MaxCrashes

\* No reader ever finds a correlation without its children, or a child of a
\* combined inspection without the rest: crash, failed statement and failed
\* commit leave all rows of a request or none.
WholeOrNothing == \A r \in Requests : database[r] \in {{}, Whole(r)}

\* Somebody who is told about an inspection, by the response or by an event
\* on any channel, finds it in the database; child events come first.
AnnouncedMeansDurable ==
    \A r \in Requests :
        /\ response[r] = "ok" \/ announced[r] # <<>> => database[r] = Whole(r)
        /\ announced[r] = SubSeq(Channels(r), 1, Len(announced[r]))

\* The durable disposition is REJECT for two independent pieces of evidence,
\* REVIEW for one and PASS for none, of this very request.
DecisionTellsEvidence ==
    \A r \in Requests :
        /\ decision[r] # "none" <=> "decision" \in database[r]
        /\ decision[r] # "none" /\ branch[r] # Idle =>
             decision[r] = LET evidence == Cardinality({m \in Models : Positive(r, m)})
                           IN  CASE evidence = 0 -> "PASS"
                                 [] evidence = 1 -> "REVIEW"
                                 [] evidence = 2 -> "REJECT"

\* Every pool thread in use works for a request that still waits for it, and
\* the holder of a runtime's lock is running on it: nothing leaks when a
\* model or the database fails.
NothingLeaks ==
    /\ \A t \in pool :
          IF t[2] = "insert" THEN handler[t[1]] = "inserting"
          ELSE branch[t[1]][t[2]] \in {"started", "running"} /\ handler[t[1]] = "inferring"
    /\ \A m \in Models : lock[m] # Free => branch[lock[m]][m] = "running"

\* smartfactory_predictions_total counts persisted predictions only.
CountsOnlyPersisted ==
    predictions <= Cardinality({r \in Requests : "inspection" \in database[r]})

-----------------------------------------------------------------------------
(* Liveness.                                                               *)

\* Pool threads and runtime locks cannot block each other for ever: every
\* request is answered unless its process dies.
EveryRequestAnswered ==
    \A r \in Requests : handler[r] = "inferring" ~> handler[r] \in {"answered", "lost"}

-----------------------------------------------------------------------------

Promise == INSTANCE InspectionPromise WITH
    durable <- {r \in Requests : database[r] = Whole(r)}

\* Atomic persistence, success only afterwards, announcement only after that.
ImplementsPromise == Promise!Spec

=============================================================================
