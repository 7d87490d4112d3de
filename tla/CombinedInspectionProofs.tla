----------------------- MODULE CombinedInspectionProofs -----------------------
(***************************************************************************)
(* The three endpoints, for any set of requests, any number of pool        *)
(* threads and any number of crashes.                                      *)
(*                                                                         *)
(* The argument: the rows of a session are a prefix of the rows of its     *)
(* endpoint, and only a session that holds all of them is committed.  A    *)
(* handler answers ok only past its commit, what is left to announce and   *)
(* what was announced are together the channels of the endpoint, and a     *)
(* branch is under way only while its handler waits for it.                *)
(*                                                                         *)
(* The last part is about progress: no cycle of waits, and a bound on the  *)
(* steps of a request.                                                     *)
(***************************************************************************)
EXTENDS CombinedInspection, SequenceTheorems, FiniteSetTheorems, TLAPS

Rows  == {"inspection", "known", "correlation", "decision"}
Names == {"inspection", "known", "combined"}

HandlerPcs == {"none", "inferring", "decided", "inserting", "committed", "failing", "answered",
               "lost"}
BranchPcs  == {"idle", "queued", "started", "running", "positive", "negative", "failed"}

\* The types of the sequences and of the sets of rows.
Typed ==
    /\ handler \in [Requests -> HandlerPcs]
    /\ branch \in [Requests -> [Models -> BranchPcs]]
    /\ session \in [Requests -> Seq(Rows)]
    /\ database \in [Requests -> SUBSET Rows]
    /\ tasks \in [Requests -> Seq(Names)]
    /\ announced \in [Requests -> Seq(Names)]
    /\ response \in [Requests -> {"none", "ok", "failed", "lost"}]
    /\ decision \in [Requests -> {"none", "PASS", "REVIEW", "REJECT"}]

\* What the coroutine's program counter says of its rows and of its answer.
HandlerShape ==
    \A r \in Requests :
        /\ handler[r] \in {"none", "inferring", "decided", "inserting"} => database[r] = {}
        /\ handler[r] = "committed" => database[r] = Whole(r)
        /\ handler[r] \notin {"answered", "lost"} => response[r] = "none"
        /\ response[r] = "ok" => database[r] = Whole(r)

\* A branch is under way only for a handler that waits for it.
BranchShape ==
    \A r \in Requests, m \in Models :
        branch[r][m] \in {"queued", "started", "running"} =>
            handler[r] = "inferring" /\ m \in ModelsOf(r)

\* A pool thread works for a handler that waits for it, and the holder of a runtime's
\* lock runs on it: NothingLeaks, request by request.
ThreadShape ==
    /\ pool \subseteq Requests \X (Models \cup {"insert"})
    /\ \A r \in Requests :
          /\ <<r, "insert">> \in pool => handler[r] = "inserting"
          /\ \A m \in Models : <<r, m>> \in pool =>
                branch[r][m] \in {"started", "running"} /\ handler[r] = "inferring"

LockShape ==
    /\ lock \in [Models -> Requests \cup {Free}]
    /\ \A r \in Requests, m \in Models : lock[m] = r => branch[r][m] = "running"

\* What was announced and what is left are the channels of an answered request.
TasksShape ==
    \A r \in Requests :
        /\ tasks[r] # <<>> \/ announced[r] # <<>> => response[r] = "ok"
        /\ Len(announced[r]) <= Len(Channels(r))
        /\ tasks[r] # <<>> =>
              /\ Len(announced[r]) + Len(tasks[r]) = Len(Channels(r))
              /\ \A i \in 1 .. Len(tasks[r]) : tasks[r][i] = Channels(r)[Len(announced[r]) + i]

\* A session holds the first rows of its endpoint, in the order of create().
SessionShape ==
    \A r \in Requests :
        /\ Len(session[r]) <= Len(RowsOf(r))
        /\ \A i \in 1 .. Len(session[r]) : session[r][i] = RowsOf(r)[i]

\* What was announced are the first channels of the endpoint.
AnnouncedShape ==
    \A r \in Requests :
        \A i \in 1 .. Len(announced[r]) : announced[r][i] = Channels(r)[i]

InspectionInv ==
    /\ Typed
    /\ HandlerShape
    /\ BranchShape
    /\ ThreadShape
    /\ LockShape
    /\ SessionShape
    /\ TasksShape
    /\ AnnouncedShape
    /\ WholeOrNothing

-----------------------------------------------------------------------------
\* The rows and the channels of each endpoint.
LEMMA EndpointFacts ==
    ASSUME NEW r \in Requests
    PROVE  /\ RowsOf(r) \in Seq(Rows) /\ Len(RowsOf(r)) \in Nat \ {0}
           /\ DOMAIN RowsOf(r) = 1 .. Len(RowsOf(r))
           /\ Channels(r) \in Seq(Names) /\ Len(Channels(r)) \in Nat \ {0}
           /\ Whole(r) \subseteq Rows /\ Whole(r) # {}
           /\ "inspection" \in Whole(r) <=> Kind[r] # "known"
           /\ "decision" \in Whole(r) <=> Kind[r] = "combined"
<1>1. Kind[r] \in {"patchcore", "known", "combined"}
  BY CombinedInspectionAssumption
<1>2. CASE Kind[r] = "patchcore"
  <2>1. RowsOf(r) = <<"inspection">> /\ Channels(r) = <<"inspection">>
    BY <1>2 DEF RowsOf, Channels
  <2>2. Whole(r) = {"inspection"}
    BY <2>1 DEF Whole
  <2> QED  BY <1>2, <2>1, <2>2 DEF Rows, Names
<1>3. CASE Kind[r] = "known"
  <2>1. RowsOf(r) = <<"known">> /\ Channels(r) = <<"known">>
    BY <1>3 DEF RowsOf, Channels
  <2>2. Whole(r) = {"known"}
    BY <2>1 DEF Whole
  <2> QED  BY <1>3, <2>1, <2>2 DEF Rows, Names
<1>4. CASE Kind[r] = "combined"
  <2>1. /\ RowsOf(r) = <<"inspection", "known", "correlation", "decision">>
        /\ Channels(r) = <<"inspection", "known", "combined">>
    BY <1>4 DEF RowsOf, Channels
  <2>2. Whole(r) = Rows
    <3>1. DOMAIN RowsOf(r) = 1 .. 4
      BY <2>1
    <3>2. 1 .. 4 = {1, 2, 3, 4}
      OBVIOUS
    <3> QED  BY <2>1, <3>1, <3>2 DEF Whole, Rows
  <2> QED  BY <1>4, <2>1, <2>2 DEF Rows, Names
<1> QED  BY <1>1, <1>2, <1>3, <1>4

\* A full session holds the whole of its request.
LEMMA FullSession ==
    ASSUME InspectionInv, NEW r \in Requests, Len(session[r]) = Len(RowsOf(r))
    PROVE  {session[r][i] : i \in DOMAIN session[r]} = Whole(r)
<1>1. session[r] \in Seq(Rows) /\ RowsOf(r) \in Seq(Rows)
  BY EndpointFacts DEF InspectionInv, Typed
<1>2. DOMAIN session[r] = DOMAIN RowsOf(r) /\ \A i \in DOMAIN RowsOf(r) : session[r][i] = RowsOf(r)[i]
  BY <1>1 DEF InspectionInv, SessionShape
<1> QED  BY <1>2 DEF Whole

LEMMA TypedStep == ASSUME InspectionInv, [Next]_vars PROVE Typed'
<1> USE DEF InspectionInv, Typed, Become, handlerVars, inferVars, dbVars
<1>1. ASSUME NEW r \in Requests, Receive(r) PROVE Typed'
  BY <1>1 DEF Receive, HandlerPcs, BranchPcs
<1>2. ASSUME NEW r \in Requests, NEW m \in Models,
             StartBranch(r, m) \/ AcquireLock(r, m) \/ FinishBranch(r, m)
      PROVE  Typed'
  <2>1. PICK pc \in BranchPcs : branch' = [branch EXCEPT ![r][m] = pc]
    BY <1>2 DEF StartBranch, AcquireLock, FinishBranch, BranchPcs
  <2>2. branch' \in [Requests -> [Models -> BranchPcs]]
    BY <2>1
  <2> QED  BY <1>2, <2>2 DEF StartBranch, AcquireLock, FinishBranch
<1>3. ASSUME NEW r \in Requests, InferenceFails(r) \/ DecisionFails(r) \/ AnswerFailure(r)
      PROVE  Typed'
  BY <1>3 DEF InferenceFails, DecisionFails, AnswerFailure, AnswerError, HandlerPcs
<1>4. ASSUME NEW r \in Requests, InferenceSucceeds(r) \/ BeginInsert(r) PROVE Typed'
  BY <1>4 DEF InferenceSucceeds, BeginInsert, HandlerPcs
<1>5. ASSUME NEW r \in Requests, Flush(r) PROVE Typed'
  <2>1. session[r] \in Seq(Rows) /\ Len(session[r]) \in Nat
    OBVIOUS
  <2>2. RowsOf(r)[Len(session[r]) + 1] \in Rows
    BY <1>5, <2>1, EndpointFacts DEF Flush
  <2>3. session' \in [Requests -> Seq(Rows)]
    BY <1>5, <2>1, <2>2, AppendProperties DEF Flush
  <2> QED  BY <1>5, <2>3 DEF Flush
<1>6. ASSUME NEW r \in Requests, Commit(r) \/ CommitUnacknowledged(r) PROVE Typed'
  <2>1. AllFlushed(r) /\ MakeDurable(r)
    BY <1>6 DEF Commit, CommitUnacknowledged
  <2>2. database' = [database EXCEPT ![r] = Whole(r)]
    BY <2>1, FullSession DEF AllFlushed, MakeDurable
  <2>3. database' \in [Requests -> SUBSET Rows]
    BY <2>2, EndpointFacts
  <2>4. session' \in [Requests -> Seq(Rows)]
    BY <2>1 DEF MakeDurable
  <2>5. decision' \in [Requests -> {"none", "PASS", "REVIEW", "REJECT"}]
    <3>1. Disposition(Positive(r, "patchcore"), Positive(r, "yolo")) \in {"PASS", "REVIEW", "REJECT"}
      BY DEF Disposition
    <3> QED  BY <2>1, <3>1 DEF MakeDurable
  <2> QED
    BY <1>6, <2>3, <2>4, <2>5 DEF Commit, CommitUnacknowledged, LeaveThread, HandlerPcs
<1>7. ASSUME NEW r \in Requests, Rollback(r) PROVE Typed'
  BY <1>7 DEF Rollback, LeaveThread, HandlerPcs
<1>8. ASSUME NEW r \in Requests, AnswerSuccess(r) PROVE Typed'
  BY <1>8, EndpointFacts DEF AnswerSuccess, HandlerPcs
<1>9. ASSUME NEW r \in Requests, RunTask(r) PROVE Typed'
  <2>1. /\ tasks[r] \in Seq(Names) /\ tasks[r] # <<>> /\ announced[r] \in Seq(Names)
    BY <1>9 DEF RunTask
  <2>2. Head(tasks[r]) \in Names /\ Tail(tasks[r]) \in Seq(Names)
    BY <2>1, HeadTailProperties
  <2>3. Append(announced[r], Head(tasks[r])) \in Seq(Names)
    BY <2>1, <2>2, AppendProperties
  <2> QED  BY <1>9, <2>2, <2>3 DEF RunTask
<1>10. ASSUME Crash PROVE Typed'
  BY <1>10 DEF Crash, Idle, HandlerPcs, BranchPcs
<1>11. ASSUME Restart \/ UNCHANGED vars PROVE Typed'
  BY <1>11 DEF Restart, vars
<1> QED
  BY <1>1, <1>2, <1>3, <1>4, <1>5, <1>6, <1>7, <1>8, <1>9, <1>10, <1>11 DEF Next, Proceed

\* Rows become durable all at once, before the handler answers (create() commits once,
\* and the endpoints answer after it returned).
LEMMA DurableStep ==
    ASSUME InspectionInv, [Next]_vars PROVE HandlerShape' /\ WholeOrNothing'
<1> DEFINE Durable(s) ==
             /\ handler[s] \in {"none", "inferring", "decided", "inserting"} => database[s] = {}
             /\ handler[s] = "committed" => database[s] = Whole(s)
             /\ handler[s] \notin {"answered", "lost"} => response[s] = "none"
             /\ response[s] = "ok" => database[s] = Whole(s)
             /\ database[s] \in {{}, Whole(s)}
<1>a. \A s \in Requests : Durable(s)
  BY DEF InspectionInv, HandlerShape, WholeOrNothing
<1>w. UNCHANGED Kind /\ \A s \in Requests : Whole(s)' = Whole(s)
  BY DEF Whole, RowsOf
<1>y. /\ handler \in [Requests -> HandlerPcs] /\ DOMAIN database = Requests
      /\ DOMAIN response = Requests
  BY DEF InspectionInv, Typed
<1> SUFFICES ASSUME NEW s \in Requests PROVE Durable(s)'
  BY <1>w DEF HandlerShape, WholeOrNothing
<1>s. Durable(s)
  BY <1>a
<1> USE DEF Become, handlerVars, inferVars, dbVars
<1>1. ASSUME NEW r \in Requests, Receive(r) PROVE Durable(s)'
  BY <1>1, <1>s, <1>w, <1>y DEF Receive
<1>2. ASSUME NEW r \in Requests, NEW m \in Models,
             StartBranch(r, m) \/ AcquireLock(r, m) \/ FinishBranch(r, m)
      PROVE  Durable(s)'
  BY <1>2, <1>s, <1>w DEF StartBranch, AcquireLock, FinishBranch
<1>3. ASSUME NEW r \in Requests, InferenceFails(r) \/ DecisionFails(r) \/ AnswerFailure(r)
      PROVE  Durable(s)'
  BY <1>3, <1>s, <1>w, <1>y DEF InferenceFails, BranchesEnded, DecisionFails, AnswerFailure, AnswerError
<1>4. ASSUME NEW r \in Requests, InferenceSucceeds(r) \/ BeginInsert(r) PROVE Durable(s)'
  BY <1>4, <1>s, <1>w, <1>y DEF InferenceSucceeds, BranchesEnded, BeginInsert
<1>5. ASSUME NEW r \in Requests, Flush(r) \/ RunTask(r) PROVE Durable(s)'
  BY <1>5, <1>s, <1>w DEF Flush, RunTask
<1>6. ASSUME NEW r \in Requests, Commit(r) \/ CommitUnacknowledged(r) PROVE Durable(s)'
  <2>1. AllFlushed(r) /\ MakeDurable(r)
    BY <1>6 DEF Commit, CommitUnacknowledged
  <2>2. database' = [database EXCEPT ![r] = Whole(r)]
    BY <2>1, FullSession DEF AllFlushed, MakeDurable
  <2>3. handler[r] = "inserting" /\ UNCHANGED response
    BY <1>6, <2>1 DEF AllFlushed, Commit, CommitUnacknowledged, LeaveThread
  <2>4. \E pc \in {"committed", "failing"} : handler' = [handler EXCEPT ![r] = pc]
    BY <1>6 DEF Commit, CommitUnacknowledged, LeaveThread
  <2> QED  BY <2>2, <2>3, <2>4, <1>s, <1>w, <1>y
<1>7. ASSUME NEW r \in Requests, Rollback(r) PROVE Durable(s)'
  BY <1>7, <1>s, <1>w, <1>y DEF Rollback, LeaveThread
<1>8. ASSUME NEW r \in Requests, AnswerSuccess(r) PROVE Durable(s)'
  BY <1>8, <1>s, <1>w, <1>y DEF AnswerSuccess
<1>9. ASSUME Crash PROVE Durable(s)'
  BY <1>9, <1>s, <1>w, <1>y DEF Crash, Working
<1>10. ASSUME Restart \/ UNCHANGED vars PROVE Durable(s)'
  BY <1>10, <1>s, <1>w DEF Restart, vars
<1> QED
  BY <1>1, <1>2, <1>3, <1>4, <1>5, <1>6, <1>7, <1>8, <1>9, <1>10 DEF Next, Proceed

\* Threads and locks are in use only for work somebody waits for (gather() waits for
\* every branch, the locks and the pool are released however a branch ends).
LEMMA ResourceStep ==
    ASSUME InspectionInv, [Next]_vars PROVE BranchShape' /\ ThreadShape' /\ LockShape'
<1> USE DEF BranchShape, ThreadShape, LockShape, Become, handlerVars, inferVars, dbVars
<1>y. /\ Models = {"patchcore", "yolo"} /\ Free \notin Requests
      /\ \A r \in Requests : ModelsOf(r)' = ModelsOf(r)
  BY CombinedInspectionAssumption DEF Models, ModelsOf
<1>t. handler \in [Requests -> HandlerPcs] /\ branch \in [Requests -> [Models -> BranchPcs]]
  BY DEF InspectionInv, Typed
<1>i. BranchShape /\ ThreadShape /\ LockShape
  BY DEF InspectionInv
<1>1. ASSUME NEW r \in Requests, Receive(r) PROVE BranchShape' /\ ThreadShape' /\ LockShape'
  BY <1>1, <1>y, <1>t, <1>i DEF Receive
<1>2. ASSUME NEW r \in Requests, NEW m \in Models, StartBranch(r, m)
      PROVE  BranchShape' /\ ThreadShape' /\ LockShape'
  BY <1>2, <1>y, <1>t, <1>i DEF StartBranch
<1>3. ASSUME NEW r \in Requests, NEW m \in Models, AcquireLock(r, m)
      PROVE  BranchShape' /\ ThreadShape' /\ LockShape'
  BY <1>3, <1>y, <1>t, <1>i DEF AcquireLock
<1>4. ASSUME NEW r \in Requests, NEW m \in Models, FinishBranch(r, m)
      PROVE  BranchShape' /\ ThreadShape' /\ LockShape'
  BY <1>4, <1>y, <1>t, <1>i DEF FinishBranch
<1>5. ASSUME NEW r \in Requests, InferenceFails(r) \/ InferenceSucceeds(r)
      PROVE  BranchShape' /\ ThreadShape' /\ LockShape'
  BY <1>5, <1>y, <1>t, <1>i DEF InferenceFails, InferenceSucceeds, BranchesEnded, AnswerError
<1>6. ASSUME NEW r \in Requests, DecisionFails(r) \/ AnswerFailure(r) \/ AnswerSuccess(r)
      PROVE  BranchShape' /\ ThreadShape' /\ LockShape'
  BY <1>6, <1>y, <1>t, <1>i DEF DecisionFails, AnswerFailure, AnswerSuccess, AnswerError
<1>7. ASSUME NEW r \in Requests, BeginInsert(r) PROVE BranchShape' /\ ThreadShape' /\ LockShape'
  BY <1>7, <1>y, <1>t, <1>i DEF BeginInsert
<1>8. ASSUME NEW r \in Requests, Flush(r) \/ RunTask(r)
      PROVE  BranchShape' /\ ThreadShape' /\ LockShape'
  BY <1>8, <1>y, <1>i DEF Flush, RunTask
<1>9. ASSUME NEW r \in Requests, Commit(r) \/ CommitUnacknowledged(r) \/ Rollback(r)
      PROVE  BranchShape' /\ ThreadShape' /\ LockShape'
  <2>1. handler[r] = "inserting" /\ \E pc \in {"committed", "failing"} : LeaveThread(r, pc)
    BY <1>9 DEF Commit, CommitUnacknowledged, Rollback, AllFlushed
  <2> QED  BY <2>1, <1>y, <1>t, <1>i DEF LeaveThread
<1>10. ASSUME Crash PROVE BranchShape' /\ ThreadShape' /\ LockShape'
  BY <1>10, <1>y, <1>i DEF Crash, Idle
<1>11. ASSUME Restart \/ UNCHANGED vars PROVE BranchShape' /\ ThreadShape' /\ LockShape'
  BY <1>11, <1>y, <1>i DEF Restart, vars
<1> QED
  BY <1>1, <1>2, <1>3, <1>4, <1>5, <1>6, <1>7, <1>8, <1>9, <1>10, <1>11 DEF Next, Proceed

\* done and todo together are whole.
Split(whole, done, todo) ==
    /\ Len(done) + Len(todo) = Len(whole)
    /\ \A i \in 1 .. Len(todo) : todo[i] = whole[Len(done) + i]
    /\ \A i \in 1 .. Len(done) : done[i] = whole[i]

\* They still are when the head of what is left moves to the end of what is done.
LEMMA HeadMoves ==
    ASSUME NEW whole \in Seq(Names), NEW done \in Seq(Names), NEW todo \in Seq(Names),
           todo # <<>>, Split(whole, done, todo),
           NEW next, next = Append(done, Head(todo)),
           NEW rest, rest = Tail(todo)
    PROVE  Split(whole, next, rest)
<1> USE DEF Split
<1>1. Len(done) \in Nat /\ Len(whole) \in Nat /\ Len(todo) \in Nat \ {0}
  OBVIOUS
<1>2. /\ Head(todo) = todo[1] /\ Head(todo) \in Names
      /\ Len(rest) = Len(todo) - 1
      /\ \A i \in 1 .. Len(rest) : rest[i] = todo[i + 1]
  BY HeadTailProperties
<1>3. /\ Len(next) = Len(done) + 1
      /\ \A i \in 1 .. Len(done) : next[i] = done[i]
      /\ next[Len(done) + 1] = Head(todo)
  BY <1>2, AppendProperties
<1>4. Len(next) + Len(rest) = Len(whole)
  BY <1>1, <1>2, <1>3
<1>5. \A i \in 1 .. Len(rest) : rest[i] = whole[Len(next) + i]
  <2> SUFFICES ASSUME NEW i \in 1 .. Len(rest) PROVE rest[i] = whole[Len(next) + i]
    OBVIOUS
  <2>1. i + 1 \in 1 .. Len(todo) /\ Len(done) + (i + 1) = Len(next) + i
    BY <1>1, <1>2, <1>3
  <2>2. rest[i] = todo[i + 1] /\ todo[i + 1] = whole[Len(done) + (i + 1)]
    BY <1>2, <2>1
  <2> QED  BY <2>1, <2>2
<1>6. \A i \in 1 .. Len(next) : next[i] = whole[i]
  <2>1. todo[1] = whole[Len(done) + 1]
    BY <1>1
  <2> QED  BY <1>1, <1>2, <1>3, <2>1
<1> QED  BY <1>4, <1>5, <1>6

\* Rows are flushed and channels announced in the order of their endpoint, and only an
\* answered request is announced (add_task after the commit, one task after the other).
LEMMA OrderStep ==
    ASSUME InspectionInv, [Next]_vars PROVE SessionShape' /\ TasksShape' /\ AnnouncedShape'
<1> DEFINE Ordered(s) ==
             /\ Len(session[s]) <= Len(RowsOf(s))
             /\ \A i \in 1 .. Len(session[s]) : session[s][i] = RowsOf(s)[i]
             /\ tasks[s] # <<>> \/ announced[s] # <<>> => response[s] = "ok"
             /\ Len(announced[s]) <= Len(Channels(s))
             /\ tasks[s] # <<>> =>
                  /\ Len(announced[s]) + Len(tasks[s]) = Len(Channels(s))
                  /\ \A i \in 1 .. Len(tasks[s]) : tasks[s][i] = Channels(s)[Len(announced[s]) + i]
             /\ \A i \in 1 .. Len(announced[s]) : announced[s][i] = Channels(s)[i]
<1>a. \A s \in Requests : Ordered(s)
  BY DEF InspectionInv, SessionShape, TasksShape, AnnouncedShape
<1>k. \A s \in Requests : RowsOf(s)' = RowsOf(s) /\ Channels(s)' = Channels(s)
  BY DEF RowsOf, Channels
<1> SUFFICES ASSUME NEW s \in Requests PROVE Ordered(s)'
  BY DEF SessionShape, TasksShape, AnnouncedShape
<1>s. Ordered(s)
  BY <1>a
<1>e. /\ RowsOf(s) \in Seq(Rows) /\ Channels(s) \in Seq(Names)
      /\ Len(RowsOf(s)) \in Nat /\ Len(Channels(s)) \in Nat \ {0}
  BY EndpointFacts
<1>t. /\ session \in [Requests -> Seq(Rows)] /\ tasks \in [Requests -> Seq(Names)]
      /\ announced \in [Requests -> Seq(Names)] /\ DOMAIN response = Requests
      /\ DOMAIN handler = Requests
  BY DEF InspectionInv, Typed
<1>h. /\ handler[s] \notin {"answered", "lost"} => response[s] = "none"
  BY DEF InspectionInv, HandlerShape
<1> USE DEF Become, handlerVars, inferVars, dbVars
<1>1. ASSUME NEW r \in Requests,
             \/ Receive(r) \/ InferenceSucceeds(r) \/ BeginInsert(r)
             \/ \E m \in Models : StartBranch(r, m) \/ AcquireLock(r, m) \/ FinishBranch(r, m)
      PROVE  Ordered(s)'
  <2>1. UNCHANGED <<session, tasks, announced, response>>
    BY <1>1 DEF Receive, InferenceSucceeds, BeginInsert, StartBranch, AcquireLock, FinishBranch
  <2> QED  BY <2>1, <1>s, <1>k
<1>2. ASSUME NEW r \in Requests, InferenceFails(r) \/ DecisionFails(r) \/ AnswerFailure(r)
      PROVE  Ordered(s)'
  <2>1. handler[r] \notin {"answered", "lost"} /\ AnswerError(r)
    BY <1>2 DEF InferenceFails, BranchesEnded, DecisionFails, AnswerFailure
  <2>2. /\ UNCHANGED <<session, tasks, announced>>
        /\ response' = [response EXCEPT ![r] = "failed"]
    BY <2>1 DEF AnswerError
  <2>3. response'[s] = "ok" <=> response[s] = "ok"
    BY <2>1, <2>2, <1>h, <1>t
  <2> QED  BY <2>2, <2>3, <1>s, <1>k
<1>3. ASSUME NEW r \in Requests, Flush(r) PROVE Ordered(s)'
  <2>1. UNCHANGED <<tasks, announced, response>>
    BY <1>3 DEF Flush
  <2>2. /\ Len(session[r]) < Len(RowsOf(r))
        /\ session' = [session EXCEPT ![r] = Append(@, RowsOf(r)[Len(@) + 1])]
    BY <1>3 DEF Flush
  <2>3. CASE s # r
    BY <2>1, <2>2, <2>3, <1>s, <1>k, <1>t
  <2>4. CASE s = r
    <3> DEFINE row == RowsOf(s)[Len(session[s]) + 1]
    <3>1. session[s] \in Seq(Rows) /\ Len(session[s]) \in Nat /\ row \in Rows
      BY <2>2, <2>4, <1>t, <1>e
    <3>2. session'[s] = Append(session[s], row)
      BY <2>2, <2>4, <1>t
    <3>3. /\ Len(session'[s]) = Len(session[s]) + 1
          /\ \A i \in 1 .. Len(session[s]) : session'[s][i] = session[s][i]
          /\ session'[s][Len(session[s]) + 1] = row
      BY <3>1, <3>2, AppendProperties
    <3>4. Len(session'[s]) <= Len(RowsOf(s))
      BY <2>2, <2>4, <3>1, <3>3, <1>e
    <3>5. \A i \in 1 .. Len(session'[s]) : session'[s][i] = RowsOf(s)[i]
      BY <3>1, <3>3, <1>s
    <3> QED  BY <2>1, <3>4, <3>5, <1>s, <1>k
  <2> QED  BY <2>3, <2>4
<1>4. ASSUME NEW r \in Requests, Commit(r) \/ CommitUnacknowledged(r) \/ Rollback(r)
      PROVE  Ordered(s)'
  <2>1. /\ UNCHANGED <<tasks, announced, response>>
        /\ session' = [session EXCEPT ![r] = <<>>]
    BY <1>4 DEF Commit, CommitUnacknowledged, Rollback, MakeDurable, LeaveThread
  <2>2. session'[s] = session[s] \/ session'[s] = <<>>
    BY <2>1, <1>t
  <2>3. /\ Len(session'[s]) <= Len(RowsOf(s))
        /\ \A i \in 1 .. Len(session'[s]) : session'[s][i] = RowsOf(s)[i]
    <3>1. CASE session'[s] = session[s]
      BY <3>1, <1>s
    <3>2. CASE session'[s] = <<>>
      <4>1. Len(session'[s]) = 0 /\ 1 .. 0 = {}
        BY <3>2
      <4> QED  BY <4>1, <1>e
    <3> QED  BY <2>2, <3>1, <3>2
  <2> QED  BY <2>1, <2>3, <1>s, <1>k
<1>5. ASSUME NEW r \in Requests, AnswerSuccess(r) PROVE Ordered(s)'
  <2>1. /\ UNCHANGED <<session, announced>>
        /\ tasks' = [tasks EXCEPT ![r] = Channels(r)]
        /\ response' = [response EXCEPT ![r] = "ok"]
        /\ handler[r] = "committed"
    BY <1>5 DEF AnswerSuccess
  <2>2. CASE s # r
    BY <2>1, <2>2, <1>s, <1>k, <1>t
  <2>3. CASE s = r
    <3>1. announced[s] = <<>> /\ response'[s] = "ok" /\ tasks'[s] = Channels(s)
      BY <2>1, <2>3, <1>s, <1>h, <1>t
    <3>2. /\ Len(announced[s]) = 0
          /\ \A i \in 1 .. Len(Channels(s)) : Channels(s)[i] = Channels(s)[0 + i]
      BY <3>1
    <3>3. /\ Len(announced'[s]) + Len(tasks'[s]) = Len(Channels(s))
          /\ \A i \in 1 .. Len(tasks'[s]) : tasks'[s][i] = Channels(s)[Len(announced'[s]) + i]
      BY <2>1, <3>1, <3>2, <1>e
    <3>4. /\ Len(announced'[s]) <= Len(Channels(s))
          /\ \A i \in 1 .. Len(announced'[s]) : announced'[s][i] = Channels(s)[i]
      BY <2>1, <3>2, <1>s, <1>e
    <3>5. /\ Len(session'[s]) <= Len(RowsOf(s))
          /\ \A i \in 1 .. Len(session'[s]) : session'[s][i] = RowsOf(s)[i]
      BY <2>1, <1>s
    <3> QED  BY <3>1, <3>3, <3>4, <3>5, <1>k
  <2> QED  BY <2>2, <2>3
<1>6. ASSUME NEW r \in Requests, RunTask(r) PROVE Ordered(s)'
  <2>1. /\ UNCHANGED <<session, response>> /\ tasks[r] # <<>>
        /\ announced' = [announced EXCEPT ![r] = Append(@, Head(tasks[r]))]
        /\ tasks' = [tasks EXCEPT ![r] = Tail(@)]
    BY <1>6 DEF RunTask
  <2>2. CASE s # r
    BY <2>1, <2>2, <1>s, <1>k, <1>t
  <2>3. CASE s = r
    <3>1. /\ tasks[s] \in Seq(Names) /\ tasks[s] # <<>> /\ announced[s] \in Seq(Names)
      BY <2>1, <2>3, <1>t
    <3>2. announced'[s] = Append(announced[s], Head(tasks[s])) /\ tasks'[s] = Tail(tasks[s])
      BY <2>1, <2>3, <1>t
    <3>3. /\ Len(announced[s]) + Len(tasks[s]) = Len(Channels(s))
          /\ \A i \in 1 .. Len(tasks[s]) : tasks[s][i] = Channels(s)[Len(announced[s]) + i]
          /\ \A i \in 1 .. Len(announced[s]) : announced[s][i] = Channels(s)[i]
      BY <3>1, <1>s
    <3>4. /\ Len(announced'[s]) + Len(tasks'[s]) = Len(Channels(s))
          /\ Len(announced'[s]) <= Len(Channels(s))
          /\ \A i \in 1 .. Len(tasks'[s]) : tasks'[s][i] = Channels(s)[Len(announced'[s]) + i]
          /\ \A i \in 1 .. Len(announced'[s]) : announced'[s][i] = Channels(s)[i]
      <4>1. Channels(s) \in Seq(Names) /\ Split(Channels(s), announced[s], tasks[s])
        BY <3>3, <1>e DEF Split
      <4>2. Split(Channels(s), announced'[s], tasks'[s])
        BY <3>1, <3>2, <4>1, HeadMoves
      <4>3. Len(announced'[s]) \in Nat /\ Len(tasks'[s]) \in Nat
        BY <3>1, <3>2
      <4>4. /\ Len(announced'[s]) + Len(tasks'[s]) = Len(Channels(s))
            /\ \A i \in 1 .. Len(tasks'[s]) : tasks'[s][i] = Channels(s)[Len(announced'[s]) + i]
            /\ \A i \in 1 .. Len(announced'[s]) : announced'[s][i] = Channels(s)[i]
        BY <4>2, Zenon DEF Split
      <4>5. Len(announced'[s]) <= Len(Channels(s))
        <5> DEFINE n == Len(announced'[s])
                   k == Len(tasks'[s])
                   c == Len(Channels(s))
        <5>1. n \in Nat /\ k \in Nat /\ n + k = c
          BY <4>3, <4>4, Zenon
        <5> HIDE DEF n, k, c
        <5>2. n <= c
          BY <5>1
        <5> QED  BY <5>2 DEF n, c
      <4> QED  BY <4>4, <4>5
    <3>5. response'[s] = "ok"
      BY <2>1, <3>1, <1>s
    <3> QED  BY <2>1, <3>4, <3>5, <1>s, <1>k
  <2> QED  BY <2>2, <2>3
<1>7. ASSUME Crash PROVE Ordered(s)'
  <2>1. /\ session'[s] = <<>> /\ tasks'[s] = <<>> /\ UNCHANGED announced
        /\ response[s] = "ok" => response'[s] = "ok"
    BY <1>7, <1>h DEF Crash, Working
  <2> QED  BY <2>1, <1>s, <1>k, <1>e
<1>8. ASSUME Restart \/ UNCHANGED vars PROVE Ordered(s)'
  BY <1>8, <1>s, <1>k DEF Restart, vars
<1> QED
  BY <1>1, <1>2, <1>3, <1>4, <1>5, <1>6, <1>7, <1>8 DEF Next, Proceed

LEMMA InitInspection == Init => InspectionInv
<1> SUFFICES ASSUME Init PROVE InspectionInv
  OBVIOUS
<1>1. Typed
  BY DEF Init, Typed, HandlerPcs, BranchPcs, Idle
<1>2. HandlerShape /\ BranchShape /\ WholeOrNothing
  BY DEF Init, HandlerShape, BranchShape, WholeOrNothing, Idle
<1>3. ThreadShape /\ LockShape
  BY CombinedInspectionAssumption DEF Init, ThreadShape, LockShape
<1>4. SessionShape /\ TasksShape /\ AnnouncedShape
  BY EndpointFacts DEF Init, SessionShape, TasksShape, AnnouncedShape
<1> QED  BY <1>1, <1>2, <1>3, <1>4 DEF InspectionInv

\* The inductive invariant of the three endpoints.
THEOREM InspectionInvariant == Spec => []InspectionInv
<1>1. InspectionInv /\ [Next]_vars => InspectionInv'
  BY TypedStep, DurableStep, ResourceStep, OrderStep DEF InspectionInv
<1> QED  BY <1>1, InitInspection, PTL DEF Spec

\* Every inspection is durable as a whole or not at all.
THEOREM InspectionIsAtomic == Spec => []WholeOrNothing
<1> QED  BY InspectionInvariant, PTL DEF InspectionInv

-----------------------------------------------------------------------------
LEMMA PrefixIsSubSeq ==
    ASSUME NEW S, NEW whole \in Seq(S), NEW part \in Seq(S), Len(part) <= Len(whole),
           \A i \in 1 .. Len(part) : part[i] = whole[i]
    PROVE  part = SubSeq(whole, 1, Len(part))
<1> DEFINE n == Len(part)
           sub == SubSeq(whole, 1, n)
<1>1. n \in Nat /\ Len(whole) \in Nat /\ \A i \in 1 .. n : whole[i] \in S
  OBVIOUS
<1>2. /\ sub \in Seq(S)
      /\ Len(sub) = IF 1 <= n THEN n - 1 + 1 ELSE 0
      /\ \A i \in 1 .. n - 1 + 1 : sub[i] = whole[1 + i - 1]
  BY <1>1, SubSeqProperties
<1> HIDE DEF sub
<1>3. Len(sub) = Len(part) /\ \A i \in 1 .. Len(part) : part[i] = sub[i]
  BY <1>1, <1>2
<1> QED  BY <1>2, <1>3, SeqEqual DEF sub

\* Whoever is told of an inspection finds it, and child events come first.
THEOREM InspectionAnnouncesDurable == Spec => []AnnouncedMeansDurable
<1>1. InspectionInv => AnnouncedMeansDurable
  <2> SUFFICES ASSUME InspectionInv, NEW r \in Requests
               PROVE  /\ response[r] = "ok" \/ announced[r] # <<>> => database[r] = Whole(r)
                      /\ announced[r] = SubSeq(Channels(r), 1, Len(announced[r]))
    BY DEF AnnouncedMeansDurable
  <2>1. response[r] = "ok" \/ announced[r] # <<>> => database[r] = Whole(r)
    BY DEF InspectionInv, TasksShape, HandlerShape
  <2>2. /\ announced[r] \in Seq(Names) /\ Channels(r) \in Seq(Names)
        /\ Len(announced[r]) <= Len(Channels(r))
        /\ \A i \in 1 .. Len(announced[r]) : announced[r][i] = Channels(r)[i]
    BY EndpointFacts DEF InspectionInv, Typed, TasksShape, AnnouncedShape
  <2> QED  BY <2>1, <2>2, PrefixIsSubSeq
<1> QED  BY <1>1, InspectionInvariant, PTL

\* No thread and no runtime lock outlives its work, however model and database fail.
THEOREM InspectionLeaksNothing == Spec => []NothingLeaks
<1>1. InspectionInv => NothingLeaks
  <2> SUFFICES ASSUME InspectionInv PROVE NothingLeaks
    OBVIOUS
  <2>1. ASSUME NEW t \in pool
        PROVE  IF t[2] = "insert" THEN handler[t[1]] = "inserting"
               ELSE branch[t[1]][t[2]] \in {"started", "running"} /\ handler[t[1]] = "inferring"
    <3>1. PICK r \in Requests, m \in Models \cup {"insert"} : t = <<r, m>>
      BY <2>1 DEF InspectionInv, ThreadShape
    <3>2. t[1] = r /\ t[2] = m
      BY <3>1
    <3>3. "insert" \notin Models
      BY DEF Models
    <3> QED  BY <2>1, <3>1, <3>2, <3>3 DEF InspectionInv, ThreadShape
  <2>2. \A m \in Models : lock[m] # Free => branch[lock[m]][m] = "running"
    BY DEF InspectionInv, LockShape
  <2> QED  BY <2>1, <2>2 DEF NothingLeaks
<1> QED  BY <1>1, InspectionInvariant, PTL

\* Every variable keeps its type, and a session is the first rows of its endpoint.
THEOREM InspectionTypes == Spec => []TypeOK
<1> DEFINE Scalars == predictions \in Nat /\ up \in BOOLEAN /\ crashes \in 0 .. MaxCrashes
<1>1. Init => Scalars
  BY CombinedInspectionAssumption DEF Init
<1>2. Scalars /\ [Next]_vars => Scalars'
  <2> SUFFICES ASSUME Scalars, [Next]_vars PROVE Scalars'
    OBVIOUS
  <2> USE DEF handlerVars, processVars
  <2>1. ASSUME NEW r \in Requests, Receive(r) \/ Proceed(r) PROVE Scalars'
    BY <2>1 DEF Receive, Proceed, StartBranch, AcquireLock, FinishBranch, InferenceFails,
                InferenceSucceeds, DecisionFails, BeginInsert, Flush, Commit, Rollback,
                CommitUnacknowledged, AnswerFailure, AnswerSuccess, RunTask, AnswerError,
                LeaveThread
  <2>2. ASSUME Crash PROVE Scalars'
    <3>1. /\ predictions' = 0 /\ up' = FALSE
          /\ crashes < MaxCrashes /\ crashes' = crashes + 1
      BY <2>2 DEF Crash
    <3>2. MaxCrashes \in Nat /\ crashes \in 0 .. MaxCrashes
      BY CombinedInspectionAssumption
    <3>3. crashes' \in 0 .. MaxCrashes
      BY <3>1, <3>2
    <3> QED  BY <3>1, <3>3
  <2>3. ASSUME Restart \/ UNCHANGED vars PROVE Scalars'
    BY <2>3 DEF Restart, vars
  <2> QED  BY <2>1, <2>2, <2>3 DEF Next
<1>3. InspectionInv /\ Scalars => TypeOK
  <2> SUFFICES ASSUME InspectionInv, Scalars PROVE TypeOK
    OBVIOUS
  <2>1. ASSUME NEW r \in Requests
        PROVE  session[r] = SubSeq(RowsOf(r), 1, Len(session[r])) /\ database[r] \subseteq Whole(r)
    <3>1. /\ session[r] \in Seq(Rows) /\ RowsOf(r) \in Seq(Rows)
          /\ Len(session[r]) <= Len(RowsOf(r))
          /\ \A i \in 1 .. Len(session[r]) : session[r][i] = RowsOf(r)[i]
      BY EndpointFacts DEF InspectionInv, Typed, SessionShape
    <3>2. database[r] \subseteq Whole(r)
      BY DEF InspectionInv, WholeOrNothing
    <3> QED  BY <3>1, <3>2, PrefixIsSubSeq
  <2> QED
    BY <2>1 DEF TypeOK, InspectionInv, Typed, LockShape, ThreadShape, HandlerPcs, BranchPcs
<1> QED  BY <1>1, <1>2, <1>3, InspectionInvariant, PTL DEF Spec

-----------------------------------------------------------------------------
\* A step of the endpoints is a step of the promise or invisible to it.
LEMMA PromiseStep ==
    ASSUME InspectionInv, InspectionInv', [Next]_vars
    PROVE  [Promise!Next]_<<{r \in Requests : database[r] = Whole(r)}, response, announced>>
<1> DEFINE durable == {r \in Requests : database[r] = Whole(r)}
           seen == <<durable, response, announced>>
<1>w. \A r \in Requests : Whole(r)' = Whole(r) /\ Whole(r) # {}
  BY EndpointFacts DEF Whole, RowsOf
<1>y. /\ handler \in [Requests -> HandlerPcs] /\ DOMAIN database = Requests
      /\ DOMAIN response = Requests
  BY DEF InspectionInv, Typed
<1>r. \A r \in Requests : handler[r] \notin {"answered", "lost"} => response[r] = "none"
  BY DEF InspectionInv, HandlerShape
<1> SUFFICES [Promise!Next]_seen
  OBVIOUS
<1> USE DEF Become, handlerVars, inferVars, dbVars
<1>0. UNCHANGED database => durable' = durable
  BY <1>w
<1>1. ASSUME NEW r \in Requests,
             \/ Receive(r) \/ InferenceSucceeds(r) \/ BeginInsert(r) \/ Flush(r) \/ Rollback(r)
             \/ \E m \in Models : StartBranch(r, m) \/ AcquireLock(r, m) \/ FinishBranch(r, m)
      PROVE  UNCHANGED seen
  <2>1. UNCHANGED <<database, response, announced>>
    BY <1>1 DEF Receive, InferenceSucceeds, BeginInsert, Flush, Rollback, LeaveThread,
                StartBranch, AcquireLock, FinishBranch
  <2> QED  BY <1>0, <2>1
<1>2. ASSUME NEW r \in Requests, InferenceFails(r) \/ DecisionFails(r) \/ AnswerFailure(r)
      PROVE  Promise!Fail(r)
  <2>1. response[r] = "none" /\ AnswerError(r)
    BY <1>2, <1>r DEF InferenceFails, BranchesEnded, DecisionFails, AnswerFailure
  <2>2. /\ UNCHANGED <<database, announced>>
        /\ response' = [response EXCEPT ![r] = "failed"]
    BY <2>1 DEF AnswerError
  <2> QED  BY <1>0, <2>1, <2>2 DEF Promise!Fail
<1>3. ASSUME NEW r \in Requests, Commit(r) \/ CommitUnacknowledged(r) PROVE Promise!Persist(r)
  <2>1. AllFlushed(r) /\ MakeDurable(r) /\ UNCHANGED <<response, announced>>
    BY <1>3 DEF Commit, CommitUnacknowledged, LeaveThread
  <2>2. database' = [database EXCEPT ![r] = Whole(r)] /\ response[r] = "none"
    BY <2>1, <1>r, FullSession DEF AllFlushed, MakeDurable
  <2>3. durable' = durable \union {r}
    BY <2>2, <1>w, <1>y
  <2> QED  BY <2>1, <2>2, <2>3 DEF Promise!Persist
<1>4. ASSUME NEW r \in Requests, AnswerSuccess(r) PROVE Promise!Succeed(r)
  <2>1. /\ handler[r] = "committed" /\ UNCHANGED <<database, announced>>
        /\ response' = [response EXCEPT ![r] = "ok"]
    BY <1>4 DEF AnswerSuccess
  <2>2. response[r] = "none" /\ r \in durable
    BY <2>1, <1>r DEF InspectionInv, HandlerShape
  <2> QED  BY <1>0, <2>1, <2>2 DEF Promise!Succeed
<1>5. ASSUME NEW r \in Requests, RunTask(r) PROVE Promise!Announce(r)
  <2>1. /\ tasks[r] # <<>> /\ UNCHANGED <<database, response>>
        /\ announced' = [announced EXCEPT ![r] = Append(@, Head(tasks[r]))]
    BY <1>5 DEF RunTask
  <2>2. /\ tasks[r] \in Seq(Names) /\ announced[r] \in Seq(Names)
        /\ response[r] = "ok"
        /\ Len(announced[r]) + Len(tasks[r]) = Len(Channels(r))
        /\ \A i \in 1 .. Len(tasks[r]) : tasks[r][i] = Channels(r)[Len(announced[r]) + i]
    BY <2>1 DEF InspectionInv, Typed, TasksShape
  <2>3. Len(tasks[r]) \in Nat \ {0} /\ Len(announced[r]) \in Nat /\ Head(tasks[r]) = tasks[r][1]
    BY <2>1, <2>2
  <2>4. /\ Len(announced[r]) < Len(Channels(r))
        /\ Head(tasks[r]) = Channels(r)[Len(announced[r]) + 1]
    <3> DEFINE n == Len(announced[r])
               k == Len(tasks[r])
               c == Len(Channels(r))
    <3>1. n \in Nat /\ k \in Nat \ {0} /\ n + k = c
      BY <2>2, <2>3, Zenon
    <3> HIDE DEF n, k, c
    <3>2. n < c /\ 1 \in 1 .. k
      BY <3>1
    <3>3. tasks[r][1] = Channels(r)[n + 1]
      BY <2>2, <3>2, Zenon DEF n, k
    <3> QED  BY <2>3, <3>2, <3>3, Zenon DEF n, c
  <2>5. announced' = [announced EXCEPT ![r] = Append(@, Channels(r)[Len(@) + 1])]
    BY <2>1, <2>4, Zenon
  <2>6. UNCHANGED <<durable, response>>
    BY <1>0, <2>1
  <2> QED  BY <2>2, <2>4, <2>5, <2>6, Zenon DEF Promise!Announce
<1>6. ASSUME Crash PROVE Promise!Lose({r \in Requests : Working(r)})
  <2>1. UNCHANGED <<database, announced>>
    BY <1>6 DEF Crash
  <2>2. \A r \in {q \in Requests : Working(q)} : response[r] = "none"
    BY <1>r DEF Working
  <2>3. response' = [r \in Requests |-> IF r \in {q \in Requests : Working(q)} THEN "lost"
                                        ELSE response[r]]
    BY <1>6 DEF Crash
  <2> QED  BY <1>0, <2>1, <2>2, <2>3 DEF Promise!Lose
<1>7. ASSUME Restart \/ UNCHANGED vars PROVE UNCHANGED seen
  BY <1>7, <1>0 DEF Restart, vars
<1> HIDE DEF durable, seen
<1>8. ASSUME NEW r \in Requests,
             \/ Promise!Persist(r) \/ Promise!Succeed(r) \/ Promise!Fail(r) \/ Promise!Announce(r)
      PROVE  Promise!Next
  BY <1>8 DEF Promise!Next
<1>9. ASSUME Promise!Lose({r \in Requests : Working(r)}) PROVE Promise!Next
  BY <1>9 DEF Promise!Next
<1> QED
  BY <1>1, <1>2, <1>3, <1>4, <1>5, <1>6, <1>7, <1>8, <1>9 DEF Next, Proceed

\* The endpoints refine the promise: durable as a whole, answered after that, announced
\* after the answer.
THEOREM InspectionRefinesPromise == Spec => ImplementsPromise
<1>1. Init => Promise!Init
  BY EndpointFacts DEF Init, Promise!Init
<1>2. InspectionInv /\ InspectionInv' /\ [Next]_vars =>
        [Promise!Next]_<<{r \in Requests : database[r] = Whole(r)}, response, announced>>
  BY PromiseStep
<1> QED
  BY InspectionInvariant, <1>1, <1>2, PTL DEF Spec, ImplementsPromise, Promise!Spec

-----------------------------------------------------------------------------
\* A decision row is written with the rows it belongs to, from the evidence of its own
\* branches, and these do not change any more.
DecisionShape ==
    \A r \in Requests :
        /\ decision[r] # "none" <=> "decision" \in database[r]
        /\ decision[r] # "none" /\ branch[r] # Idle =>
             decision[r] = Disposition(Positive(r, "patchcore"), Positive(r, "yolo"))

LEMMA DecisionStep ==
    ASSUME InspectionInv, DecisionShape, [Next]_vars PROVE DecisionShape'
<1> DEFINE Told(s) ==
             /\ decision[s] # "none" <=> "decision" \in database[s]
             /\ decision[s] # "none" /\ branch[s] # Idle =>
                  decision[s] = Disposition(Positive(s, "patchcore"), Positive(s, "yolo"))
<1> SUFFICES ASSUME NEW s \in Requests PROVE Told(s)'
  BY DEF DecisionShape
<1>s. Told(s)
  BY DEF DecisionShape
<1>y. /\ branch \in [Requests -> [Models -> BranchPcs]] /\ DOMAIN database = Requests
      /\ DOMAIN decision = Requests
  BY DEF InspectionInv, Typed
<1>h. handler[s] \in {"none", "inferring"} => database[s] = {}
  BY DEF InspectionInv, HandlerShape
<1>b. \A m \in Models : branch[s][m] \in {"queued", "started", "running"} => handler[s] = "inferring"
  BY DEF InspectionInv, BranchShape
<1>i. Idle' = Idle
  BY DEF Idle
<1> USE DEF Become, handlerVars, inferVars, dbVars
<1>1. ASSUME UNCHANGED <<database, decision>>, branch'[s] = branch[s] PROVE Told(s)'
  BY <1>1, <1>s, <1>i DEF Positive
<1>2. ASSUME UNCHANGED <<database, decision>>, handler[s] \in {"none", "inferring"} PROVE Told(s)'
  BY <1>2, <1>s, <1>h
<1>3. ASSUME NEW r \in Requests, Receive(r) PROVE Told(s)'
  <2>1. UNCHANGED <<database, decision>> /\ (s # r => branch'[s] = branch[s])
    BY <1>3, <1>y DEF Receive
  <2> QED  BY <1>3, <2>1, <1>1, <1>2 DEF Receive
<1>4. ASSUME NEW r \in Requests, NEW m \in Models,
             StartBranch(r, m) \/ AcquireLock(r, m) \/ FinishBranch(r, m)
      PROVE  Told(s)'
  <2>1. UNCHANGED <<database, decision>> /\ (s # r => branch'[s] = branch[s])
    BY <1>4, <1>y DEF StartBranch, AcquireLock, FinishBranch
  <2>2. s = r => handler[s] = "inferring"
    BY <1>4, <1>b DEF StartBranch, AcquireLock, FinishBranch
  <2> QED  BY <2>1, <2>2, <1>1, <1>2
<1>5. ASSUME NEW r \in Requests,
             \/ InferenceFails(r) \/ InferenceSucceeds(r) \/ DecisionFails(r) \/ BeginInsert(r)
             \/ Flush(r) \/ Rollback(r) \/ AnswerFailure(r) \/ AnswerSuccess(r) \/ RunTask(r)
      PROVE  Told(s)'
  <2>1. UNCHANGED <<database, decision, branch>>
    BY <1>5 DEF InferenceFails, InferenceSucceeds, DecisionFails, BeginInsert, Flush, Rollback,
                AnswerFailure, AnswerSuccess, RunTask, AnswerError, LeaveThread
  <2> QED  BY <2>1, <1>1
<1>6. ASSUME NEW r \in Requests, Commit(r) \/ CommitUnacknowledged(r) PROVE Told(s)'
  <2>1. AllFlushed(r) /\ MakeDurable(r) /\ UNCHANGED branch
    BY <1>6 DEF Commit, CommitUnacknowledged, LeaveThread
  <2>2. database' = [database EXCEPT ![r] = Whole(r)]
    BY <2>1, FullSession DEF AllFlushed, MakeDurable
  <2>3. decision' = [decision EXCEPT ![r] =
                       IF Kind[r] = "combined"
                       THEN Disposition(Positive(r, "patchcore"), Positive(r, "yolo"))
                       ELSE "none"]
    BY <2>1 DEF MakeDurable
  <2>4. CASE s # r
    <3>1. database'[s] = database[s] /\ decision'[s] = decision[s] /\ branch'[s] = branch[s]
      BY <2>1, <2>2, <2>3, <2>4, <1>y
    <3> QED  BY <3>1, <1>s, <1>i DEF Positive
  <2>5. CASE s = r
    <3> DEFINE new == Disposition(Positive(s, "patchcore"), Positive(s, "yolo"))
    <3>1. database'[s] = Whole(s) /\ ("decision" \in Whole(s) <=> Kind[s] = "combined")
      BY <2>2, <2>5, <1>y, EndpointFacts
    <3>2. decision'[s] = IF Kind[s] = "combined" THEN new ELSE "none"
      BY <2>3, <2>5, <1>y
    <3>3. new \in {"PASS", "REVIEW", "REJECT"}
      BY DEF Disposition
    <3>4. new' = new
      BY <2>1 DEF Disposition, Positive
    <3> HIDE DEF new
    <3>5. decision'[s] # "none" <=> "decision" \in database'[s]
      BY <3>1, <3>2, <3>3
    <3>6. decision'[s] # "none" => decision'[s] = new'
      BY <3>2, <3>4
    <3> QED  BY <3>5, <3>6, Zenon DEF new
  <2> QED  BY <2>4, <2>5
<1>7. ASSUME Crash PROVE Told(s)'
  <2>1. UNCHANGED <<database, decision>> /\ branch'[s] = Idle
    BY <1>7 DEF Crash
  <2> QED  BY <2>1, <1>s, <1>i
<1>8. ASSUME Restart \/ UNCHANGED vars PROVE Told(s)'
  <2>1. UNCHANGED <<database, decision, branch>>
    BY <1>8 DEF Restart, vars
  <2> QED  BY <2>1, <1>1
<1> QED
  BY <1>3, <1>4, <1>5, <1>6, <1>7, <1>8 DEF Next, Proceed

\* How many of the two runtimes found something.
LEMMA EvidenceCount ==
    ASSUME NEW r \in Requests
    PROVE  Cardinality({m \in Models : Positive(r, m)}) =
             IF Positive(r, "patchcore") /\ Positive(r, "yolo") THEN 2
             ELSE IF Positive(r, "patchcore") \/ Positive(r, "yolo") THEN 1 ELSE 0
<1> DEFINE found == {m \in Models : Positive(r, m)}
<1>1. CASE Positive(r, "patchcore") /\ Positive(r, "yolo")
  <2>1. found = {"patchcore"} \cup {"yolo"} /\ "yolo" \notin {"patchcore"}
    BY <1>1 DEF Models
  <2>2. IsFiniteSet({"patchcore"}) /\ Cardinality({"patchcore"}) = 1
    BY FS_Singleton
  <2> HIDE DEF found
  <2>3. Cardinality(found) = 1 + 1
    BY <2>1, <2>2, FS_AddElement
  <2> QED  BY <1>1, <2>3 DEF found
<1>2. CASE Positive(r, "patchcore") /\ ~Positive(r, "yolo")
  <2>1. found = {"patchcore"}
    BY <1>2 DEF Models
  <2> QED  BY <1>2, <2>1, FS_Singleton
<1>3. CASE ~Positive(r, "patchcore") /\ Positive(r, "yolo")
  <2>1. found = {"yolo"}
    BY <1>3 DEF Models
  <2> QED  BY <1>3, <2>1, FS_Singleton
<1>4. CASE ~Positive(r, "patchcore") /\ ~Positive(r, "yolo")
  <2>1. found = {}
    BY <1>4 DEF Models
  <2> QED  BY <1>4, <2>1, FS_EmptySet
<1> QED  BY <1>1, <1>2, <1>3, <1>4

\* The durable disposition tells the evidence of its own request.
THEOREM InspectionDecidesOnEvidence == Spec => []DecisionTellsEvidence
<1>1. Init => DecisionShape
  BY DEF Init, DecisionShape
<1>2. DecisionShape => DecisionTellsEvidence
  <2> SUFFICES ASSUME DecisionShape, NEW r \in Requests
               PROVE  /\ decision[r] # "none" <=> "decision" \in database[r]
                      /\ decision[r] # "none" /\ branch[r] # Idle =>
                           decision[r] = LET evidence == Cardinality({m \in Models : Positive(r, m)})
                                         IN  CASE evidence = 0 -> "PASS"
                                               [] evidence = 1 -> "REVIEW"
                                               [] evidence = 2 -> "REJECT"
    BY DEF DecisionTellsEvidence
  <2> DEFINE evidence == Cardinality({m \in Models : Positive(r, m)})
  <2>1. evidence = IF Positive(r, "patchcore") /\ Positive(r, "yolo") THEN 2
                   ELSE IF Positive(r, "patchcore") \/ Positive(r, "yolo") THEN 1 ELSE 0
    BY EvidenceCount
  <2> HIDE DEF evidence
  <2>2. Disposition(Positive(r, "patchcore"), Positive(r, "yolo")) =
          CASE evidence = 0 -> "PASS" [] evidence = 1 -> "REVIEW" [] evidence = 2 -> "REJECT"
    BY <2>1 DEF Disposition
  <2>3. decision[r] # "none" /\ branch[r] # Idle =>
          decision[r] = Disposition(Positive(r, "patchcore"), Positive(r, "yolo"))
    BY DEF DecisionShape
  <2>4. decision[r] # "none" <=> "decision" \in database[r]
    BY DEF DecisionShape
  <2> QED  BY <2>2, <2>3, <2>4 DEF evidence
<1> QED  BY <1>1, <1>2, DecisionStep, InspectionInvariant, PTL DEF Spec

-----------------------------------------------------------------------------
\* The requests whose success was answered on an endpoint that counts.
Counted == {r \in Requests : response[r] = "ok" /\ Kind[r] # "known"}

CountInv == predictions \in Nat /\ predictions <= Cardinality(Counted)

LEMMA CountStep ==
    ASSUME IsFiniteSet(Requests), InspectionInv, CountInv, [Next]_vars PROVE CountInv'
<1>f. IsFiniteSet(Counted) /\ Cardinality(Counted) \in Nat
  <2>1. Counted \in SUBSET Requests
    BY DEF Counted
  <2> QED  BY <2>1, FS_Subset, FS_CardinalityType
<1>g. IsFiniteSet(Counted') /\ Cardinality(Counted') \in Nat
  <2>1. Counted' \in SUBSET Requests
    BY DEF Counted
  <2> QED  BY <2>1, FS_Subset, FS_CardinalityType
<1>y. DOMAIN response = Requests
  BY DEF InspectionInv, Typed
<1>r. \A r \in Requests : handler[r] \notin {"answered", "lost"} => response[r] = "none"
  BY DEF InspectionInv, HandlerShape
<1> USE DEF Become, handlerVars, inferVars, dbVars
<1>1. ASSUME UNCHANGED <<predictions, response>> PROVE CountInv'
  <2>1. Counted' = Counted
    BY <1>1 DEF Counted
  <2> QED  BY <1>1, <2>1 DEF CountInv
<1>2. ASSUME NEW r \in Requests,
             \/ Receive(r) \/ InferenceSucceeds(r) \/ BeginInsert(r) \/ Flush(r) \/ Rollback(r)
             \/ Commit(r) \/ CommitUnacknowledged(r) \/ RunTask(r)
             \/ \E m \in Models : StartBranch(r, m) \/ AcquireLock(r, m) \/ FinishBranch(r, m)
      PROVE  CountInv'
  <2>1. UNCHANGED <<predictions, response>>
    BY <1>2 DEF Receive, InferenceSucceeds, BeginInsert, Flush, Rollback, Commit,
                CommitUnacknowledged, LeaveThread, RunTask, StartBranch, AcquireLock, FinishBranch
  <2> QED  BY <2>1, <1>1
<1>3. ASSUME NEW r \in Requests, InferenceFails(r) \/ DecisionFails(r) \/ AnswerFailure(r)
      PROVE  CountInv'
  <2>1. AnswerError(r) /\ response[r] = "none"
    BY <1>3, <1>r DEF InferenceFails, BranchesEnded, DecisionFails, AnswerFailure
  <2>2. UNCHANGED predictions /\ response' = [response EXCEPT ![r] = "failed"]
    BY <2>1 DEF AnswerError
  <2>3. Counted' = Counted
    BY <2>1, <2>2, <1>y DEF Counted
  <2> QED  BY <2>2, <2>3 DEF CountInv
<1>4. ASSUME NEW r \in Requests, AnswerSuccess(r) PROVE CountInv'
  <2>1. /\ response[r] = "none" /\ response' = [response EXCEPT ![r] = "ok"]
        /\ predictions' = IF Kind[r] = "known" THEN predictions ELSE predictions + 1
    BY <1>4, <1>r DEF AnswerSuccess
  <2>2. CASE Kind[r] = "known"
    <3>1. Counted' = Counted
      BY <2>1, <2>2, <1>y DEF Counted
    <3> QED  BY <2>1, <2>2, <3>1 DEF CountInv
  <2>3. CASE Kind[r] # "known"
    <3>1. Counted' = Counted \cup {r} /\ r \notin Counted
      BY <2>1, <2>3, <1>y DEF Counted
    <3>2. Cardinality(Counted') = Cardinality(Counted) + 1
      BY <3>1, <1>f, FS_AddElement
    <3>3. predictions' = predictions + 1
      BY <2>1, <2>3
    <3> QED  BY <3>2, <3>3, <1>f DEF CountInv
  <2> QED  BY <2>2, <2>3
<1>5. ASSUME Crash PROVE CountInv'
  <2>1. predictions' = 0
    BY <1>5 DEF Crash
  <2> QED  BY <2>1, <1>g DEF CountInv
<1>6. ASSUME Restart \/ UNCHANGED vars PROVE CountInv'
  <2>1. UNCHANGED <<predictions, response>>
    BY <1>6 DEF Restart, vars
  <2> QED  BY <2>1, <1>1
<1> QED
  BY <1>2, <1>3, <1>4, <1>5, <1>6 DEF Next, Proceed

\* Only stored predictions are counted, however many requests there are (finitely many).
THEOREM InspectionCountsPersisted ==
    ASSUME IsFiniteSet(Requests) PROVE Spec => []CountsOnlyPersisted
<1>1. Init => CountInv
  <2> SUFFICES ASSUME Init PROVE CountInv
    OBVIOUS
  <2>1. Counted = {} /\ predictions = 0
    BY DEF Init, Counted
  <2> QED  BY <2>1, FS_EmptySet DEF CountInv
<1>2. InspectionInv /\ CountInv /\ [Next]_vars => CountInv'
  BY CountStep
<1>3. InspectionInv /\ CountInv => CountsOnlyPersisted
  <2> SUFFICES ASSUME InspectionInv, CountInv PROVE CountsOnlyPersisted
    OBVIOUS
  <2> DEFINE stored == {r \in Requests : "inspection" \in database[r]}
  <2>1. stored \in SUBSET Requests /\ Counted \in SUBSET stored
    <3>1. ASSUME NEW r \in Counted PROVE "inspection" \in database[r]
      BY <3>1, EndpointFacts DEF Counted, InspectionInv, HandlerShape
    <3> QED  BY <3>1 DEF Counted
  <2>2. IsFiniteSet(stored)
    BY <2>1, FS_Subset
  <2>3. /\ Cardinality(stored) \in Nat /\ Cardinality(Counted) \in Nat
        /\ Cardinality(Counted) <= Cardinality(stored)
    <3>1. IsFiniteSet(Counted) /\ Cardinality(Counted) <= Cardinality(stored)
      BY <2>1, <2>2, FS_Subset
    <3> QED  BY <2>2, <3>1, FS_CardinalityType
  <2> HIDE DEF stored
  <2>4. predictions <= Cardinality(stored)
    BY <2>3 DEF CountInv
  <2> QED  BY <2>4 DEF stored, CountsOnlyPersisted
<1> QED  BY <1>1, <1>2, <1>3, InspectionInvariant, PTL DEF Spec

-----------------------------------------------------------------------------
(* Every request is answered: the two halves that are safety.  Somebody    *)
(* can always move, and nobody moves for ever.                             *)

\* Somebody works for request q and waits for nothing: a thread that has its model's
\* lock or finds it free, a branch that finds a thread, a statement of the database,
\* or the handler itself when its branches ended.
CanMove(q) ==
    \/ \E m \in Models :
          \/ branch[q][m] = "queued" /\ Cardinality(pool) < PoolSize
          \/ branch[q][m] = "started" /\ lock[m] = Free
          \/ branch[q][m] = "running"
    \/ handler[q] = "decided" /\ Cardinality(pool) < PoolSize
    \/ handler[q] = "inserting"
    \/ BranchesEnded(q)

\* A request that waits, for a pool thread or for a runtime's lock, waits for one that
\* can move: handlers, pool threads and locks form no cycle.
NobodyWaitsInACycle ==
    \A r \in Requests :
        handler[r] \in {"inferring", "decided"} => \E q \in Requests : CanMove(q)

\* The steps of request r that are left.
BranchSteps(pc) == CASE pc = "queued" -> 3
                     [] pc = "started" -> 2
                     [] pc = "running" -> 1
                     [] OTHER -> 0

HandlerSteps(pc, rows) == CASE pc = "none" -> 18
                            [] pc = "inferring" -> 11
                            [] pc = "decided" -> 10
                            [] pc = "inserting" -> 9 - rows
                            [] pc \in {"committed", "failing"} -> 4
                            [] OTHER -> 0

StepsLeft(r) == HandlerSteps(handler[r], Len(session[r])) + Len(tasks[r])
                + BranchSteps(branch[r]["patchcore"]) + BranchSteps(branch[r]["yolo"])

\* A request takes at most 18 steps, nothing else gives it one back: no handler polls,
\* retries or waits twice for the same thing.
RequestsAreBounded ==
    /\ [](\A r \in Requests : StepsLeft(r) \in 0 .. 18)
    /\ [][\A r \in Requests :
             /\ StepsLeft(r)' <= StepsLeft(r)
             /\ Receive(r) \/ Proceed(r) => StepsLeft(r)' < StepsLeft(r)]_vars

\* A handler that waits for a branch has handed it to the pool.
AwaitedShape ==
    \A r \in Requests : handler[r] = "inferring" =>
        \A m \in ModelsOf(r) : branch[r][m] # "idle"

LEMMA AwaitedStep == ASSUME InspectionInv, AwaitedShape, [Next]_vars PROVE AwaitedShape'
<1> SUFFICES ASSUME NEW s \in Requests, handler'[s] = "inferring", NEW k \in ModelsOf(s)
             PROVE  branch'[s][k] # "idle"
  BY DEF AwaitedShape, ModelsOf
<1>y. k \in Models
  BY CombinedInspectionAssumption DEF ModelsOf, Models
<1>t. handler \in [Requests -> HandlerPcs] /\ branch \in [Requests -> [Models -> BranchPcs]]
  BY DEF InspectionInv, Typed
<1>i. handler[s] = "inferring" => branch[s][k] # "idle"
  BY DEF AwaitedShape
<1> USE DEF Become, handlerVars, inferVars, dbVars
<1>1. CASE Receive(s)
  BY <1>1, <1>y, <1>t DEF Receive
<1>2. ASSUME NEW r \in Requests, r # s, Receive(r) PROVE branch'[s][k] # "idle"
  BY <1>2, <1>t, <1>i DEF Receive
<1>3. ASSUME NEW r \in Requests, NEW m \in Models,
             StartBranch(r, m) \/ AcquireLock(r, m) \/ FinishBranch(r, m)
      PROVE  branch'[s][k] # "idle"
  BY <1>3, <1>y, <1>t, <1>i DEF StartBranch, AcquireLock, FinishBranch
<1>4. ASSUME NEW r \in Requests,
             \/ InferenceFails(r) \/ InferenceSucceeds(r) \/ DecisionFails(r) \/ BeginInsert(r)
             \/ AnswerFailure(r) \/ AnswerSuccess(r)
      PROVE  branch'[s][k] # "idle"
  <2>1. UNCHANGED branch /\ \E pc \in HandlerPcs \ {"inferring"} : handler' = [handler EXCEPT ![r] = pc]
    BY <1>4 DEF InferenceFails, InferenceSucceeds, DecisionFails, BeginInsert, AnswerFailure,
                AnswerSuccess, AnswerError, HandlerPcs
  <2> QED  BY <2>1, <1>t, <1>i
<1>5. ASSUME NEW r \in Requests, Commit(r) \/ CommitUnacknowledged(r) \/ Rollback(r)
      PROVE  branch'[s][k] # "idle"
  <2>1. UNCHANGED branch /\ \E pc \in {"committed", "failing"} : handler' = [handler EXCEPT ![r] = pc]
    BY <1>5 DEF Commit, CommitUnacknowledged, Rollback, LeaveThread
  <2> QED  BY <2>1, <1>t, <1>i
<1>6. ASSUME NEW r \in Requests, Flush(r) \/ RunTask(r) PROVE branch'[s][k] # "idle"
  BY <1>6, <1>i DEF Flush, RunTask
<1>7. CASE Crash
  BY <1>7 DEF Crash, Working
<1>8. CASE Restart \/ UNCHANGED vars
  BY <1>8, <1>i DEF Restart, vars
<1> QED
  BY <1>1, <1>2, <1>3, <1>4, <1>5, <1>6, <1>7, <1>8 DEF Next, Proceed

\* Pool threads and runtime locks cannot deadlock, for any pool size and any number of
\* requests: whatever fills the pool can move, because the holder of the lock a thread
\* waits for is on a thread of its own.
THEOREM InspectionHasNoCycle == Spec => []NobodyWaitsInACycle
<1>1. InspectionInv /\ AwaitedShape => NobodyWaitsInACycle
  <2> SUFFICES ASSUME InspectionInv, AwaitedShape, NEW r \in Requests, handler[r] \in {"inferring", "decided"}
               PROVE  \E q \in Requests : CanMove(q)
    BY DEF NobodyWaitsInACycle
  <2>1. ASSUME NEW q \in Requests, NEW m \in Models, branch[q][m] = "started"
        PROVE  \E p \in Requests : CanMove(p)
    <3>1. CASE lock[m] = Free
      BY <2>1, <3>1 DEF CanMove
    <3>2. CASE lock[m] # Free
      <4>1. lock[m] \in Requests /\ branch[lock[m]][m] = "running"
        BY <3>2 DEF InspectionInv, LockShape
      <4> QED  BY <2>1, <4>1 DEF CanMove
    <3> QED  BY <3>1, <3>2
  <2>2. CASE Cardinality(pool) < PoolSize
    <3>1. CASE handler[r] = "decided"
      BY <2>2, <3>1 DEF CanMove
    <3>2. CASE handler[r] = "inferring" /\ ~BranchesEnded(r)
      <4>1. PICK m \in ModelsOf(r) : branch[r][m] \notin {"positive", "negative", "failed"}
        BY <3>2 DEF BranchesEnded
      <4>2. m \in Models
        BY CombinedInspectionAssumption DEF ModelsOf, Models
      <4>3. branch[r][m] \in {"queued", "started", "running"}
        BY <3>2, <4>1, <4>2 DEF InspectionInv, Typed, BranchPcs, AwaitedShape
      <4> QED  BY <2>1, <2>2, <4>2, <4>3 DEF CanMove
    <3> QED  BY <3>1, <3>2 DEF CanMove
  <2>3. CASE ~(Cardinality(pool) < PoolSize)
    <3>1. pool # {}
      BY <2>3, FS_EmptySet, CombinedInspectionAssumption
    <3>2. PICK q \in Requests, w \in Models \cup {"insert"} : <<q, w>> \in pool
      BY <3>1 DEF InspectionInv, ThreadShape
    <3>3. CASE w = "insert"
      BY <3>2, <3>3 DEF CanMove, InspectionInv, ThreadShape
    <3>4. CASE w \in Models
      <4>1. branch[q][w] \in {"started", "running"}
        BY <3>2, <3>4 DEF InspectionInv, ThreadShape
      <4> QED  BY <2>1, <3>2, <3>4, <4>1 DEF CanMove
    <3> QED  BY <3>2, <3>3, <3>4
  <2> QED  BY <2>2, <2>3
<1>2. Init => AwaitedShape
  BY DEF Init, AwaitedShape
<1>3. InspectionInv /\ AwaitedShape /\ [Next]_vars => AwaitedShape'
  BY AwaitedStep
<1> QED  BY <1>1, <1>2, <1>3, InspectionInvariant, PTL DEF Spec

LEMMA BranchStepsAre ==
    ASSUME NEW pc
    PROVE  /\ pc = "queued" => BranchSteps(pc) = 3
           /\ pc = "started" => BranchSteps(pc) = 2
           /\ pc = "running" => BranchSteps(pc) = 1
           /\ pc \notin {"queued", "started", "running"} => BranchSteps(pc) = 0
           /\ BranchSteps(pc) \in 0 .. 3
<1>1. /\ pc = "queued" => BranchSteps(pc) = 3
      /\ pc = "started" => BranchSteps(pc) = 2
      /\ pc = "running" => BranchSteps(pc) = 1
      /\ pc \notin {"queued", "started", "running"} => BranchSteps(pc) = 0
  BY Zenon DEF BranchSteps
<1> QED  BY <1>1

LEMMA HandlerStepsAre ==
    ASSUME NEW pc, NEW rows
    PROVE  /\ pc = "none" => HandlerSteps(pc, rows) = 18
           /\ pc = "inferring" => HandlerSteps(pc, rows) = 11
           /\ pc = "decided" => HandlerSteps(pc, rows) = 10
           /\ pc = "inserting" => HandlerSteps(pc, rows) = 9 - rows
           /\ pc \in {"committed", "failing"} => HandlerSteps(pc, rows) = 4
           /\ pc \in {"answered", "lost"} => HandlerSteps(pc, rows) = 0
BY Zenon DEF HandlerSteps

\* An endpoint has at most four rows and three channels.
LEMMA EndpointLengths ==
    ASSUME NEW r \in Requests PROVE Len(RowsOf(r)) \in 1 .. 4 /\ Len(Channels(r)) \in 1 .. 3
<1>1. Kind[r] \in {"patchcore", "known", "combined"}
  BY CombinedInspectionAssumption
<1>2. CASE Kind[r] = "patchcore"
  BY <1>2 DEF RowsOf, Channels
<1>3. CASE Kind[r] = "known"
  BY <1>3 DEF RowsOf, Channels
<1>4. CASE Kind[r] = "combined"
  BY <1>4 DEF RowsOf, Channels
<1> QED  BY <1>1, <1>2, <1>3, <1>4

LEMMA StepsLeftIsBounded == InspectionInv => \A r \in Requests : StepsLeft(r) \in 0 .. 18
<1> SUFFICES ASSUME InspectionInv, NEW r \in Requests PROVE StepsLeft(r) \in 0 .. 18
  OBVIOUS
<1> DEFINE n == Len(session[r])
           k == Len(tasks[r])
           h == HandlerSteps(handler[r], n)
           p == BranchSteps(branch[r]["patchcore"])
           y == BranchSteps(branch[r]["yolo"])
<1>1. /\ handler[r] \in HandlerPcs
      /\ n \in 0 .. 4
  <2> DEFINE w == Len(RowsOf(r))
  <2>1. session[r] \in Seq(Rows) /\ n <= w /\ handler[r] \in HandlerPcs
    BY DEF InspectionInv, Typed, SessionShape
  <2>2. w \in 1 .. 4
    BY EndpointLengths
  <2>3. n \in Nat
    BY <2>1
  <2> HIDE DEF n, w
  <2>4. n \in 0 .. 4
    BY <2>1, <2>2, <2>3
  <2> QED  BY <2>1, <2>4
<1>2. k \in 0 .. 3 /\ (handler[r] \notin {"answered", "lost"} => k = 0)
  <2> DEFINE a == Len(announced[r])
             c == Len(Channels(r))
  <2>1. tasks[r] \in Seq(Names) /\ announced[r] \in Seq(Names)
    BY DEF InspectionInv, Typed
  <2>2. tasks[r] # <<>> => a + k = c
    BY DEF InspectionInv, TasksShape
  <2>3. handler[r] \notin {"answered", "lost"} => tasks[r] = <<>>
    BY DEF InspectionInv, TasksShape, HandlerShape
  <2>4. k \in Nat /\ a \in Nat /\ (tasks[r] = <<>> => k = 0)
    BY <2>1
  <2>5. c \in 1 .. 3
    BY EndpointLengths
  <2> HIDE DEF a, c, k
  <2>6. k \in 0 .. 3
    BY <2>2, <2>4, <2>5
  <2> QED  BY <2>3, <2>4, <2>6
<1>3. /\ p \in 0 .. 3 /\ y \in 0 .. 3
      /\ handler[r] # "inferring" => p = 0 /\ y = 0
  <2>1. ASSUME NEW m \in Models
        PROVE  /\ BranchSteps(branch[r][m]) \in 0 .. 3
               /\ handler[r] # "inferring" => BranchSteps(branch[r][m]) = 0
    BY <2>1, BranchStepsAre DEF InspectionInv, BranchShape
  <2>2. "patchcore" \in Models /\ "yolo" \in Models
    BY DEF Models
  <2> QED  BY <2>1, <2>2
<1>4. /\ handler[r] = "none" => h = 18
      /\ handler[r] = "inferring" => h = 11
      /\ handler[r] \notin {"none", "inferring"} => h \in 0 .. 10
      /\ handler[r] \in {"answered", "lost"} => h = 0
  <2>1. /\ handler[r] = "none" => h = 18
        /\ handler[r] = "inferring" => h = 11
        /\ handler[r] = "decided" => h = 10
        /\ handler[r] = "inserting" => h = 9 - n
        /\ handler[r] \in {"committed", "failing"} => h = 4
        /\ handler[r] \in {"answered", "lost"} => h = 0
    BY HandlerStepsAre
  <2> HIDE DEF h, n
  <2>2. handler[r] = "inserting" => h \in 0 .. 10
    BY <1>1, <2>1
  <2> QED  BY <1>1, <2>1, <2>2 DEF HandlerPcs
<1>5. StepsLeft(r) = h + k + p + y
  BY DEF StepsLeft
<1> HIDE DEF n, h, k, p, y
<1>6. h \in Nat
  BY <1>1, <1>4 DEF HandlerPcs
<1> QED  BY <1>1, <1>2, <1>3, <1>4, <1>5, <1>6

LEMMA StepsLeftStep ==
    ASSUME InspectionInv, [Next]_vars, NEW s \in Requests
    PROVE  /\ StepsLeft(s)' <= StepsLeft(s)
           /\ Receive(s) \/ Proceed(s) => StepsLeft(s)' < StepsLeft(s)
<1> DEFINE n1 == Len(session[s])      n2 == Len(session'[s])
           h1 == HandlerSteps(handler[s], n1)
           h2 == HandlerSteps(handler'[s], n2)
           k1 == Len(tasks[s])        k2 == Len(tasks'[s])
           p1 == BranchSteps(branch[s]["patchcore"])
           p2 == BranchSteps(branch'[s]["patchcore"])
           y1 == BranchSteps(branch[s]["yolo"])
           y2 == BranchSteps(branch'[s]["yolo"])
           Less == StepsLeft(s)' < StepsLeft(s)
           Same == StepsLeft(s)' = StepsLeft(s)
<1>v. StepsLeft(s) = h1 + k1 + p1 + y1 /\ StepsLeft(s)' = h2 + k2 + p2 + y2
  BY DEF StepsLeft
<1>t. /\ handler \in [Requests -> HandlerPcs] /\ branch \in [Requests -> [Models -> BranchPcs]]
      /\ session \in [Requests -> Seq(Rows)] /\ tasks \in [Requests -> Seq(Names)]
  BY DEF InspectionInv, Typed
<1>u. Typed'
  BY TypedStep
<1>n. n1 \in 0 .. 4 /\ n2 \in Nat
  <2> DEFINE w == Len(RowsOf(s))
  <2>1. n1 \in Nat /\ n1 <= w /\ n2 \in Nat
    BY <1>t, <1>u DEF InspectionInv, SessionShape, Typed
  <2>2. w \in 1 .. 4
    BY EndpointLengths
  <2> HIDE DEF n1, w
  <2>3. n1 \in 0 .. 4
    BY <2>1, <2>2
  <2> QED  BY <2>1, <2>3
<1>k. k1 \in Nat /\ k2 \in Nat
  BY <1>t, <1>u DEF Typed
<1>b. p1 \in 0 .. 3 /\ p2 \in 0 .. 3 /\ y1 \in 0 .. 3 /\ y2 \in 0 .. 3
  BY BranchStepsAre
<1>h. h1 \in Int /\ h2 \in Int
  <2>1. handler[s] \in HandlerPcs /\ handler'[s] \in HandlerPcs
    BY <1>t, <1>u DEF Typed
  <2>2. ASSUME NEW pc \in HandlerPcs, NEW n \in Int PROVE HandlerSteps(pc, n) \in Int
    BY HandlerStepsAre DEF HandlerPcs
  <2> HIDE DEF n1, n2
  <2> QED  BY <1>n, <2>1, <2>2
<1>m. "patchcore" \in Models /\ "yolo" \in Models /\ Models = {"patchcore", "yolo"}
  BY DEF Models
<1>0. ASSUME handler'[s] = handler[s], session'[s] = session[s], tasks'[s] = tasks[s],
             branch'[s] = branch[s]
      PROVE  Same
  BY <1>0 DEF StepsLeft
<1>a. ASSUME h2 < h1, k2 = k1, p2 = p1, y2 = y1 PROVE Less
  <2> HIDE DEF h1, h2, k1, k2, p1, p2, y1, y2
  <2> QED  BY <1>a, <1>v, <1>h, <1>k, <1>b
<1> USE DEF Become, handlerVars, inferVars, dbVars
<1>1. ASSUME NEW r \in Requests, Receive(r) PROVE IF r = s THEN Less ELSE Same
  <2>1. CASE r = s
    <3>1. handler[s] = "none" /\ handler'[s] = "inferring" /\ UNCHANGED tasks
      BY <1>1, <1>t, <2>1 DEF Receive
    <3>2. h1 = 18 /\ h2 = 11 /\ k2 = k1
      BY <3>1, HandlerStepsAre
    <3> HIDE DEF h1, h2, k1, k2, p1, p2, y1, y2
    <3> QED  BY <2>1, <3>2, <1>v, <1>k, <1>b
  <2>2. CASE r # s
    BY <1>0, <1>1, <1>t, <2>2 DEF Receive
  <2> QED  BY <2>1, <2>2
<1>2. ASSUME NEW r \in Requests, NEW m \in Models,
             StartBranch(r, m) \/ AcquireLock(r, m) \/ FinishBranch(r, m)
      PROVE  IF r = s THEN Less ELSE Same
  <2>1. PICK pc \in BranchPcs :
          /\ branch' = [branch EXCEPT ![r][m] = pc]
          /\ BranchSteps(pc) < BranchSteps(branch[r][m])
    BY <1>2, BranchStepsAre DEF StartBranch, AcquireLock, FinishBranch, BranchPcs
  <2>2. UNCHANGED <<handler, session, tasks>>
    BY <1>2 DEF StartBranch, AcquireLock, FinishBranch
  <2>3. CASE r = s
    <3>1. branch'[s][m] = pc /\ \A j \in Models \ {m} : branch'[s][j] = branch[s][j]
      BY <1>t, <2>1, <2>3
    <3>2. h2 = h1 /\ k2 = k1
      BY <2>2
    <3>3. (p2 < p1 /\ y2 = y1) \/ (p2 = p1 /\ y2 < y1)
      BY <1>m, <2>1, <2>3, <3>1
    <3> HIDE DEF h1, h2, k1, k2, p1, p2, y1, y2
    <3> QED  BY <2>3, <3>2, <3>3, <1>v, <1>h, <1>k, <1>b
  <2>4. CASE r # s
    BY <1>0, <1>t, <2>1, <2>2, <2>4
  <2> QED  BY <2>3, <2>4
<1>3. ASSUME NEW r \in Requests,
             InferenceFails(r) \/ InferenceSucceeds(r) \/ DecisionFails(r) \/ AnswerFailure(r)
      PROVE  IF r = s THEN Less ELSE Same
  <2>1. UNCHANGED <<session, tasks, branch>>
    BY <1>3 DEF InferenceFails, InferenceSucceeds, DecisionFails, AnswerFailure, AnswerError
  <2>2. /\ r # s => handler'[s] = handler[s]
        /\ r = s => \/ handler[s] = "inferring" /\ handler'[s] \in {"decided", "answered"}
                    \/ handler[s] \in {"decided", "failing"} /\ handler'[s] = "answered"
    BY <1>3, <1>t DEF InferenceFails, InferenceSucceeds, BranchesEnded, DecisionFails,
                      AnswerFailure, AnswerError
  <2>3. CASE r = s
    <3>1. h2 < h1
      BY <2>2, <2>3, HandlerStepsAre
    <3> QED  BY <1>a, <2>1, <2>3, <3>1
  <2> QED  BY <1>0, <2>1, <2>2, <2>3
<1>4. ASSUME NEW r \in Requests, BeginInsert(r) PROVE IF r = s THEN Less ELSE Same
  <2>1. /\ UNCHANGED <<session, tasks, branch>>
        /\ r # s => handler'[s] = handler[s]
        /\ r = s => handler[s] = "decided" /\ handler'[s] = "inserting"
    BY <1>4, <1>t DEF BeginInsert
  <2>2. CASE r = s
    <3>1. h1 = 10 /\ h2 = 9 - n1
      BY <2>1, <2>2, HandlerStepsAre
    <3>2. h2 < h1
      <4> HIDE DEF h1, h2, n1
      <4> QED  BY <3>1, <1>n
    <3> QED  BY <1>a, <2>1, <2>2, <3>2
  <2> QED  BY <1>0, <2>1, <2>2
<1>5. ASSUME NEW r \in Requests, Flush(r) PROVE IF r = s THEN Less ELSE Same
  <2>1. /\ UNCHANGED <<handler, tasks, branch>> /\ handler[r] = "inserting"
        /\ session' = [session EXCEPT ![r] = Append(@, RowsOf(r)[Len(@) + 1])]
    BY <1>5 DEF Flush
  <2>2. CASE r = s
    <3>1. n2 = n1 + 1
      BY <1>t, <2>1, <2>2, AppendProperties
    <3>2. h1 = 9 - n1 /\ h2 = 9 - n2
      BY <2>1, <2>2, HandlerStepsAre
    <3>3. h2 < h1
      <4> HIDE DEF h1, h2, n1, n2
      <4> QED  BY <3>1, <3>2, <1>n
    <3> QED  BY <1>a, <2>1, <2>2, <3>3
  <2> QED  BY <1>0, <1>t, <2>1, <2>2
<1>6. ASSUME NEW r \in Requests, Commit(r) \/ CommitUnacknowledged(r) \/ Rollback(r)
      PROVE  IF r = s THEN Less ELSE Same
  <2>1. /\ UNCHANGED <<tasks, branch>>
        /\ handler[r] = "inserting"
        /\ \E pc \in {"committed", "failing"} : handler' = [handler EXCEPT ![r] = pc]
        /\ session' = [session EXCEPT ![r] = <<>>]
    BY <1>6 DEF Commit, CommitUnacknowledged, Rollback, LeaveThread, AllFlushed, MakeDurable
  <2>2. CASE r = s
    <3>1. handler'[s] \in {"committed", "failing"} /\ handler[s] = "inserting"
      BY <1>t, <2>1, <2>2
    <3>2. h1 = 9 - n1 /\ h2 = 4
      BY <3>1, HandlerStepsAre
    <3>3. h2 < h1
      <4> HIDE DEF h1, h2, n1
      <4> QED  BY <3>2, <1>n
    <3> QED  BY <1>a, <2>1, <2>2, <3>3
  <2> QED  BY <1>0, <1>t, <2>1, <2>2
<1>7. ASSUME NEW r \in Requests, AnswerSuccess(r) PROVE IF r = s THEN Less ELSE Same
  <2>1. /\ UNCHANGED <<session, branch>> /\ handler[r] = "committed"
        /\ handler' = [handler EXCEPT ![r] = "answered"]
        /\ tasks' = [tasks EXCEPT ![r] = Channels(r)]
    BY <1>7 DEF AnswerSuccess
  <2>2. CASE r = s
    <3>1. h1 = 4 /\ h2 = 0
      BY <1>t, <2>1, <2>2, HandlerStepsAre
    <3>2. k2 \in 1 .. 3
      BY <1>t, <2>1, <2>2, EndpointLengths
    <3>3. p2 = p1 /\ y2 = y1
      BY <2>1
    <3> HIDE DEF h1, h2, k1, k2, p1, p2, y1, y2
    <3> QED  BY <2>2, <3>1, <3>2, <3>3, <1>v, <1>k, <1>b
  <2> QED  BY <1>0, <1>t, <2>1, <2>2
<1>8. ASSUME NEW r \in Requests, RunTask(r) PROVE IF r = s THEN Less ELSE Same
  <2>1. /\ UNCHANGED <<handler, session, branch>> /\ tasks[r] # <<>>
        /\ tasks' = [tasks EXCEPT ![r] = Tail(@)]
    BY <1>8 DEF RunTask
  <2>2. CASE r = s
    <3>1. k2 = k1 - 1
      BY <1>t, <2>1, <2>2, HeadTailProperties
    <3>2. h2 = h1 /\ p2 = p1 /\ y2 = y1
      BY <2>1
    <3> HIDE DEF h1, h2, k1, k2, p1, p2, y1, y2
    <3> QED  BY <2>2, <3>1, <3>2, <1>v, <1>h, <1>k, <1>b
  <2> QED  BY <1>0, <1>t, <2>1, <2>2
<1>9. ASSUME Crash PROVE StepsLeft(s)' <= StepsLeft(s)
  <2>1. /\ tasks'[s] = <<>> /\ branch'[s] = Idle
        /\ handler'[s] = IF Working(s) THEN "lost" ELSE handler[s]
    BY <1>9 DEF Crash
  <2>2. k2 = 0 /\ p2 = 0 /\ y2 = 0
    BY <1>m, <2>1, BranchStepsAre DEF Idle
  <2>3. handler[s] \in HandlerPcs
    BY <1>t
  <2>4. CASE Working(s)
    <3>1. h2 = 0 /\ h1 >= 0
      <4>1. h2 = 0
        BY <2>1, <2>4, HandlerStepsAre
      <4>2. /\ handler[s] = "inserting" => h1 = 9 - n1
            /\ handler[s] # "inserting" => h1 \in {4, 10, 11}
        BY <2>3, <2>4, HandlerStepsAre DEF Working, HandlerPcs
      <4> HIDE DEF h1, h2, n1
      <4> QED  BY <4>1, <4>2, <1>n
    <3> HIDE DEF h1, h2, k1, k2, p1, p2, y1, y2
    <3> QED  BY <2>2, <3>1, <1>v, <1>h, <1>k, <1>b
  <2>5. CASE ~Working(s)
    <3>1. h2 = h1
      BY <2>1, <2>3, <2>5, HandlerStepsAre DEF Working, HandlerPcs
    <3> HIDE DEF h1, h2, k1, k2, p1, p2, y1, y2
    <3> QED  BY <2>2, <3>1, <1>v, <1>h, <1>k, <1>b
  <2> QED  BY <2>4, <2>5
<1>10. ASSUME Restart \/ UNCHANGED vars PROVE Same
  BY <1>0, <1>10 DEF Restart, vars
<1>11. ASSUME NEW r \in Requests, Receive(r) \/ Proceed(r) PROVE IF r = s THEN Less ELSE Same
  BY <1>1, <1>2, <1>3, <1>4, <1>5, <1>6, <1>7, <1>8, <1>11 DEF Proceed
<1>12. StepsLeft(s) \in Int /\ StepsLeft(s)' \in Int
  <2> HIDE DEF h1, h2, k1, k2, p1, p2, y1, y2
  <2> QED  BY <1>v, <1>h, <1>k, <1>b
<1>13. Receive(s) \/ Proceed(s) => Less
  BY <1>11
<1>14. (\E r \in Requests : Receive(r) \/ Proceed(r)) => Less \/ Same
  BY <1>11
<1> QED  BY <1>9, <1>10, <1>12, <1>13, <1>14 DEF Next

\* Every request ends after at most 18 steps of its own, whatever fails: with
\* InspectionHasNoCycle the part of EveryRequestAnswered that needs no fairness.
THEOREM InspectionTerminates == Spec => RequestsAreBounded
<1>1. InspectionInv /\ [Next]_vars =>
        [\A r \in Requests :
            /\ StepsLeft(r)' <= StepsLeft(r)
            /\ Receive(r) \/ Proceed(r) => StepsLeft(r)' < StepsLeft(r)]_vars
  BY StepsLeftStep
<1>2. Spec => [](\A r \in Requests : StepsLeft(r) \in 0 .. 18)
  BY StepsLeftIsBounded, InspectionInvariant, PTL
<1>3. Spec => [][\A r \in Requests :
                   /\ StepsLeft(r)' <= StepsLeft(r)
                   /\ Receive(r) \/ Proceed(r) => StepsLeft(r)' < StepsLeft(r)]_vars
  BY <1>1, InspectionInvariant, PTL DEF Spec
<1> QED  BY <1>2, <1>3 DEF RequestsAreBounded

=============================================================================
