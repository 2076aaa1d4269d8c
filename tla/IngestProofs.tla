---------------------------- MODULE IngestProofs ----------------------------
(***************************************************************************)
(* The safety of the service, for any number of uploads, threads and       *)
(* polling requests, and any number of shutdowns, crashes and errors: rows,*)
(* results, queue, threads and answers stay consistent, and the service    *)
(* implements the abstract life cycle of a job.                            *)
(***************************************************************************)
EXTENDS Ingest, TLAPS

-----------------------------------------------------------------------------
(* Facts about the queue and about the operations of an upload. *)

(* Appending keeps what is there and adds one work item. *)
LEMMA AppendFacts ==
    ASSUME NEW S, NEW q \in Seq(S), NEW e \in S
    PROVE  /\ Append(q, e) \in Seq(S)
           /\ Len(Append(q, e)) = Len(q) + 1
           /\ \A i \in 1..Len(q) : Append(q, e)[i] = q[i]
           /\ Append(q, e)[Len(q) + 1] = e
           /\ Len(q) \in Nat
    OBVIOUS

(* Taking the head leaves the others, one place further to the front. *)
LEMMA TailFacts ==
    ASSUME NEW S, NEW q \in Seq(S), q # <<>>
    PROVE  /\ Head(q) = q[1] /\ Head(q) \in S
           /\ Tail(q) \in Seq(S)
           /\ Len(q) \in Nat /\ Len(q) >= 1
           /\ Len(Tail(q)) = Len(q) - 1
           /\ \A i \in 1..Len(Tail(q)) : Tail(q)[i] = q[i + 1]
    OBVIOUS

(* Which stage a handler is at when it performs an operation. *)
LEMMA Stages ==
    ASSUME TypeOK, NEW j \in Jobs
    PROVE  /\ Len(upload_order) = 4
           /\ At(j, "read") => stage[j] = 1
           /\ At(j, "write_bytes") => stage[j] = 2
           /\ At(j, "create") => stage[j] = 3
           /\ At(j, "submit") => stage[j] = 4
           /\ stage[j] \in 0..4
    BY DEF TypeOK, At, InHandler, upload_order

(* The steps of a thread and of a reader write fields of one record: these *)
(* lemmas name the whole record they leave behind.                         *)
LEMMA ThreadAt ==
    ASSUME NEW t \in Threads, NEW a \in {"picked", "pipeline", "save"}
    PROVE  [t EXCEPT !.at = a]
              = [job |-> t.job, at |-> a, outcome |-> t.outcome]
    BY DEF Threads

(* ... of one thread, its outcome, *)
LEMMA ThreadOutcome ==
    ASSUME NEW t \in Threads, NEW o \in Terminal
    PROVE  [t EXCEPT !.outcome = o]
              = [job |-> t.job, at |-> t.at, outcome |-> o]
    BY DEF Threads

(* ... of the array of threads, at one thread, *)
LEMMA SetThreadAt ==
    ASSUME NEW f \in [Workers -> Threads], NEW w \in Workers,
           NEW a \in {"picked", "pipeline", "save"}
    PROVE  [f EXCEPT ![w].at = a]
              = [f EXCEPT ![w] =
                    [job |-> f[w].job, at |-> a, outcome |-> f[w].outcome]]
<1>1. f[w] \in Threads
    OBVIOUS
<1>2. [f[w] EXCEPT !.at = a]
         = [job |-> f[w].job, at |-> a, outcome |-> f[w].outcome]
    BY <1>1, ThreadAt
<1>3. QED
    BY <1>2, Zenon

(* ... both fields at once, as run_pipeline does, *)
LEMMA SetThreadOutcome ==
    ASSUME NEW f \in [Workers -> Threads], NEW w \in Workers,
           NEW a \in {"picked", "pipeline", "save"}, NEW o \in Terminal
    PROVE  [f EXCEPT ![w].at = a, ![w].outcome = o]
              = [f EXCEPT ![w] = [job |-> f[w].job, at |-> a, outcome |-> o]]
<1> DEFINE g == [f EXCEPT ![w].at = a]
           r == [job |-> f[w].job, at |-> a, outcome |-> f[w].outcome]
<1>1. g = [f EXCEPT ![w] = r]
  <2>1. [f[w] EXCEPT !.at = a] = r
    BY ThreadAt
  <2>2. QED
    BY <2>1, Zenon
<1>2. r \in Threads /\ g[w] = r
    BY <1>1 DEF Threads
<1>3. [g[w] EXCEPT !.outcome = o] = [job |-> f[w].job, at |-> a, outcome |-> o]
    BY <1>2, ThreadOutcome
<1>4. [g EXCEPT ![w].outcome = o]
         = [g EXCEPT ![w] = [job |-> f[w].job, at |-> a, outcome |-> o]]
    BY <1>3, Zenon
<1>5. @ = [f EXCEPT ![w] = [job |-> f[w].job, at |-> a, outcome |-> o]]
    BY <1>1
<1>6. QED
    BY <1>4, <1>5, Zenon

(* ... and the thread that has just taken a work item. *)
LEMMA PickedThread ==
    ASSUME NEW j
    PROVE  [IdleThread EXCEPT !.job = j, !.at = "picked"]
              = [job |-> j, at |-> "picked", outcome |-> "none"]
<1>1. [IdleThread EXCEPT !.job = j]
         = [job |-> j, at |-> "idle", outcome |-> "none"]
  BY DEF IdleThread
<1>2. [[job |-> j, at |-> "idle", outcome |-> "none"] EXCEPT !.at = "picked"]
         = [job |-> j, at |-> "picked", outcome |-> "none"]
  OBVIOUS
<1>3. QED
  BY <1>1, <1>2, Zenon

(* The same for the answer of a request: at, *)
LEMMA ReaderAt ==
    ASSUME NEW q \in Requests
    PROVE  [q EXCEPT !.at = "answered"]
              = [at |-> "answered", op |-> q.op, job |-> q.job,
                 knew |-> q.knew, status |-> q.status, result |-> q.result]
    BY DEF Requests

(* ... result, *)
LEMMA ReaderResult ==
    ASSUME NEW q \in Requests, NEW o \in Terminal \cup {"none"}
    PROVE  [q EXCEPT !.result = o]
              = [at |-> q.at, op |-> q.op, job |-> q.job,
                 knew |-> q.knew, status |-> q.status, result |-> o]
    BY DEF Requests

(* ... and both in the array of requests, as poll_result does. *)
LEMMA SetReader ==
    ASSUME NEW f \in [Readers -> Requests], NEW r \in Readers,
           NEW o \in Terminal \cup {"none"}
    PROVE  [f EXCEPT ![r].at = "answered", ![r].result = o]
              = [f EXCEPT ![r] =
                   [at |-> "answered", op |-> f[r].op, job |-> f[r].job,
                    knew |-> f[r].knew, status |-> f[r].status,
                    result |-> o]]
<1> DEFINE g == [f EXCEPT ![r].at = "answered"]
           q == [at |-> "answered", op |-> f[r].op, job |-> f[r].job,
                 knew |-> f[r].knew, status |-> f[r].status,
                 result |-> f[r].result]
           p == [at |-> "answered", op |-> f[r].op, job |-> f[r].job,
                 knew |-> f[r].knew, status |-> f[r].status, result |-> o]
<1>1. f[r] \in Requests
    OBVIOUS
<1>2. [f[r] EXCEPT !.at = "answered"] = q
    BY <1>1, ReaderAt
<1>3. g = [f EXCEPT ![r] = q]
    BY <1>2, Zenon
<1>4. q \in Requests /\ g[r] = q
    BY <1>1, <1>3 DEF Requests
<1>5. [g[r] EXCEPT !.result = o] = p
    BY <1>4, ReaderResult
<1>6. [g EXCEPT ![r].result = o] = [g EXCEPT ![r] = p]
    BY <1>5, Zenon
<1>7. @ = [f EXCEPT ![r] = p]
    BY <1>3
<1>8. QED
    BY <1>6, <1>7, Zenon

(* A request whose second read raises keeps the rest of its record. *)
LEMMA SetReaderRaised ==
    ASSUME NEW f \in [Readers -> Requests], NEW r \in Readers
    PROVE  [f EXCEPT ![r].at = "raised"]
              = [f EXCEPT ![r] =
                   [at |-> "raised", op |-> f[r].op, job |-> f[r].job,
                    knew |-> f[r].knew, status |-> f[r].status,
                    result |-> f[r].result]]
<1>1. f[r] \in Requests
    OBVIOUS
<1>2. [f[r] EXCEPT !.at = "raised"]
         = [at |-> "raised", op |-> f[r].op, job |-> f[r].job,
            knew |-> f[r].knew, status |-> f[r].status,
            result |-> f[r].result]
    BY <1>1 DEF Requests
<1>3. QED
    BY <1>2, Zenon

-----------------------------------------------------------------------------
(* Types.  TypeOK alone is not inductive: what a thread writes into a row  *)
(* is the outcome it holds, which is one from the pipeline on, and what it *)
(* writes to is the row of its job, which it has unless it is idle.        *)

Shapes ==
    /\ \A w \in Workers :
          /\ thread[w].at = "idle" => thread[w] = IdleThread
          /\ thread[w].at # "idle" => thread[w].job \in Jobs
          /\ thread[w].at = "save" => thread[w].outcome \in Terminal
    /\ \A r \in Readers :
          reader[r].at # "idle" => reader[r].job \in Jobs

(* What Advance and Answer do to the request. *)
LEMMA RequestTypes ==
    ASSUME TypeOK, NEW j \in Jobs,
           \/ Advance(j)
           \/ \E code \in {"refused", "error"} : Answer(j, code)
    PROVE  /\ stage' \in [Jobs -> 0..Len(upload_order)]
           /\ reply' \in [Jobs -> {"none", "accepted", "refused", "error",
                                    "lost"}]
  <1>1. Len(upload_order) = 4 /\ stage[j] \in 0..4
    BY Stages
  <1>2. QED
    BY <1>1 DEF TypeOK, Advance, Answer

(* No step disturbs the types. *)
LEMMA StepKeepsShapes ==
    ASSUME TypeOK, Shapes, [Next]_vars
    PROVE  (TypeOK /\ Shapes)'
<1> USE DEF TypeOK, requests, store, counters
<1>1. ASSUME NEW j \in Jobs, Upload(j) PROVE (TypeOK /\ Shapes)'
  <2>1. UNCHANGED <<thread, reader>>
    BY <1>1 DEF Upload, upload, read_and_validate, write_bytes, create,
                submit, upload_raises
  <2>2. Shapes'
    BY <2>1 DEF Shapes
  <2>3. CASE upload(j)
    <3>1. Len(upload_order) = 4
      BY Stages
    <3>2. QED
      BY <2>2, <2>3, <3>1 DEF upload, Answer
  <2>4. CASE read_and_validate(j)
    BY <2>2, <2>4, RequestTypes DEF read_and_validate
  <2>5. CASE write_bytes(j)
    BY <2>2, <2>5, RequestTypes DEF write_bytes
  <2>6. CASE create(j)
    BY <2>2, <2>6, RequestTypes DEF create, Statuses
  <2>7. CASE submit(j)
    <3>1. queue' \in Seq(Jobs)
      BY <2>7, AppendFacts DEF submit
    <3>2. QED
      BY <2>2, <2>7, <3>1, RequestTypes DEF submit
  <2>8. CASE upload_raises(j)
    BY <2>2, <2>8, RequestTypes, BoundsAssumption DEF upload_raises, Fault
  <2>9. QED
    BY <1>1, <2>3, <2>4, <2>5, <2>6, <2>7, <2>8 DEF Upload
<1>2. ASSUME NEW w \in Workers, Pool(w) \/ store_raises(w)
      PROVE  (TypeOK /\ Shapes)'
  <2> USE DEF Threads, Shapes
  <2>1. thread[w].at # "idle" => thread[w].job \in Jobs
    OBVIOUS
  <2>2. CASE pick(w)
    <3>1. Head(queue) \in Jobs /\ queue' \in Seq(Jobs)
      BY <2>2, TailFacts DEF pick
    <3>2. QED
      BY <2>2, <3>1 DEF pick, IdleThread
  <2>3. CASE set_status(w)
    <3>1. thread' = [thread EXCEPT ![w] =
                        [job |-> thread[w].job, at |-> "pipeline",
                         outcome |-> thread[w].outcome]]
      BY <2>3, SetThreadAt DEF set_status
    <3>2. thread[w].job \in Jobs /\ thread[w] \in Threads
      BY <2>1, <2>3 DEF set_status
    <3>3. thread' \in [Workers -> Threads] /\ Shapes'
      <4>1. reader' = reader
        BY <2>3 DEF set_status
      <4>2. QED
        BY <3>1, <3>2, <4>1
    <3>4. status' \in [Jobs -> Statuses]
      BY <2>3, <3>2 DEF set_status, Statuses
    <3>5. QED
      BY <2>3, <3>3, <3>4 DEF set_status
  <2>4. CASE run_pipeline(w)
    <3>1. PICK o \in Terminal :
             thread' = [thread EXCEPT ![w].at = "save",
                                      ![w].outcome = o]
      BY <2>4 DEF run_pipeline
    <3>2. thread' = [thread EXCEPT ![w] =
                        [job |-> thread[w].job, at |-> "save",
                         outcome |-> o]]
      BY <3>1, SetThreadOutcome
    <3>3. QED
      BY <2>1, <2>4, <3>2 DEF run_pipeline
  <2>5. CASE save_result(w)
    <3>1. thread[w].job \in Jobs /\ thread[w].outcome \in Terminal
      BY <2>5 DEF save_result
    <3>2. PICK dumped \in {thread[w].outcome, "unreadable"} :
             stored' = [stored EXCEPT ![thread[w].job] =
                           IF status[thread[w].job] = "absent" THEN @
                           ELSE dumped]
      BY <2>5 DEF save_result
    <3>3. stored' \in [Jobs -> Terminal \cup {"none", "unreadable"}]
      BY <3>1, <3>2
    <3>4. QED
      BY <2>5, <3>1, <3>3 DEF save_result, Statuses, IdleThread
  <2>6. CASE store_closed(w)
    BY <2>1, <2>6 DEF store_closed, Dropped, IdleThread
  <2>7. CASE store_raises(w)
    BY <2>1, <2>7, BoundsAssumption
    DEF store_raises, Dropped, Fault, IdleThread
  <2>8. QED
    BY <1>2, <2>2, <2>3, <2>4, <2>5, <2>6, <2>7 DEF Pool
<1>3. ASSUME NEW r \in Readers, Poll(r) PROVE (TypeOK /\ Shapes)'
  <2> USE DEF Requests, Shapes
  <2>1. ASSUME NEW op \in {"status", "results"}, NEW j \in Jobs,
               NEW at \in {"answered", "found", "raised"},
               NEW found \in Statuses, Request(r, op, j, at, found),
               faults' \in 0..MaxFaults, UNCHANGED <<shutdowns, crashes>>
        PROVE  (TypeOK /\ Shapes)'
    BY <2>1 DEF Request, Knowledge
  <2>2. CASE poll_result(r)
    <3>1. reader[r].job \in Jobs
      BY <2>2 DEF poll_result
    <3>2. stored[reader[r].job] \in Terminal \cup {"none"}
      BY <2>2, <3>1 DEF poll_result
    <3>3. reader' = [reader EXCEPT ![r] =
               [at |-> "answered", op |-> reader[r].op,
                job |-> reader[r].job, knew |-> reader[r].knew,
                status |-> reader[r].status,
                result |-> stored[reader[r].job]]]
      BY <2>2, <3>2, SetReader DEF poll_result
    <3>4. told' \subseteq Jobs
      BY <2>2, <3>1 DEF poll_result
    <3>5. reader' \in [Readers -> Requests]
      BY <3>1, <3>2, <3>3
    <3>6. Shapes'
      BY <2>2, <3>1, <3>3 DEF poll_result
    <3>7. QED
      BY <2>2, <3>4, <3>5, <3>6 DEF poll_result
  <2>3. ASSUME NEW op \in {"status", "results"}, NEW j \in Jobs,
               poll(r, op, j)
        PROVE  (TypeOK /\ Shapes)'
    <3>1. status[j] \in Statuses
      OBVIOUS
    <3>2. QED
      BY <2>1, <2>3, <3>1 DEF poll
  <2>4. ASSUME NEW op \in {"status", "results"}, NEW j \in Jobs,
               poll_raises(r, op, j)
        PROVE  (TypeOK /\ Shapes)'
    <3>1. "absent" \in Statuses
      BY DEF Statuses
    <3>2. QED
      BY <2>1, <2>4, <3>1, BoundsAssumption DEF poll_raises, Fault
  <2>5. CASE poll_result_raises(r)
    <3>1. /\ reader[r].job \in Jobs
          /\ UNCHANGED <<server, requests, file, store, queue, thread, told,
                         struck, shutdowns, crashes>>
      BY <2>5 DEF poll_result_raises, Fault
    <3>2. reader' = [reader EXCEPT ![r] =
               [at |-> "raised", op |-> reader[r].op,
                job |-> reader[r].job, knew |-> reader[r].knew,
                status |-> reader[r].status, result |-> reader[r].result]]
      BY <2>5, SetReaderRaised DEF poll_result_raises
    <3>3. reader' \in [Readers -> Requests] /\ Shapes'
      BY <3>1, <3>2
    <3>4. faults' \in 0..MaxFaults
      BY <2>5, BoundsAssumption DEF poll_result_raises, Fault
    <3>5. QED
      BY <3>1, <3>3, <3>4
  <2>6. QED
    BY <1>3, <2>2, <2>3, <2>4, <2>5 DEF Poll
<1>4. CASE Process
  <2> USE DEF Shapes
  <2>1. CASE worker_shutdown
    BY <2>1, BoundsAssumption DEF worker_shutdown
  <2>2. CASE store_close \/ process_exit \/ restart
    BY <2>2 DEF store_close, process_exit, restart
  <2>3. CASE crash
    BY <2>3, BoundsAssumption
    DEF crash, Threads, Requests, IdleThread, IdleReader, Statuses
  <2>4. QED
    BY <1>4, <2>1, <2>2, <2>3 DEF Process
<1>5. CASE UNCHANGED vars
  BY <1>5 DEF vars, Shapes
<1>6. QED
  BY <1>1, <1>2, <1>3, <1>4, <1>5 DEF Next

(* The process starts well typed. *)
LEMMA InitShapes == Init => TypeOK /\ Shapes
BY BoundsAssumption
DEF Init, TypeOK, Shapes, Statuses, Terminal, Threads, Requests, IdleThread,
    IdleReader, upload_order

(* Every variable keeps its type, and threads and readers their shape. *)
THEOREM ShapesCorrect == Spec => [](TypeOK /\ Shapes)
<1>1. Init => TypeOK /\ Shapes
  BY InitShapes
<1>2. TypeOK /\ Shapes /\ [Next]_vars => (TypeOK /\ Shapes)'
  BY StepKeepsShapes
<1>3. QED
  BY <1>1, <1>2, PTL DEF Spec

(* Type correctness of the service. *)
THEOREM TypeCorrect == Spec => []TypeOK
BY ShapesCorrect, PTL

-----------------------------------------------------------------------------
(* The invariant of rows, queue and threads.  Where a handler is tells what *)
(* its job has: no row and no place in the pool before create, a queued row *)
(* but no place until submit.  Where a thread is tells what the row says.   *)

HandlerInv ==
    \A j \in Jobs :
       /\ stage[j] >= 3 => file[j] = TRUE
       /\ stage[j] < 4 => /\ status[j] = "absent" /\ reply[j] # "accepted"
                          /\ ~Queued(j) /\ ~Held(j)
       /\ stage[j] = 4 => status[j] # "absent"
       /\ stage[j] = 4 /\ reply[j] = "none" =>
             status[j] = "queued" /\ ~Queued(j) /\ ~Held(j)

PoolInv ==
    \A w \in Workers :
       /\ thread[w].at = "picked" => status[thread[w].job] = "queued"
       /\ thread[w].at \in {"pipeline", "save"} =>
             status[thread[w].job] = "running"

CoreInv ==
    HandlerInv /\ PoolInv /\ ResultIffTerminal /\ OnePlace /\ UnfinishedIsHeld

Distinct == \A i, k \in 1..Len(queue) : queue[i] = queue[k] => i = k

HeldOnce ==
    \A v, w \in Workers :
       thread[v].job = thread[w].job /\ thread[v].job # NoJob => v = w

(* OnePlace in three parts. *)
LEMMA OnePlaceParts ==
    OnePlace <=> /\ Distinct /\ HeldOnce
                 /\ \A j \in Jobs :
                       Queued(j) => ~Held(j) /\ status[j] = "queued"
BY DEF OnePlace, Distinct, HeldOnce

(* The same of the next state. *)
LEMMA OnePlacePartsNext ==
    OnePlace' <=>
       /\ Distinct' /\ HeldOnce'
       /\ \A j \in Jobs : Queued(j)' => ~Held(j)' /\ status'[j] = "queued"
BY DEF OnePlace, Distinct, HeldOnce

(* What an operation does to the places a job can be in: nothing, ...      *)
LEMMA SamePlaces ==
    ASSUME UNCHANGED <<queue, thread>>
    PROVE  /\ \A k \in Jobs : /\ Queued(k)' <=> Queued(k)
                              /\ Held(k)' <=> Held(k)
           /\ Distinct' <=> Distinct
           /\ HeldOnce' <=> HeldOnce
BY DEF Queued, Held, Distinct, HeldOnce

(* ... submit adds the job to the queue, ... *)
LEMMA SubmitPlaces ==
    ASSUME TypeOK, NEW j \in Jobs, queue' = Append(queue, j),
           UNCHANGED thread
    PROVE  /\ \A k \in Jobs : /\ Queued(k)' <=> Queued(k) \/ k = j
                              /\ Held(k)' <=> Held(k)
           /\ Distinct /\ ~Queued(j) => Distinct'
           /\ HeldOnce' <=> HeldOnce
<1>1. /\ Len(queue) \in Nat
      /\ Len(queue') = Len(queue) + 1
      /\ \A i \in 1..Len(queue) : queue'[i] = queue[i]
      /\ queue'[Len(queue) + 1] = j
  BY AppendFacts DEF TypeOK
<1>2. \A k \in Jobs : Queued(k)' <=> Queued(k) \/ k = j
  <2>1. \A i \in 1..Len(queue') :
           i \in 1..Len(queue) \/ i = Len(queue) + 1
    BY <1>1
  <2>2. 1..Len(queue) \subseteq 1..Len(queue')
        /\ Len(queue) + 1 \in 1..Len(queue')
    BY <1>1
  <2>3. QED
    BY <1>1, <2>1, <2>2 DEF Queued
<1>3. Distinct /\ ~Queued(j) => Distinct'
  BY <1>1 DEF Distinct, Queued
<1>4. QED
  BY <1>2, <1>3 DEF Held, HeldOnce

(* ... pick moves the head of the queue into a thread, ... *)
LEMMA PickPlaces ==
    ASSUME TypeOK, Shapes, Distinct, HeldOnce, NEW w \in Workers, pick(w),
           \A j \in Jobs : Queued(j) => ~Held(j)
    PROVE  /\ Head(queue) \in Jobs /\ Queued(Head(queue))
           /\ \A k \in Jobs :
                 /\ Queued(k)' <=> Queued(k) /\ k # Head(queue)
                 /\ Held(k)' <=> Held(k) \/ k = Head(queue)
           /\ Distinct' /\ HeldOnce'
           /\ thread'[w] = [job |-> Head(queue), at |-> "picked",
                            outcome |-> "none"]
           /\ \A v \in Workers \ {w} : thread'[v] = thread[v]
           /\ thread[w].job = NoJob
<1>1. /\ Head(queue) = queue[1] /\ Head(queue) \in Jobs
      /\ Len(queue) \in Nat /\ Len(queue) >= 1
      /\ Len(queue') = Len(queue) - 1
      /\ \A i \in 1..Len(queue') : queue'[i] = queue[i + 1]
  BY TailFacts DEF TypeOK, pick
<1>2. /\ thread'[w] = [job |-> Head(queue), at |-> "picked",
                       outcome |-> "none"]
      /\ \A v \in Workers \ {w} : thread'[v] = thread[v]
      /\ thread[w].job = NoJob
  <2>1. [IdleThread EXCEPT !.job = Head(queue), !.at = "picked"]
           = [job |-> Head(queue), at |-> "picked", outcome |-> "none"]
    BY PickedThread
  <2>2. thread[w] = IdleThread
    BY DEF pick, Shapes
  <2>3. QED
    BY <2>1, <2>2 DEF pick, IdleThread, TypeOK
<1>3. Queued(Head(queue))
  BY <1>1 DEF Queued
<1>4. ASSUME NEW k \in Jobs
      PROVE  Queued(k)' <=> Queued(k) /\ k # Head(queue)
  <2>1. ASSUME Queued(k)' PROVE Queued(k) /\ k # Head(queue)
    <3>1. PICK i \in 1..Len(queue') : queue'[i] = k
      BY <2>1 DEF Queued
    <3>2. i + 1 \in 1..Len(queue) /\ queue[i + 1] = k /\ i + 1 # 1
      BY <1>1, <3>1
    <3>3. QED
      BY <1>1, <3>2 DEF Queued, Distinct
  <2>2. ASSUME Queued(k), k # Head(queue) PROVE Queued(k)'
    <3>1. PICK i \in 1..Len(queue) : queue[i] = k
      BY <2>2 DEF Queued
    <3>2. i - 1 \in 1..Len(queue') /\ queue'[i - 1] = k
      BY <1>1, <2>2, <3>1
    <3>3. QED
      BY <3>2 DEF Queued
  <2>3. QED
    BY <2>1, <2>2
<1>5. Distinct'
  <2>1. ASSUME NEW i \in 1..Len(queue'), NEW k \in 1..Len(queue'),
               queue'[i] = queue'[k]
        PROVE  i = k
    <3>1. i + 1 \in 1..Len(queue) /\ k + 1 \in 1..Len(queue)
          /\ queue[i + 1] = queue[k + 1]
      BY <1>1, <2>1
    <3>2. i + 1 = k + 1
      BY <3>1 DEF Distinct
    <3>3. QED
      BY <1>1, <3>2
  <2>2. QED
    BY <2>1 DEF Distinct
<1>6. ASSUME NEW k \in Jobs
      PROVE  Held(k)' <=> Held(k) \/ k = Head(queue)
  BY <1>2, NoJobAssumption DEF Held
<1>7. HeldOnce'
  <2>1. ~Held(Head(queue))
    BY <1>1, <1>3
  <2>2. QED
    BY <1>2, <2>1 DEF HeldOnce, Held
<1>8. QED
  BY <1>1, <1>2, <1>3, <1>4, <1>5, <1>6, <1>7

(* ... and a thread that is done with its job leaves it.                   *)
LEMMA LeavePlaces ==
    ASSUME TypeOK, Shapes, HeldOnce, NEW w \in Workers, UNCHANGED queue,
           thread[w].job \in Jobs,
           thread' = [thread EXCEPT ![w] = IdleThread]
    PROVE  /\ \A k \in Jobs :
                 /\ Queued(k)' <=> Queued(k)
                 /\ Held(k)' <=> Held(k) /\ k # thread[w].job
           /\ Distinct' <=> Distinct
           /\ HeldOnce'
           /\ thread'[w] = IdleThread
           /\ \A v \in Workers \ {w} : thread'[v] = thread[v]
<1>1. /\ thread'[w] = IdleThread
      /\ \A v \in Workers \ {w} : thread'[v] = thread[v]
  BY DEF TypeOK
<1>2. \A k \in Jobs : Held(k)' <=> Held(k) /\ k # thread[w].job
  BY <1>1, NoJobAssumption DEF Held, HeldOnce, IdleThread
<1>3. HeldOnce'
  BY <1>1 DEF HeldOnce, IdleThread
<1>4. QED
  BY <1>1, <1>2, <1>3 DEF Queued, Distinct

(* A thread that goes on with its job stays where it is. *)
LEMMA StayPlaces ==
    ASSUME TypeOK, NEW w \in Workers, NEW a, NEW o, UNCHANGED queue,
           thread' = [thread EXCEPT ![w] =
                         [job |-> thread[w].job, at |-> a, outcome |-> o]]
    PROVE  /\ \A k \in Jobs : /\ Queued(k)' <=> Queued(k)
                              /\ Held(k)' <=> Held(k)
           /\ Distinct' <=> Distinct
           /\ HeldOnce' <=> HeldOnce
           /\ thread'[w] = [job |-> thread[w].job, at |-> a, outcome |-> o]
           /\ \A v \in Workers \ {w} : thread'[v] = thread[v]
<1>1. /\ thread'[w] = [job |-> thread[w].job, at |-> a, outcome |-> o]
      /\ \A v \in Workers \ {w} : thread'[v] = thread[v]
  BY DEF TypeOK
<1>2. \A v \in Workers : thread'[v].job = thread[v].job
  BY <1>1
<1>3. QED
  BY <1>1, <1>2 DEF Queued, Held, Distinct, HeldOnce

-----------------------------------------------------------------------------
(* CoreInv is inductive: one lemma for uploads, one for the pool.          *)

(* What CoreInv says of one job, with the order of the operations.         *)
LEMMA UploadKeepsCore ==
    ASSUME TypeOK, Shapes, CoreInv, NEW j \in Jobs, Upload(j)
    PROVE  CoreInv'
<1> USE DEF store, requests
<1>1. Len(upload_order) = 4 /\ stage[j] \in 0..4
  BY Stages
<1>2. CASE submit(j)
  <2>1. /\ stage[j] = 4 /\ reply[j] = "none"
        /\ reply' = [reply EXCEPT ![j] = "accepted"]
        /\ UNCHANGED <<stage, file, status, stored, thread, struck>>
        /\ queue' = Append(queue, j)
    BY <1>1, <1>2, Stages DEF submit, Advance, At, InHandler
  <2>2. /\ reply'[j] = "accepted"
        /\ \A k \in Jobs \ {j} : reply'[k] = reply[k]
    BY <2>1 DEF TypeOK
  <2>3. /\ \A k \in Jobs : /\ Queued(k)' <=> Queued(k) \/ k = j
                           /\ Held(k)' <=> Held(k)
        /\ Distinct /\ ~Queued(j) => Distinct'
        /\ HeldOnce' <=> HeldOnce
    BY <2>1, SubmitPlaces
  <2>4. status[j] = "queued" /\ ~Queued(j) /\ ~Held(j)
    BY <2>1 DEF CoreInv, HandlerInv
  <2>5. HandlerInv'
    BY <2>1, <2>2, <2>3, <2>4 DEF CoreInv, HandlerInv
  <2>6. PoolInv' /\ ResultIffTerminal'
    BY <2>1 DEF CoreInv, PoolInv, ResultIffTerminal, Terminal
  <2>7. OnePlace'
    BY <2>1, <2>3, <2>4, OnePlaceParts, OnePlacePartsNext DEF CoreInv
  <2>8. UnfinishedIsHeld'
    BY <2>1, <2>2, <2>3 DEF CoreInv, UnfinishedIsHeld, InHandler
  <2>9. QED
    BY <2>5, <2>6, <2>7, <2>8 DEF CoreInv
<1>3. CASE create(j)
  <2>1. /\ stage[j] = 3 /\ reply[j] = "none"
        /\ stage' = [stage EXCEPT ![j] = 4]
        /\ status' = [status EXCEPT ![j] = "queued"]
        /\ UNCHANGED <<reply, file, stored, queue, thread, struck>>
    BY <1>1, <1>3, Stages DEF create, Advance, At, InHandler
  <2>2. /\ stage'[j] = 4 /\ status'[j] = "queued"
        /\ \A k \in Jobs \ {j} : stage'[k] = stage[k] /\ status'[k] = status[k]
    BY <2>1 DEF TypeOK
  <2>3. /\ \A k \in Jobs : /\ Queued(k)' <=> Queued(k)
                           /\ Held(k)' <=> Held(k)
        /\ Distinct' <=> Distinct
        /\ HeldOnce' <=> HeldOnce
    BY <2>1, SamePlaces
  <2>4. status[j] = "absent" /\ ~Queued(j) /\ ~Held(j) /\ file[j] = TRUE
    BY <2>1 DEF CoreInv, HandlerInv
  <2>5. HandlerInv'
    BY <2>1, <2>2, <2>3, <2>4 DEF CoreInv, HandlerInv
  <2>6. PoolInv'
    <3>1. \A w \in Workers : thread[w].job # j
      BY <2>4 DEF Held
    <3>2. QED
      BY <2>1, <2>2, <3>1 DEF CoreInv, PoolInv, Shapes
  <2>7. ResultIffTerminal'
    BY <2>1, <2>2, <2>4 DEF CoreInv, ResultIffTerminal, Terminal
  <2>8. OnePlace'
    BY <2>1, <2>2, <2>3, <2>4, OnePlaceParts, OnePlacePartsNext DEF CoreInv
  <2>9. UnfinishedIsHeld'
    BY <2>1, <2>2, <2>3 DEF CoreInv, UnfinishedIsHeld, InHandler
  <2>10. QED
    BY <2>5, <2>6, <2>7, <2>8, <2>9 DEF CoreInv
<1>4. CASE \/ upload(j) \/ read_and_validate(j) \/ write_bytes(j)
           \/ upload_raises(j)
  <2>1. /\ stage[j] < 4
        /\ stage'[j] < 4
        /\ reply'[j] # "accepted"
        /\ \A k \in Jobs \ {j} : /\ stage'[k] = stage[k]
                                /\ reply'[k] = reply[k]
                                /\ file'[k] = file[k]
        /\ stage'[j] >= 3 => file'[j] = TRUE
        /\ UNCHANGED <<status, stored, queue, thread, struck>>
    <3>1. /\ stage \in [Jobs -> 0..4] /\ file \in [Jobs -> BOOLEAN]
          /\ reply \in [Jobs -> {"none", "accepted", "refused", "error",
                                  "lost"}]
      BY <1>1 DEF TypeOK
    <3>2. stage[j] >= 3 => file[j] = TRUE
      BY DEF CoreInv, HandlerInv
    <3>3. CASE upload(j)
      BY <3>1, <3>3 DEF upload, Answer
    <3>4. CASE read_and_validate(j)
      BY <1>1, <3>1, <3>4, Stages
      DEF read_and_validate, Answer, Advance, At, InHandler
    <3>5. CASE write_bytes(j)
      <4>1. stage[j] = 2 /\ reply[j] = "none"
        BY <3>5, Stages DEF write_bytes, At, InHandler
      <4>2. file'[j] = TRUE /\ \A k \in Jobs \ {j} : file'[k] = file[k]
        BY <3>1, <3>5 DEF write_bytes
      <4>3. QED
        BY <1>1, <3>1, <3>5, <4>1, <4>2 DEF write_bytes, Advance
    <3>6. CASE upload_raises(j)
      <4>1. stage[j] \in {2, 3}
        BY <3>6, Stages DEF upload_raises
      <4>2. QED
        BY <3>1, <3>2, <3>6, <4>1 DEF upload_raises, Answer
    <3>7. QED
      BY <1>4, <3>3, <3>4, <3>5, <3>6
  <2>2. /\ \A k \in Jobs : /\ Queued(k)' <=> Queued(k)
                           /\ Held(k)' <=> Held(k)
        /\ Distinct' <=> Distinct
        /\ HeldOnce' <=> HeldOnce
    BY <2>1, SamePlaces
  <2>3. status[j] = "absent" /\ ~Queued(j) /\ ~Held(j)
    BY <2>1 DEF CoreInv, HandlerInv
  <2>4. HandlerInv'
    BY <2>1, <2>2, <2>3 DEF CoreInv, HandlerInv
  <2>5. PoolInv' /\ ResultIffTerminal'
    BY <2>1 DEF CoreInv, PoolInv, ResultIffTerminal, Terminal
  <2>6. OnePlace'
    BY <2>1, <2>2, OnePlaceParts, OnePlacePartsNext DEF CoreInv
  <2>7. UnfinishedIsHeld'
    BY <2>1, <2>2, <2>3 DEF CoreInv, UnfinishedIsHeld, InHandler
  <2>8. QED
    BY <2>4, <2>5, <2>6, <2>7 DEF CoreInv
<1>5. QED
  BY <1>2, <1>3, <1>4 DEF Upload

(* A job a thread holds is past its upload, and in no other place. *)
LEMMA HeldFacts ==
    ASSUME TypeOK, Shapes, CoreInv, NEW w \in Workers, thread[w].at # "idle"
    PROVE  /\ thread[w].job \in Jobs /\ Held(thread[w].job)
           /\ ~Queued(thread[w].job)
           /\ stage[thread[w].job] = 4
           /\ \A v \in Workers \ {w} : thread[v].job # thread[w].job
           /\ reply[thread[w].job] # "none"
<1>1. thread[w].job \in Jobs
  BY DEF Shapes
<1>2. Held(thread[w].job)
  BY <1>1 DEF Held
<1>3. ~Queued(thread[w].job)
  BY <1>1, <1>2, OnePlaceParts DEF CoreInv
<1>4. \A v \in Workers \ {w} : thread[v].job # thread[w].job
  BY <1>1, NoJobAssumption, OnePlaceParts DEF CoreInv, HeldOnce
<1>5. stage[thread[w].job] \in 0..4 /\ ~(stage[thread[w].job] < 4)
  BY <1>1, <1>2, Stages DEF CoreInv, HandlerInv
<1>6. stage[thread[w].job] = 4
  BY <1>5
<1>7. reply[thread[w].job] # "none"
  BY <1>1, <1>2, <1>6 DEF CoreInv, HandlerInv
<1>8. QED
  BY <1>1, <1>2, <1>3, <1>4, <1>6, <1>7

(* The steps of a thread keep the invariant of rows, queue and threads. *)
LEMMA PoolKeepsCore ==
    ASSUME TypeOK, Shapes, CoreInv, NEW w \in Workers,
           Pool(w) \/ store_raises(w)
    PROVE  CoreInv'
<1> USE DEF store, requests
<1> DEFINE j == thread[w].job
<1>1. CASE pick(w)
  <2> DEFINE h == Head(queue)
  <2>1. \A k \in Jobs : Queued(k) => ~Held(k) /\ status[k] = "queued"
    BY OnePlaceParts DEF CoreInv
  <2>2. /\ h \in Jobs /\ Queued(h)
        /\ \A k \in Jobs : /\ Queued(k)' <=> Queued(k) /\ k # h
                           /\ Held(k)' <=> Held(k) \/ k = h
        /\ Distinct' /\ HeldOnce'
        /\ thread'[w] = [job |-> h, at |-> "picked", outcome |-> "none"]
        /\ \A v \in Workers \ {w} : thread'[v] = thread[v]
    BY <1>1, <2>1, PickPlaces, OnePlaceParts DEF CoreInv
  <2>3. UNCHANGED <<stage, reply, file, status, stored, struck>>
    BY <1>1 DEF pick
  <2>4. stage[h] \in 0..4 /\ ~(stage[h] < 4)
    BY <2>2, Stages DEF CoreInv, HandlerInv
  <2>5. HandlerInv'
    BY <2>2, <2>3, <2>4 DEF CoreInv, HandlerInv
  <2>6. PoolInv'
    BY <2>1, <2>2, <2>3 DEF CoreInv, PoolInv
  <2>7. OnePlace'
    BY <2>1, <2>2, <2>3, OnePlacePartsNext
  <2>8. ResultIffTerminal' /\ UnfinishedIsHeld'
    BY <2>2, <2>3
    DEF CoreInv, ResultIffTerminal, Terminal, UnfinishedIsHeld, InHandler
  <2>9. QED
    BY <2>5, <2>6, <2>7, <2>8 DEF CoreInv
<1>2. CASE set_status(w)
  <2>1. /\ thread[w].at = "picked"
        /\ thread' = [thread EXCEPT ![w] =
                         [job |-> j, at |-> "pipeline",
                          outcome |-> thread[w].outcome]]
        /\ status' = [status EXCEPT ![j] =
                         IF @ = "absent" THEN @ ELSE "running"]
        /\ UNCHANGED <<stage, reply, file, stored, queue, struck>>
    BY <1>2, SetThreadAt DEF set_status, TypeOK
  <2>2. /\ j \in Jobs /\ Held(j) /\ ~Queued(j) /\ stage[j] = 4
        /\ reply[j] # "none"
        /\ \A v \in Workers \ {w} : thread[v].job # j
    BY <2>1, HeldFacts
  <2>3. status[j] = "queued"
    BY <2>1 DEF CoreInv, PoolInv
  <2>4. status'[j] = "running"
        /\ \A k \in Jobs \ {j} : status'[k] = status[k]
    BY <2>1, <2>2, <2>3 DEF TypeOK
  <2>5. /\ \A k \in Jobs : /\ Queued(k)' <=> Queued(k)
                           /\ Held(k)' <=> Held(k)
        /\ Distinct' <=> Distinct
        /\ HeldOnce' <=> HeldOnce
        /\ thread'[w] = [job |-> j, at |-> "pipeline",
                         outcome |-> thread[w].outcome]
        /\ \A v \in Workers \ {w} : thread'[v] = thread[v]
    BY <2>1, StayPlaces
  <2>6. HandlerInv'
    BY <2>1, <2>2, <2>4, <2>5 DEF CoreInv, HandlerInv
  <2>7. PoolInv'
    BY <2>2, <2>4, <2>5 DEF CoreInv, PoolInv, Shapes
  <2>8. ResultIffTerminal'
    BY <2>1, <2>2, <2>3, <2>4 DEF CoreInv, ResultIffTerminal, Terminal
  <2>9. OnePlace'
    BY <2>2, <2>4, <2>5, OnePlaceParts, OnePlacePartsNext DEF CoreInv
  <2>10. UnfinishedIsHeld'
    BY <2>1, <2>2, <2>4, <2>5 DEF CoreInv, UnfinishedIsHeld, InHandler
  <2>11. QED
    BY <2>6, <2>7, <2>8, <2>9, <2>10 DEF CoreInv
<1>3. CASE run_pipeline(w)
  <2>1. PICK o \in Terminal :
           thread' = [thread EXCEPT ![w].at = "save", ![w].outcome = o]
    BY <1>3 DEF run_pipeline
  <2>2. thread' = [thread EXCEPT ![w] =
                      [job |-> j, at |-> "save", outcome |-> o]]
    BY <2>1, SetThreadOutcome DEF TypeOK
  <2>3. /\ thread[w].at = "pipeline"
        /\ UNCHANGED <<stage, reply, file, status, stored, queue, struck>>
    BY <1>3 DEF run_pipeline
  <2>4. /\ \A k \in Jobs : /\ Queued(k)' <=> Queued(k)
                           /\ Held(k)' <=> Held(k)
        /\ Distinct' <=> Distinct
        /\ HeldOnce' <=> HeldOnce
        /\ thread'[w] = [job |-> j, at |-> "save", outcome |-> o]
        /\ \A v \in Workers \ {w} : thread'[v] = thread[v]
    BY <2>2, <2>3, StayPlaces
  <2>5. HandlerInv'
    BY <2>3, <2>4 DEF CoreInv, HandlerInv
  <2>6. PoolInv'
    BY <2>3, <2>4 DEF CoreInv, PoolInv
  <2>7. OnePlace'
    BY <2>3, <2>4, OnePlaceParts, OnePlacePartsNext DEF CoreInv
  <2>8. ResultIffTerminal' /\ UnfinishedIsHeld'
    BY <2>3, <2>4
    DEF CoreInv, ResultIffTerminal, Terminal, UnfinishedIsHeld, InHandler
  <2>9. QED
    BY <2>5, <2>6, <2>7, <2>8 DEF CoreInv
<1>4. CASE save_result(w) \/ store_closed(w) \/ store_raises(w)
  <2>1. /\ thread[w].at \in {"picked", "save"}
        /\ thread' = [thread EXCEPT ![w] = IdleThread]
        /\ UNCHANGED <<stage, reply, file, queue>>
    BY <1>4 DEF save_result, store_closed, store_raises, Dropped
  <2>2. /\ j \in Jobs /\ Held(j) /\ ~Queued(j) /\ stage[j] = 4
        /\ reply[j] # "none"
        /\ \A v \in Workers \ {w} : thread[v].job # j
    BY <2>1, HeldFacts
  <2>3. status[j] # "absent"
    BY <2>2 DEF CoreInv, HandlerInv
  <2>4. \/ /\ thread[w].outcome \in Terminal
           /\ status' = [status EXCEPT ![j] = thread[w].outcome]
           /\ \E dumped \in {thread[w].outcome, "unreadable"} :
                 stored' = [stored EXCEPT ![j] = dumped]
           /\ UNCHANGED struck
        \/ /\ struck' = struck \cup {j}
           /\ UNCHANGED <<status, stored>>
    <3>1. CASE save_result(w)
      BY <2>2, <2>3, <3>1 DEF save_result, Shapes
    <3>2. CASE store_closed(w) \/ store_raises(w)
      BY <3>2 DEF store_closed, store_raises, Dropped
    <3>3. QED
      BY <1>4, <3>1, <3>2
  <2>5. /\ status'[j] # "absent"
        /\ stored'[j] \in IF status'[j] \in Terminal
                          THEN {status'[j], "unreadable"} ELSE {"none"}
        /\ status'[j] \in Terminal \/ j \in struck'
        /\ \A k \in Jobs \ {j} : /\ status'[k] = status[k]
                                /\ stored'[k] = stored[k]
        /\ struck \subseteq struck'
    BY <2>2, <2>3, <2>4 DEF TypeOK, CoreInv, ResultIffTerminal, Terminal
  <2>6. /\ \A k \in Jobs : /\ Queued(k)' <=> Queued(k)
                           /\ Held(k)' <=> Held(k) /\ k # j
        /\ Distinct' <=> Distinct
        /\ HeldOnce'
        /\ thread'[w] = IdleThread
        /\ \A v \in Workers \ {w} : thread'[v] = thread[v]
    BY <2>1, <2>2, LeavePlaces, OnePlaceParts DEF CoreInv
  <2>7. HandlerInv'
    BY <2>1, <2>2, <2>5, <2>6 DEF CoreInv, HandlerInv
  <2>8. PoolInv'
    BY <2>2, <2>5, <2>6 DEF CoreInv, PoolInv, Shapes, IdleThread
  <2>9. ResultIffTerminal'
    BY <2>5 DEF CoreInv, ResultIffTerminal
  <2>10. OnePlace'
    BY <2>2, <2>5, <2>6, OnePlaceParts, OnePlacePartsNext DEF CoreInv
  <2>11. UnfinishedIsHeld'
    BY <2>1, <2>5, <2>6 DEF CoreInv, UnfinishedIsHeld, InHandler, Terminal
  <2>12. QED
    BY <2>7, <2>8, <2>9, <2>10, <2>11 DEF CoreInv
<1>5. QED
  BY <1>1, <1>2, <1>3, <1>4 DEF Pool

(* A crash empties the pool and strikes every unfinished row. *)
LEMMA CrashKeepsCore ==
    ASSUME TypeOK, Shapes, CoreInv, crash
    PROVE  CoreInv'
<1>1. /\ queue' = <<>>
      /\ thread' = [w \in Workers |-> IdleThread]
      /\ struck' = struck \cup
            {j \in Jobs : status[j] \in {"queued", "running"}}
      /\ UNCHANGED <<stage, file, status, stored>>
      /\ \A j \in Jobs : /\ reply'[j] # "none" \/ stage[j] = 0
                         /\ reply'[j] = "accepted" => reply[j] = "accepted"
  BY DEF crash, store, InHandler, TypeOK, upload_order
<1>2. \A j \in Jobs : ~Queued(j)' /\ ~Held(j)'
  BY <1>1, NoJobAssumption DEF Queued, Held, IdleThread
<1>3. Distinct' /\ HeldOnce'
  BY <1>1 DEF Distinct, HeldOnce, IdleThread
<1>4. HandlerInv'
  BY <1>1, <1>2 DEF CoreInv, HandlerInv
<1>5. PoolInv'
  BY <1>1 DEF PoolInv, IdleThread
<1>6. OnePlace'
  BY <1>2, <1>3, OnePlacePartsNext
<1>7. ResultIffTerminal' /\ UnfinishedIsHeld'
  BY <1>1 DEF CoreInv, ResultIffTerminal, UnfinishedIsHeld
<1>8. QED
  BY <1>4, <1>5, <1>6, <1>7 DEF CoreInv

(* The rest of the system touches neither rows nor pool. *)
LEMMA OthersKeepCore ==
    ASSUME CoreInv,
           UNCHANGED <<stage, reply, file, status, stored, queue, thread,
                       struck>>
    PROVE  CoreInv'
BY SamePlaces, OnePlaceParts, OnePlacePartsNext
DEF CoreInv, HandlerInv, PoolInv, ResultIffTerminal, UnfinishedIsHeld,
    InHandler

(* No step disturbs the invariant. *)
LEMMA StepKeepsCore ==
    ASSUME TypeOK, Shapes, CoreInv, [Next]_vars
    PROVE  CoreInv'
<1>1. ASSUME NEW j \in Jobs, Upload(j) PROVE CoreInv'
  BY <1>1, UploadKeepsCore
<1>2. ASSUME NEW w \in Workers, Pool(w) \/ store_raises(w) PROVE CoreInv'
  BY <1>2, PoolKeepsCore
<1>3. ASSUME NEW r \in Readers, Poll(r) PROVE CoreInv'
  <2>1. UNCHANGED <<stage, reply, file, status, stored, queue, thread,
                    struck>>
    BY <1>3 DEF Poll, poll, poll_raises, poll_result, poll_result_raises,
                Request, requests, store
  <2>2. QED
    BY <2>1, OthersKeepCore
<1>4. CASE Process
  <2>1. CASE crash
    BY <2>1, CrashKeepsCore
  <2>2. CASE worker_shutdown \/ store_close \/ process_exit \/ restart
    <3>1. UNCHANGED <<stage, reply, file, status, stored, queue, thread,
                      struck>>
      BY <2>2 DEF worker_shutdown, store_close, process_exit, restart,
                  requests, store
    <3>2. QED
      BY <3>1, OthersKeepCore
  <2>3. QED
    BY <1>4, <2>1, <2>2 DEF Process
<1>5. CASE UNCHANGED vars
  BY <1>5, OthersKeepCore DEF vars, requests, store
<1>6. QED
  BY <1>1, <1>2, <1>3, <1>4, <1>5 DEF Next

(* The store and the pool start empty. *)
LEMMA InitCore == Init => CoreInv
BY NoJobAssumption
DEF Init, CoreInv, HandlerInv, PoolInv, ResultIffTerminal, OnePlace,
    UnfinishedIsHeld, Queued, Held, IdleThread, Terminal

(* Rows, queue and threads are consistent at any time. *)
THEOREM CoreCorrect == Spec => []CoreInv
<1>1. Init => CoreInv
  BY InitCore
<1>2. TypeOK /\ Shapes /\ CoreInv /\ [Next]_vars => CoreInv'
  BY StepKeepsCore
<1>3. QED
  BY <1>1, <1>2, ShapesCorrect, PTL DEF Spec

(* No half outcome is ever in the store. *)
THEOREM ResultIffTerminalHolds == Spec => []ResultIffTerminal
<1>1. CoreInv => ResultIffTerminal
  BY DEF CoreInv
<1>2. QED
  BY <1>1, CoreCorrect, PTL

(* A job is queued once or in one thread. *)
THEOREM OnePlaceHolds == Spec => []OnePlace
<1>1. CoreInv => OnePlace
  BY DEF CoreInv
<1>2. QED
  BY <1>1, CoreCorrect, PTL

(* What the pool works on has its row and its file. *)
THEOREM WorkIsBackedHolds == Spec => []WorkIsBacked
<1>1. TypeOK /\ CoreInv => WorkIsBacked
  <2> SUFFICES ASSUME TypeOK, CoreInv, NEW j \in Jobs, Queued(j) \/ Held(j)
               PROVE  file[j] /\ status[j] # "absent"
    BY DEF WorkIsBacked
  <2>1. stage[j] \in 0..4 /\ ~(stage[j] < 4)
    BY Stages DEF CoreInv, HandlerInv
  <2>2. stage[j] = 4
    BY <2>1
  <2>3. QED
    BY <2>2 DEF CoreInv, HandlerInv
<1>2. QED
  BY <1>1, CoreCorrect, ShapesCorrect, PTL

(* No interleaving alone loses a job. *)
THEOREM UnfinishedIsHeldHolds == Spec => []UnfinishedIsHeld
<1>1. CoreInv => UnfinishedIsHeld
  BY DEF CoreInv
<1>2. QED
  BY <1>1, CoreCorrect, PTL

-----------------------------------------------------------------------------
(* The abstract life cycle.  Three operations change a row, one per step   *)
(* of JobLifecycle; every other step leaves rows alone.                    *)

(* The rows move as the life cycle says, or not at all. *)
LEMMA RowsMove ==
    ASSUME TypeOK, Shapes, CoreInv, [Next]_vars
    PROVE  \/ UNCHANGED <<status, stored>>
           \/ \E j \in Jobs :
                 /\ status[j] = "absent"
                 /\ status' = [status EXCEPT ![j] = "queued"]
                 /\ UNCHANGED stored
           \/ \E j \in Jobs :
                 /\ status[j] = "queued"
                 /\ status' = [status EXCEPT ![j] = "running"]
                 /\ UNCHANGED stored
           \/ \E j \in Jobs, o \in Terminal : \E d \in {o, "unreadable"} :
                 /\ status[j] = "running"
                 /\ status' = [status EXCEPT ![j] = o]
                 /\ stored' = [stored EXCEPT ![j] = d]
<1> USE DEF store
<1>1. ASSUME NEW j \in Jobs, Upload(j)
      PROVE  \/ UNCHANGED <<status, stored>>
             \/ /\ status[j] = "absent"
                /\ status' = [status EXCEPT ![j] = "queued"]
                /\ UNCHANGED stored
  <2>1. CASE create(j)
    <3>1. stage[j] = 3
      BY <2>1, Stages DEF create
    <3>2. status[j] = "absent"
      BY <3>1 DEF CoreInv, HandlerInv
    <3>3. QED
      BY <2>1, <3>2 DEF create
  <2>2. CASE ~create(j)
    BY <1>1, <2>2 DEF Upload, upload, read_and_validate, write_bytes, submit,
                      upload_raises
  <2>3. QED
    BY <2>1, <2>2
<1>2. ASSUME NEW w \in Workers, set_status(w)
      PROVE  /\ thread[w].job \in Jobs
             /\ status[thread[w].job] = "queued"
             /\ status' = [status EXCEPT ![thread[w].job] = "running"]
             /\ UNCHANGED stored
  <2>1. thread[w].at = "picked" /\ UNCHANGED stored
        /\ status' = [status EXCEPT ![thread[w].job] =
                         IF @ = "absent" THEN @ ELSE "running"]
    BY <1>2 DEF set_status
  <2>2. status[thread[w].job] = "queued" /\ thread[w].job \in Jobs
    BY <2>1 DEF CoreInv, PoolInv, Shapes
  <2>3. QED
    BY <2>1, <2>2
<1>3. ASSUME NEW w \in Workers, save_result(w)
      PROVE  /\ thread[w].job \in Jobs /\ thread[w].outcome \in Terminal
             /\ status[thread[w].job] = "running"
             /\ status' = [status EXCEPT ![thread[w].job] =
                              thread[w].outcome]
             /\ \E d \in {thread[w].outcome, "unreadable"} :
                   stored' = [stored EXCEPT ![thread[w].job] = d]
  <2>1. /\ thread[w].job \in Jobs /\ thread[w].outcome \in Terminal
        /\ status[thread[w].job] = "running"
    BY <1>3 DEF save_result, CoreInv, PoolInv, Shapes
  <2>2. PICK d \in {thread[w].outcome, "unreadable"} :
           stored' = [stored EXCEPT ![thread[w].job] =
                         IF status[thread[w].job] = "absent" THEN @ ELSE d]
    BY <1>3 DEF save_result
  <2>3. stored' = [stored EXCEPT ![thread[w].job] = d]
    BY <2>1, <2>2
  <2>4. QED
    BY <1>3, <2>1, <2>3 DEF save_result
<1>4. ASSUME NEW w \in Workers, Pool(w) \/ store_raises(w),
             ~set_status(w), ~save_result(w)
      PROVE  UNCHANGED <<status, stored>>
  BY <1>4 DEF Pool, pick, run_pipeline, store_closed, store_raises, Dropped
<1>5. ASSUME NEW r \in Readers, Poll(r) PROVE UNCHANGED <<status, stored>>
  BY <1>5 DEF Poll, poll, poll_raises, poll_result, poll_result_raises,
              Request
<1>6. ASSUME Process PROVE UNCHANGED <<status, stored>>
  BY <1>6 DEF Process, worker_shutdown, store_close, process_exit, crash,
              restart
<1>7. CASE UNCHANGED vars
  BY <1>7 DEF vars
<1>8. QED
  BY <1>1, <1>2, <1>3, <1>4, <1>5, <1>6, <1>7 DEF Next

(* The service implements the life cycle of a job, through interruptions.  *)
THEOREM ImplementsLifecycleHolds == Spec => ImplementsLifecycle
<1> DEFINE ph == [j \in Jobs |->
                    IF status[j] = "absent" THEN "unknown" ELSE status[j]]
           an == [j \in Jobs |->
                    IF status[j] = "absent" THEN "404"
                    ELSE IF stored[j] = "none" THEN "409"
                    ELSE IF stored[j] = "unreadable" THEN "500"
                    ELSE stored[j]]
<1>1. Init => Lifecycle!Init
  BY DEF Init, Lifecycle!Init
<1>2. TypeOK /\ Shapes /\ CoreInv /\ [Next]_vars
         => [Lifecycle!Next]_<<ph, an>>
  <2> SUFFICES ASSUME TypeOK, Shapes, CoreInv, [Next]_vars
               PROVE  Lifecycle!Next \/ UNCHANGED <<ph, an>>
    OBVIOUS
  <2>1. \A k \in Jobs : /\ stored[k] \in IF status[k] \in Terminal
                                         THEN {status[k], "unreadable"}
                                         ELSE {"none"}
                       /\ status[k] \in Statuses
    BY DEF CoreInv, ResultIffTerminal, TypeOK
  <2>2. CASE UNCHANGED <<status, stored>>
    BY <2>2
  <2>3. ASSUME NEW j \in Jobs, status[j] = "absent", UNCHANGED stored,
               status' = [status EXCEPT ![j] = "queued"]
        PROVE  Lifecycle!Next
    <3>1. stored[j] = "none"
      BY <2>1, <2>3 DEF Terminal
    <3>2. ph' = [ph EXCEPT ![j] = "queued"] /\ an' = [an EXCEPT ![j] = "409"]
      BY <2>3, <3>1 DEF TypeOK
    <3>3. Lifecycle!Accept(j)
      BY <2>3, <3>2 DEF Lifecycle!Accept
    <3>4. QED
      BY <3>3 DEF Lifecycle!Next
  <2>4. ASSUME NEW j \in Jobs, status[j] = "queued", UNCHANGED stored,
               status' = [status EXCEPT ![j] = "running"]
        PROVE  Lifecycle!Next
    <3>1. ph' = [ph EXCEPT ![j] = "running"] /\ an' = an
      BY <2>4 DEF TypeOK
    <3>2. Lifecycle!Start(j)
      BY <2>4, <3>1 DEF Lifecycle!Start
    <3>3. QED
      BY <3>2 DEF Lifecycle!Next
  <2>5. ASSUME NEW j \in Jobs, NEW o \in Terminal,
               NEW d \in {o, "unreadable"}, status[j] = "running",
               status' = [status EXCEPT ![j] = o],
               stored' = [stored EXCEPT ![j] = d]
        PROVE  Lifecycle!Next
    <3>1. /\ ph' = [ph EXCEPT ![j] = o]
          /\ an' = [an EXCEPT ![j] = IF d = "unreadable" THEN "500" ELSE o]
      BY <2>5 DEF TypeOK, Terminal
    <3>2. Lifecycle!Finish(j)
      BY <2>5, <3>1 DEF Lifecycle!Finish, Lifecycle!Outcomes, Terminal
    <3>3. QED
      BY <3>2 DEF Lifecycle!Next
  <2>6. QED
    BY <2>2, <2>3, <2>4, <2>5, RowsMove
<1>3. QED
  BY <1>1, <1>2, ShapesCorrect, CoreCorrect, PTL
  DEF Spec, ImplementsLifecycle, Lifecycle!Spec

-----------------------------------------------------------------------------
(* The answers.  Between its two reads a request knows something of a row  *)
(* that the pool may change: it stays true because a finished row is never *)
(* written again, and because no row goes away.                            *)

(* What a request holds agrees with the rows st. *)
Agrees(q, st) ==
    /\ q.knew # "nothing" => q.status # "absent"
    /\ q.knew = "finished" => q.status \in Terminal
    /\ q.status \in Terminal => st[q.job] = q.status
    /\ q.at = "answered" /\ q.status \in Terminal => q.result = q.status

AnswerInv ==
    /\ \A j \in told : status[j] \in Terminal /\ stored[j] \in Terminal
    /\ \A r \in Readers :
          /\ reader[r].at \notin {"idle", "raised"}
                => Agrees(reader[r], status)
          /\ reader[r].knew = "finished" => reader[r].job \in told

(* A finished row is never written again. *)
LEMMA FinishedStays ==
    ASSUME TypeOK, Shapes, CoreInv, [Next]_vars,
           NEW j \in Jobs, status[j] \in Terminal
    PROVE  status'[j] = status[j] /\ stored'[j] = stored[j]
<1>1. /\ status \in [Jobs -> Statuses]
      /\ stored \in [Jobs -> Terminal \cup {"none", "unreadable"}]
  BY DEF TypeOK
<1>2. CASE UNCHANGED <<status, stored>>
  BY <1>2
<1>3. ASSUME NEW k \in Jobs, NEW s, NEW d,
             status[k] \in {"absent", "queued", "running"},
             status' = [status EXCEPT ![k] = s],
             stored' = [stored EXCEPT ![k] = d] \/ UNCHANGED stored
      PROVE  status'[j] = status[j] /\ stored'[j] = stored[j]
  BY <1>1, <1>3 DEF Terminal
<1>4. QED
  BY <1>2, <1>3, RowsMove

(* A step that leaves the readers and told alone keeps the answers. *)
LEMMA OthersKeepAnswers ==
    ASSUME TypeOK, Shapes, CoreInv, AnswerInv, [Next]_vars,
           UNCHANGED <<reader, told>>
    PROVE  AnswerInv'
<1>1. ASSUME NEW j \in told
      PROVE  status'[j] \in Terminal /\ stored'[j] \in Terminal
  <2>1. j \in Jobs /\ status[j] \in Terminal /\ stored[j] \in Terminal
    BY <1>1 DEF TypeOK, AnswerInv
  <2>2. QED
    BY <2>1, FinishedStays
<1>2. ASSUME NEW r \in Readers, reader[r].at \notin {"idle", "raised"}
      PROVE  Agrees(reader'[r], status')
  <2>1. reader[r].job \in Jobs /\ Agrees(reader[r], status) /\ reader' = reader
    BY <1>2 DEF Shapes, AnswerInv
  <2>2. reader[r].status \in Terminal =>
           status'[reader[r].job] = reader[r].status
    BY <2>1, FinishedStays DEF Agrees
  <2>3. QED
    BY <2>1, <2>2 DEF Agrees
<1>3. QED
  BY <1>1, <1>2 DEF AnswerInv

(* The first read: what clients knew of the job is what the row says. *)
LEMMA RequestKeepsAnswers ==
    ASSUME TypeOK, CoreInv, AnswerInv, NEW r \in Readers, NEW op,
           NEW j \in Jobs, NEW at, NEW found, Request(r, op, j, at, found),
           at # "raised" => found = status[j],
           at = "answered" => found = "absent"
    PROVE  AnswerInv'
<1> DEFINE q == [at |-> at, op |-> op, job |-> j, knew |-> Knowledge(j),
                 status |-> found, result |-> "none"]
<1>1. /\ reader' = [reader EXCEPT ![r] = q]
      /\ UNCHANGED <<status, stored, told>>
      /\ reader \in [Readers -> Requests]
  BY DEF Request, store, TypeOK
<1>2. Knowledge(j) # "nothing" => status[j] # "absent"
  <2>1. CASE j \in told
    BY <2>1 DEF AnswerInv, Terminal
  <2>2. CASE j \notin told /\ reply[j] = "accepted"
    <3>1. stage[j] = 4
      BY <2>2, Stages DEF CoreInv, HandlerInv
    <3>2. QED
      BY <3>1 DEF CoreInv, HandlerInv
  <2>3. QED
    BY <2>1, <2>2 DEF Knowledge
<1>3. Knowledge(j) = "finished" => j \in told /\ status[j] \in Terminal
  BY DEF Knowledge, AnswerInv
<1>4. at # "raised" => Agrees(q, status')
  <2>1. "absent" \notin Terminal
    BY DEF Terminal
  <2>2. QED
    BY <1>1, <1>2, <1>3, <2>1 DEF Agrees
<1>5. ASSUME NEW i \in Readers
      PROVE  /\ reader'[i].at \notin {"idle", "raised"}
                  => Agrees(reader'[i], status')
             /\ reader'[i].knew = "finished" => reader'[i].job \in told'
  <2>1. CASE i = r
    BY <1>1, <1>3, <1>4, <2>1
  <2>2. CASE i # r
    <3>1. reader'[i] = reader[i]
      BY <1>1, <2>2
    <3>2. reader[i].at \notin {"idle", "raised"} => Agrees(reader[i], status)
      BY DEF AnswerInv
    <3>3. QED
      BY <1>1, <3>1, <3>2 DEF Agrees, AnswerInv
  <2>3. QED
    BY <2>1, <2>2
<1>6. QED
  BY <1>1, <1>5 DEF AnswerInv

(* It is made by poll, or raises. *)
LEMMA PollKeepsAnswers ==
    ASSUME TypeOK, CoreInv, AnswerInv, NEW r \in Readers, NEW op,
           NEW j \in Jobs, poll(r, op, j) \/ poll_raises(r, op, j)
    PROVE  AnswerInv'
<1>1. CASE poll(r, op, j)
  BY <1>1, RequestKeepsAnswers DEF poll
<1>2. CASE poll_raises(r, op, j)
  BY <1>2, RequestKeepsAnswers DEF poll_raises
<1>3. QED
  BY <1>1, <1>2

(* A second read that raises tells its client nothing. *)
LEMMA RaisedKeepsAnswers ==
    ASSUME TypeOK, AnswerInv, NEW r \in Readers, poll_result_raises(r)
    PROVE  AnswerInv'
<1> DEFINE q == [at |-> "raised", op |-> reader[r].op,
                 job |-> reader[r].job, knew |-> reader[r].knew,
                 status |-> reader[r].status, result |-> reader[r].result]
<1>1. /\ UNCHANGED <<status, stored, told>>
      /\ reader \in [Readers -> Requests]
  BY DEF poll_result_raises, store, TypeOK
<1>2. reader' = [reader EXCEPT ![r] = q]
  BY <1>1, SetReaderRaised DEF poll_result_raises
<1>3. \A i \in Readers \ {r} : reader'[i] = reader[i]
  BY <1>1, <1>2
<1>4. reader'[r] = q
  BY <1>1, <1>2
<1>5. QED
  BY <1>1, <1>3, <1>4 DEF AnswerInv, Agrees

(* The second read finds the result of the outcome the first one saw. *)
LEMMA PollResultKeepsAnswers ==
    ASSUME TypeOK, Shapes, CoreInv, AnswerInv, NEW r \in Readers,
           poll_result(r)
    PROVE  AnswerInv'
<1> DEFINE j == reader[r].job
           q == [at |-> "answered", op |-> reader[r].op, job |-> j,
                 knew |-> reader[r].knew, status |-> reader[r].status,
                 result |-> stored[j]]
<1>1. j \in Jobs /\ Agrees(reader[r], status)
  BY DEF poll_result, Shapes, AnswerInv
<1>2. /\ stored[j] \in Terminal \cup {"none"}
      /\ status' = status /\ stored' = stored /\ told \subseteq told'
  BY <1>1 DEF TypeOK, poll_result, store
<1>3. reader' = [reader EXCEPT ![r] = q] /\ reader \in [Readers -> Requests]
  BY <1>2, SetReader DEF poll_result, TypeOK
<1>4. reader[r].status \in Terminal =>
         stored[j] = reader[r].status /\ status[j] \in Terminal
  <2>1. stored[j] # "unreadable"
    BY DEF poll_result
  <2>2. QED
    BY <1>1, <2>1 DEF Agrees, CoreInv, ResultIffTerminal
<1>5. Agrees(q, status')
  BY <1>1, <1>2, <1>4 DEF Agrees
<1>6. ASSUME NEW i \in Readers
      PROVE  /\ reader'[i].at \notin {"idle", "raised"}
                  => Agrees(reader'[i], status')
             /\ reader'[i].knew = "finished" => reader'[i].job \in told'
  <2>1. CASE i = r
    BY <1>2, <1>3, <1>5, <2>1 DEF AnswerInv
  <2>2. CASE i # r
    <3>1. reader'[i] = reader[i]
      BY <1>3, <2>2
    <3>2. reader[i].at \notin {"idle", "raised"} => Agrees(reader[i], status)
      BY DEF AnswerInv
    <3>3. QED
      BY <1>2, <3>1, <3>2 DEF Agrees, AnswerInv
  <2>3. QED
    BY <2>1, <2>2
<1>7. ASSUME NEW k \in told'
      PROVE  status'[k] \in Terminal /\ stored'[k] \in Terminal
  <2>1. k \in told \/ (k = j /\ reader[r].status \in Terminal)
    BY <1>7 DEF poll_result
  <2>2. QED
    BY <1>2, <1>4, <2>1 DEF AnswerInv
<1>8. QED
  BY <1>6, <1>7 DEF AnswerInv

(* No step disturbs the answers. *)
LEMMA StepKeepsAnswers ==
    ASSUME TypeOK, Shapes, CoreInv, AnswerInv, [Next]_vars
    PROVE  AnswerInv'
<1>1. ASSUME NEW j \in Jobs, Upload(j) PROVE UNCHANGED <<reader, told>>
  BY <1>1 DEF Upload, upload, read_and_validate, write_bytes, create,
              submit, upload_raises
<1>2. ASSUME NEW w \in Workers, Pool(w) \/ store_raises(w)
      PROVE  UNCHANGED <<reader, told>>
  BY <1>2 DEF Pool, pick, set_status, run_pipeline, save_result,
              store_closed, store_raises, Dropped
<1>3. ASSUME NEW r \in Readers, Poll(r) PROVE AnswerInv'
  BY <1>3, PollKeepsAnswers, PollResultKeepsAnswers, RaisedKeepsAnswers
  DEF Poll
<1>4. CASE crash
  <2>1. /\ told' = told /\ status' = status /\ stored' = stored
        /\ \A r \in Readers : reader'[r].at = "idle"
                              /\ reader'[r].knew = "nothing"
    BY <1>4 DEF crash, IdleReader, store
  <2>2. QED
    BY <2>1 DEF AnswerInv
<1>5. CASE worker_shutdown \/ store_close \/ process_exit \/ restart
  BY <1>5, OthersKeepAnswers
  DEF worker_shutdown, store_close, process_exit, restart
<1>6. CASE UNCHANGED vars
  BY <1>6, OthersKeepAnswers DEF vars
<1>7. QED
  BY <1>1, <1>2, <1>3, <1>4, <1>5, <1>6, OthersKeepAnswers DEF Next, Process

(* Nobody has been told anything. *)
LEMMA InitAnswers == Init => AnswerInv
BY DEF Init, AnswerInv, IdleReader

(* The invariant of the answers, for every number of polling requests. *)
THEOREM AnswersCorrect == Spec => []AnswerInv
<1>1. Init => AnswerInv
  BY InitAnswers
<1>2. TypeOK /\ Shapes /\ CoreInv /\ AnswerInv /\ [Next]_vars => AnswerInv'
  BY StepKeepsAnswers
<1>3. QED
  BY <1>1, <1>2, ShapesCorrect, CoreCorrect, PTL DEF Spec

(* An answer never goes back behind what clients were told, across crashes *)
(* and restarts.                                                           *)
THEOREM AnswersMatchKnowledgeHolds == Spec => []AnswersMatchKnowledge
<1>1. AnswerInv => AnswersMatchKnowledge
  BY DEF AnswerInv, AnswersMatchKnowledge, Agrees, Terminal
<1>2. QED
  BY <1>1, AnswersCorrect, PTL

(* The two reads of /status tell of one outcome. *)
THEOREM StatusAnswerWholeHolds == Spec => []StatusAnswerWhole
<1>1. AnswerInv => StatusAnswerWhole
  BY DEF AnswerInv, StatusAnswerWhole, Agrees, Terminal
<1>2. QED
  BY <1>1, AnswersCorrect, PTL

=============================================================================
