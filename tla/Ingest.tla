------------------------------- MODULE Ingest -------------------------------
(***************************************************************************)
(* The service around the pipeline: the upload handler of api.py, the job  *)
(* store of store.py, the thread pool of worker.py, the clients that poll  *)
(* /status and /results, and the life of the process (shutdown, crash,     *)
(* restart).  Rows and uploaded files survive the process; the queue of    *)
(* the pool, its threads and the requests do not.                          *)
(***************************************************************************)
EXTENDS Integers, Sequences

CONSTANTS
    Jobs,             \* the uploads clients may send; each gets its own id
    Workers,          \* the threads of the pool (max_workers)
    Readers,          \* the requests that may be polling at once
    NoJob,            \* what a thread or a reader holds when it holds no job
    MaxShutdowns,     \* bound on the orderly shutdowns of a behaviour
    MaxCrashes,       \* bound on its crashes
    MaxFaults         \* bound on its disk and database errors

ASSUME NoJobAssumption == NoJob \notin Jobs
ASSUME BoundsAssumption ==
    MaxShutdowns \in Nat /\ MaxCrashes \in Nat /\ MaxFaults \in Nat

VARIABLES
    server,         \* "up", "closing", "closed" (threads only) or "down"
    stage,          \* the operation each upload is at, 0 before it is sent
    reply,          \* what the client of each upload got
    file,           \* the document is on disk
    status,         \* the status column, "absent" without a row
    stored,         \* the outcome in the result column, "none" when NULL,
                    \* "unreadable" when it cannot be validated back
    queue,          \* the executor's work queue
    thread,         \* per worker: the job it holds and where it is in _run
    reader,         \* per polling request: what it read, what it answers
    told,           \* history: jobs some client was told are finished
    struck,         \* history: unfinished jobs an interruption or error hit
    shutdowns, crashes, faults

requests == <<stage, reply>>
store    == <<status, stored>>
counters == <<shutdowns, crashes, faults>>
vars == <<server, requests, file, store, queue, thread, reader, told, struck,
          counters>>

Terminal == {"completed", "failed"}
Statuses == {"absent", "queued", "running"} \cup Terminal

IdleThread == [job |-> NoJob, at |-> "idle", outcome |-> "none"]
IdleReader == [at |-> "idle", op |-> "none", job |-> NoJob, knew |-> "nothing",
               status |-> "absent", result |-> "none"]

Init ==
    /\ server = "up"
    /\ stage = [j \in Jobs |-> 0]
    /\ reply = [j \in Jobs |-> "none"]
    /\ file = [j \in Jobs |-> FALSE]
    /\ status = [j \in Jobs |-> "absent"]
    /\ stored = [j \in Jobs |-> "none"]
    /\ queue = <<>>
    /\ thread = [w \in Workers |-> IdleThread]
    /\ reader = [r \in Readers |-> IdleReader]
    /\ told = {}
    /\ struck = {}
    /\ shutdowns = 0
    /\ crashes = 0
    /\ faults = 0

-----------------------------------------------------------------------------
(* POST /upload.  The handler runs on the event loop and yields only while *)
(* it reads the body: from there to its answer no other handler runs, but  *)
(* the threads of the pool and those of /status and /results do.           *)

(* Mutant of upload_order: the job is handed out before its row exists. *)
upload_order_swapped == <<"read", "write_bytes", "submit", "create">>

upload_order == <<"read", "write_bytes", "create", "submit">>

InHandler(j) == stage[j] > 0 /\ reply[j] = "none"

OnLoop(j) == InHandler(j) /\ stage[j] > 1

(* Upload j is about to perform op, and it has the event loop. *)
At(j, op) ==
    /\ server = "up"
    /\ InHandler(j)
    /\ upload_order[stage[j]] = op
    /\ \A k \in Jobs \ {j} : ~OnLoop(k)

(* The operation is done: go on, or answer with the job id. *)
Advance(j) ==
    IF stage[j] = Len(upload_order)
    THEN /\ reply' = [reply EXCEPT ![j] = "accepted"]
         /\ UNCHANGED stage
    ELSE /\ stage' = [stage EXCEPT ![j] = @ + 1]
         /\ UNCHANGED reply

Answer(j, code) ==
    /\ reply' = [reply EXCEPT ![j] = code]
    /\ UNCHANGED stage

(* A disk operation or a statement of the database raises. *)
Fault ==
    /\ faults < MaxFaults
    /\ faults' = faults + 1
    /\ UNCHANGED <<shutdowns, crashes>>

(* The request arrives; the limiter, the filename or the size refuse it. *)
upload(j) ==
    /\ server = "up"
    /\ stage[j] = 0
    /\ reply[j] = "none"
    /\ \A k \in Jobs \ {j} : ~OnLoop(k)
    /\ \/ stage' = [stage EXCEPT ![j] = 1] /\ UNCHANGED reply
       \/ Answer(j, "refused")
    /\ UNCHANGED <<server, file, store, queue, thread, reader, told, struck,
                   counters>>

(* The body is there; validate_upload may still refuse it. *)
read_and_validate(j) ==
    /\ At(j, "read")
    /\ Advance(j) \/ Answer(j, "refused")
    /\ UNCHANGED <<server, file, store, queue, thread, reader, told, struck,
                   counters>>

write_bytes(j) ==
    /\ At(j, "write_bytes")
    /\ file' = [file EXCEPT ![j] = TRUE]
    /\ Advance(j)
    /\ UNCHANGED <<server, store, queue, thread, reader, told, struck,
                   counters>>

(* JobStore.create: one INSERT. *)
create(j) ==
    /\ At(j, "create")
    /\ status' = [status EXCEPT ![j] = "queued"]
    /\ Advance(j)
    /\ UNCHANGED <<server, file, stored, queue, thread, reader, told, struck,
                   counters>>

(* PipelineWorker.submit, then the answer with the status QUEUED. *)
submit(j) ==
    /\ At(j, "submit")
    /\ queue' = Append(queue, j)
    /\ Advance(j)
    /\ UNCHANGED <<server, file, store, thread, reader, told, struck,
                   counters>>

(* Writing the file or inserting the row raises: 500, and what the earlier *)
(* operations left behind stays.                                           *)
upload_raises(j) ==
    /\ At(j, "write_bytes") \/ At(j, "create")
    /\ Fault
    /\ Answer(j, "error")
    /\ UNCHANGED <<server, file, store, queue, thread, reader, told, struck>>

Upload(j) ==
    \/ upload(j) \/ read_and_validate(j) \/ write_bytes(j) \/ create(j)
    \/ submit(j) \/ upload_raises(j)

(* The steps of a handler that has started and meets no error. *)
Handler(j) ==
    read_and_validate(j) \/ write_bytes(j) \/ create(j) \/ submit(j)

-----------------------------------------------------------------------------
(* The pool.  Its threads go on after shutdown(wait=False) until the queue *)
(* is empty; once the store is closed each of its operations raises, and   *)
(* the exception ends in a Future nobody looks at.                         *)

Running == server # "down"
StoreOpen == server \in {"up", "closing"}

(* Mutant of pick: the work item stays in the queue. *)
pick_keeps(w) ==
    /\ Running
    /\ thread[w].at = "idle"
    /\ queue # <<>>
    /\ thread' = [thread EXCEPT ![w] =
                     [IdleThread EXCEPT !.job = Head(queue), !.at = "picked"]]
    /\ UNCHANGED <<server, requests, file, store, queue, reader, told, struck,
                   counters>>

(* A free thread takes the oldest work item. *)
pick(w) ==
    /\ Running
    /\ thread[w].at = "idle"
    /\ queue # <<>>
    /\ thread' = [thread EXCEPT ![w] =
                     [IdleThread EXCEPT !.job = Head(queue), !.at = "picked"]]
    /\ queue' = Tail(queue)
    /\ UNCHANGED <<server, requests, file, store, reader, told, struck,
                   counters>>

(* Mutant of set_status: a status the clients do not know. *)
set_status_started(w) ==
    /\ StoreOpen
    /\ thread[w].at = "picked"
    /\ status' = [status EXCEPT ![thread[w].job] = "started"]
    /\ thread' = [thread EXCEPT ![w].at = "pipeline"]
    /\ UNCHANGED <<server, requests, file, stored, queue, reader, told, struck,
                   counters>>

(* _run: set_status(RUNNING), an UPDATE that changes no row it cannot find. *)
set_status(w) ==
    /\ StoreOpen
    /\ thread[w].at = "picked"
    /\ status' = [status EXCEPT ![thread[w].job] =
                      IF @ = "absent" THEN @ ELSE "running"]
    /\ thread' = [thread EXCEPT ![w].at = "pipeline"]
    /\ UNCHANGED <<server, requests, file, stored, queue, reader, told, struck,
                   counters>>

(* Mutant of run_pipeline: an exception is not caught and ends the job. *)
run_pipeline_uncaught(w) ==
    /\ Running
    /\ thread[w].at = "pipeline"
    /\ \/ thread' = [thread EXCEPT ![w].at = "save",
                                   ![w].outcome = "completed"]
       \/ thread' = [thread EXCEPT ![w] = IdleThread]
    /\ UNCHANGED <<server, requests, file, store, queue, reader, told, struck,
                   counters>>

(* _run: run_pipeline returns a result, or raises and becomes a FAILED one. *)
run_pipeline(w) ==
    /\ Running
    /\ thread[w].at = "pipeline"
    /\ \E o \in Terminal :
          thread' = [thread EXCEPT ![w].at = "save", ![w].outcome = o]
    /\ UNCHANGED <<server, requests, file, store, queue, reader, told, struck,
                   counters>>

(* Mutant of save_result: the status is committed without the result. *)
save_result_status_only(w) ==
    /\ StoreOpen
    /\ thread[w].at = "save"
    /\ LET j == thread[w].job
       IN /\ status' = [status EXCEPT ![j] =
                           IF @ = "absent" THEN @ ELSE thread[w].outcome]
          /\ thread' = [thread EXCEPT ![w] = IdleThread]
    /\ UNCHANGED <<server, requests, file, stored, queue, reader, told, struck,
                   counters>>

(* JobStore.save_result: the status and the result in one UPDATE.  If one  *)
(* of its confidences is a NaN or infinite, the result is dumped with a    *)
(* null in its place, which is no float when it is read back.              *)
save_result(w) ==
    /\ StoreOpen
    /\ thread[w].at = "save"
    /\ LET j == thread[w].job
           o == thread[w].outcome
       IN /\ status' = [status EXCEPT ![j] = IF @ = "absent" THEN @ ELSE o]
          /\ \E dumped \in {o, "unreadable"} :
                stored' = [stored EXCEPT ![j] =
                              IF status[j] = "absent" THEN @ ELSE dumped]
          /\ thread' = [thread EXCEPT ![w] = IdleThread]
    /\ UNCHANGED <<server, requests, file, queue, reader, told, struck,
                   counters>>

(* set_status or save_result raises: outside the try of _run, so the job   *)
(* is dropped with its row as it is.                                       *)
Dropped(w) ==
    /\ thread[w].at \in {"picked", "save"}
    /\ thread' = [thread EXCEPT ![w] = IdleThread]
    /\ struck' = struck \cup {thread[w].job}
    /\ UNCHANGED <<server, requests, file, store, queue, reader, told>>

store_closed(w) == server = "closed" /\ Dropped(w) /\ UNCHANGED counters

store_raises(w) == StoreOpen /\ Fault /\ Dropped(w)

Pool(w) ==
    pick(w) \/ set_status(w) \/ run_pipeline(w) \/ save_result(w)
    \/ store_closed(w)

-----------------------------------------------------------------------------
(* GET /status and GET /results: two reads of the store each, with the     *)
(* lock released in between.  knew is what clients had been told about the *)
(* job when the request came in.  A read that raises is answered by a 500. *)

Knowledge(j) ==
    IF j \in told THEN "finished"
    ELSE IF reply[j] = "accepted" THEN "accepted" ELSE "nothing"

(* The slot r is free for a request op about j, which goes on like this. *)
Request(r, op, j, at, found) ==
    /\ server = "up"
    /\ reader[r].at # "found"
    /\ reader' = [reader EXCEPT ![r] =
          [at |-> at, op |-> op, job |-> j, knew |-> Knowledge(j),
           status |-> found, result |-> "none"]]
    /\ UNCHANGED <<server, requests, file, store, queue, thread, told, struck>>

(* The first read: get_status or exists. *)
poll(r, op, j) ==
    /\ Request(r, op, j, IF status[j] = "absent" THEN "answered" ELSE "found",
               status[j])
    /\ UNCHANGED counters

poll_raises(r, op, j) == Request(r, op, j, "raised", "absent") /\ Fault

(* The second read, get_result, and the answer. *)
poll_result(r) ==
    /\ server = "up"
    /\ reader[r].at = "found"
    /\ stored[reader[r].job] # "unreadable"
    /\ reader' = [reader EXCEPT ![r].at = "answered",
                                ![r].result = stored[reader[r].job]]
    /\ told' = IF reader[r].op = "status" /\ reader[r].status \in Terminal
               THEN told \cup {reader[r].job} ELSE told
    /\ UNCHANGED <<server, requests, file, store, queue, thread, struck,
                   counters>>

(* The second read raises: the database does, or model_validate always. *)
poll_result_raises(r) ==
    /\ server = "up"
    /\ reader[r].at = "found"
    /\ \/ Fault
       \/ stored[reader[r].job] = "unreadable" /\ UNCHANGED counters
    /\ reader' = [reader EXCEPT ![r].at = "raised"]
    /\ UNCHANGED <<server, requests, file, store, queue, thread, told, struck>>

Poll(r) ==
    \/ \E op \in {"status", "results"}, j \in Jobs :
          poll(r, op, j) \/ poll_raises(r, op, j)
    \/ poll_result(r) \/ poll_result_raises(r)

-----------------------------------------------------------------------------
(* The process. *)

(* The server has drained its requests; lifespan stops the pool ...        *)
worker_shutdown ==
    /\ server = "up"
    /\ shutdowns < MaxShutdowns
    /\ \A j \in Jobs : ~InHandler(j)
    /\ \A r \in Readers : reader[r].at # "found"
    /\ server' = "closing"
    /\ shutdowns' = shutdowns + 1
    /\ UNCHANGED <<requests, file, store, queue, thread, reader, told, struck,
                   crashes, faults>>

(* ... and closes the store, without waiting for the pool. *)
store_close ==
    /\ server = "closing"
    /\ server' = "closed"
    /\ UNCHANGED <<requests, file, store, queue, thread, reader, told, struck,
                   counters>>

(* The interpreter waits for the threads of the pool before it exits. *)
process_exit ==
    /\ server = "closed"
    /\ queue = <<>>
    /\ \A w \in Workers : thread[w] = IdleThread
    /\ server' = "down"
    /\ UNCHANGED <<requests, file, store, queue, thread, reader, told, struck,
                   counters>>

(* The process is killed: everything in memory is gone. *)
crash ==
    /\ Running
    /\ crashes < MaxCrashes
    /\ crashes' = crashes + 1
    /\ server' = "down"
    /\ queue' = <<>>
    /\ thread' = [w \in Workers |-> IdleThread]
    /\ reader' = [r \in Readers |-> IdleReader]
    /\ reply' = [j \in Jobs |-> IF InHandler(j) THEN "lost" ELSE reply[j]]
    /\ struck' = struck \cup {j \in Jobs : status[j] \in {"queued", "running"}}
    /\ UNCHANGED <<stage, file, store, told, shutdowns, faults>>

(* Mutant of restart: the schema is created anew, dropping the rows. *)
restart_resets ==
    /\ server = "down"
    /\ server' = "up"
    /\ status' = [j \in Jobs |-> "absent"]
    /\ stored' = [j \in Jobs |-> "none"]
    /\ UNCHANGED <<requests, file, queue, thread, reader, told, struck,
                   counters>>

(* Mutant of restart: jobs that were running are marked queued again. *)
restart_requeues ==
    /\ server = "down"
    /\ server' = "up"
    /\ status' = [j \in Jobs |-> IF status[j] = "running" THEN "queued"
                                 ELSE status[j]]
    /\ UNCHANGED <<requests, file, stored, queue, thread, reader, told, struck,
                   counters>>

(* lifespan: the store is opened again; rows left unfinished are not       *)
(* looked at, and the new pool starts with an empty queue.                 *)
restart ==
    /\ server = "down"
    /\ server' = "up"
    /\ UNCHANGED <<requests, file, store, queue, thread, reader, told, struck,
                   counters>>

Process == worker_shutdown \/ store_close \/ process_exit \/ crash \/ restart

Next ==
    \/ \E j \in Jobs : Upload(j)
    \/ \E w \in Workers : Pool(w) \/ store_raises(w)
    \/ \E r \in Readers : Poll(r)
    \/ Process

(* The event loop and the threads of the pool run; a shutdown completes    *)
(* and the operator starts the process again.  Clients, crashes and errors *)
(* are under no obligation.                                                *)
Fairness ==
    /\ \A j \in Jobs : WF_vars(Handler(j))
    /\ \A w \in Workers : WF_vars(Pool(w))
    /\ WF_vars(store_close \/ process_exit \/ restart)

Spec == Init /\ [][Next]_vars
FairSpec == Spec /\ Fairness

-----------------------------------------------------------------------------
Threads == [job : Jobs \cup {NoJob},
            at : {"idle", "picked", "pipeline", "save"},
            outcome : Terminal \cup {"none"}]
Requests == [at : {"idle", "found", "answered", "raised"},
             op : {"none", "status", "results"},
             job : Jobs \cup {NoJob},
             knew : {"nothing", "accepted", "finished"},
             status : Statuses, result : Terminal \cup {"none"}]

(* Every variable keeps its type. *)
TypeOK ==
    /\ server \in {"up", "closing", "closed", "down"}
    /\ stage \in [Jobs -> 0..Len(upload_order)]
    /\ reply \in [Jobs -> {"none", "accepted", "refused", "error", "lost"}]
    /\ file \in [Jobs -> BOOLEAN]
    /\ status \in [Jobs -> Statuses]
    /\ stored \in [Jobs -> Terminal \cup {"none", "unreadable"}]
    /\ queue \in Seq(Jobs)
    /\ thread \in [Workers -> Threads]
    /\ reader \in [Readers -> Requests]
    /\ told \subseteq Jobs
    /\ struck \subseteq Jobs
    /\ shutdowns \in 0..MaxShutdowns
    /\ crashes \in 0..MaxCrashes
    /\ faults \in 0..MaxFaults

(* The result column is filled exactly when the status is terminal, and    *)
(* says the same if it can be read: no reader finds a finished job without *)
(* a result, or with that of another outcome.                              *)
ResultIffTerminal ==
    \A j \in Jobs :
        stored[j] \in IF status[j] \in Terminal
                      THEN {status[j], "unreadable"} ELSE {"none"}

Queued(j) == \E i \in 1..Len(queue) : queue[i] = j
Held(j) == \E w \in Workers : thread[w].job = j

(* A job is in one place at a time: queued once or held by one thread, so  *)
(* no document is sent to the model twice.                                 *)
OnePlace ==
    /\ \A i, k \in 1..Len(queue) : queue[i] = queue[k] => i = k
    /\ \A v, w \in Workers :
          thread[v].job = thread[w].job /\ thread[v].job # NoJob => v = w
    /\ \A j \in Jobs : Queued(j) => ~Held(j) /\ status[j] = "queued"

(* Whatever the pool works on has its row and its file, although both were *)
(* written by another thread.                                              *)
WorkIsBacked ==
    \A j \in Jobs : Queued(j) \/ Held(j) => file[j] /\ status[j] # "absent"

(* A row that is not finished is on its way: its handler has yet to submit *)
(* it, or it is in the pool, or an interruption or an error has struck it. *)
(* No interleaving of the threads alone loses a job.                       *)
UnfinishedIsHeld ==
    \A j \in Jobs : status[j] \in {"queued", "running"} =>
        InHandler(j) \/ Queued(j) \/ Held(j) \/ j \in struck

(* Answers agree with what clients already know.  A job whose upload was   *)
(* accepted is never unknown, across restarts too; one reported finished   *)
(* stays so, its result is in every later answer, and only an error of the *)
(* database, not the result itself, can cost a client that answer.         *)
AnswersMatchKnowledge ==
    \A r \in Readers :
        /\ reader[r].at = "answered" =>
              /\ reader[r].knew # "nothing" => reader[r].status # "absent"
              /\ reader[r].knew = "finished" =>
                    reader[r].status \in Terminal /\ reader[r].result # "none"
        /\ reader[r].knew = "finished" => stored[reader[r].job] \in Terminal

(* /status reads the row twice: if the first read finds the job finished,  *)
(* the route and the error of the second are those of that same outcome.   *)
StatusAnswerWhole ==
    \A r \in Readers :
        /\ reader[r].at = "answered"
        /\ reader[r].status \in Terminal
        => reader[r].result = reader[r].status

(* The abstract view: status and answer of every job move forward together. *)
Lifecycle ==
    INSTANCE JobLifecycle WITH
        phase <- [j \in Jobs |->
                    IF status[j] = "absent" THEN "unknown" ELSE status[j]],
        answer <- [j \in Jobs |->
                    IF status[j] = "absent" THEN "404"
                    ELSE IF stored[j] = "none" THEN "409"
                    ELSE IF stored[j] = "unreadable" THEN "500"
                    ELSE stored[j]]

(* The service implements the life cycle, through crashes and restarts.    *)
ImplementsLifecycle == Lifecycle!Spec

(* A job that is queued finishes, unless something struck it.              *)
FinishesUnlessStruck ==
    \A j \in Jobs :
        status[j] = "queued" ~> (status[j] \in Terminal \/ j \in struck)

-----------------------------------------------------------------------------
(* A statement of the documentation that the code does not satisfy.        *)

(* architecture.md:86-87: the worker "persists the result, moving the job  *)
(* QUEUED -> RUNNING -> COMPLETED/FAILED": a queued job finishes.          *)
EveryJobFinishes ==
    \A j \in Jobs : status[j] = "queued" ~> status[j] \in Terminal

=============================================================================
