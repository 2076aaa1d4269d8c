--------------------------- MODULE FrontendProofs ---------------------------
(***************************************************************************)
(* The safety of the pages, for any number of pages, uploads and threads,  *)
(* with requests that are lost, late answers, reruns, crashes and          *)
(* restarts.  The service under the pages keeps the invariants that        *)
(* IngestProofs establishes, although a page may drop a request of its     *)
(* own; what a page shows then follows from them.                          *)
(***************************************************************************)
EXTENDS Frontend, IngestProofs

-----------------------------------------------------------------------------
(* The invariant.  What a page may rely on depends on where its script is: *)
(* beyond the upload its job was accepted, beyond the polling the job was  *)
(* reported finished, and the request it waits for is about that job and   *)
(* was sent with that knowledge.                                           *)

ServiceInv == TypeOK /\ Shapes /\ CoreInv /\ AnswerInv

(* Page p with request q fits the jobs told finished, the replies to the   *)
(* uploads, the stored results and the number of errors so far.            *)
Fits(p, q, finished, replies, results, errors) ==
    /\ p.at # "idle" \/ p.shown \in Terminal => p.job \in Jobs
    /\ p.at \notin {"idle", "uploading"} => replies[p.job] = "accepted"
    /\ p.at = "fetching" => p.job \in finished
    /\ p.at = "asking" /\ q.at # "idle" =>
          q.op = "status" /\ q.job = p.job /\ q.knew # "nothing"
    /\ p.at = "reading" /\ q.at # "idle" =>
          q.job = p.job /\ q.knew = "finished"
    /\ q.at = "answered" /\ q.op = "status" /\ q.status \in Terminal =>
          q.job \in finished
    /\ p.shown \in Terminal =>
          replies[p.job] = "accepted" /\ results[p.job] = p.shown
    /\ p.at = "reading" /\ q.at = "raised" => errors > 0
    /\ p.shown # "key_error"
    /\ p.shown = "status_only" =>
          p.job \in Jobs /\ results[p.job] \in Terminal /\ errors > 0

PageInv ==
    /\ page \in [Readers -> Pages]
    /\ wire \subseteq {j \in Jobs : stage[j] = 0 /\ reply[j] = "none"}
    /\ \A r \in Readers : Fits(page[r], reader[r], told, reply, stored, faults)

(* The invariant is about what the runs check. *)
LEMMA PageInvMeans ==
    ASSUME PageInv
    PROVE  PageTypeOK /\ ShownIsStored /\ OnlyErrorsCostTheResult
BY DEF PageInv, Fits, PageTypeOK, ShownIsStored, OnlyErrorsCostTheResult

-----------------------------------------------------------------------------
(* The steps of a script write fields of one record: the whole record.     *)

Places == {"idle", "uploading", "polling", "asking", "fetching", "reading"}

(* The place ... *)
LEMMA PageAt ==
    ASSUME NEW p \in Pages, NEW a \in Places
    PROVE  [p EXCEPT !.at = a] = [at |-> a, job |-> p.job, late |-> p.late,
                                  shown |-> p.shown]
    BY DEF Pages, Places

(* ... and the deadline. *)
LEMMA PageLate ==
    ASSUME NEW p \in Pages
    PROVE  LET q == [p EXCEPT !.late = TRUE]
           IN q \in Pages /\ q.at = p.at /\ q.job = p.job /\ q.shown = p.shown
<1> DEFINE q == [p EXCEPT !.late = TRUE]
<1>1. q.at = p.at /\ q.job = p.job /\ q.shown = p.shown
  BY DEF Pages
<1>2. q \in Pages
  BY DEF Pages
<1>3. QED
  BY <1>1, <1>2

(* GoesTo moves the script of one page ... *)
LEMMA GoesToFacts ==
    ASSUME page \in [Readers -> Pages], NEW r \in Readers,
           NEW a \in Places, GoesTo(r, a)
    PROVE  page' = [page EXCEPT ![r] =
                      [at |-> a, job |-> page[r].job, late |-> page[r].late,
                       shown |-> page[r].shown]]
<1>1. [page[r] EXCEPT !.at = a]
         = [at |-> a, job |-> page[r].job, late |-> page[r].late,
            shown |-> page[r].shown]
  BY PageAt
<1>2. QED
  BY <1>1, Zenon DEF GoesTo

(* ... and Shows ends it, showing s. *)
LEMMA ShowsFacts ==
    ASSUME page \in [Readers -> Pages], NEW r \in Readers, NEW s, Shows(r, s)
    PROVE  page' = [page EXCEPT ![r] =
                      [at |-> "idle", job |-> page[r].job,
                       late |-> page[r].late, shown |-> s]]
<1> DEFINE g == [page EXCEPT ![r].at = "idle"]
           p == [at |-> "idle", job |-> page[r].job, late |-> page[r].late,
                 shown |-> page[r].shown]
           q == [at |-> "idle", job |-> page[r].job, late |-> page[r].late,
                 shown |-> s]
<1>1. [page[r] EXCEPT !.at = "idle"] = p
  BY PageAt DEF Places
<1>2. g = [page EXCEPT ![r] = p]
  BY <1>1, Zenon
<1>3. g[r] = p
  BY <1>2
<1>4. [p EXCEPT !.shown = s] = q
  OBVIOUS
<1>5. [g EXCEPT ![r].shown = s] = [g EXCEPT ![r] = q]
  BY <1>3, <1>4, Zenon
<1>6. @ = [page EXCEPT ![r] = q]
  BY <1>2
<1>7. QED
  BY <1>5, <1>6, Zenon DEF Shows

-----------------------------------------------------------------------------
(* The service under the pages. *)

(* A request is dropped and nothing else of the service changes. *)
Dropping(r) == HangsUp(r) /\ Ingest_unchanged_but_reader

(* A step of pages and service is a step of Ingest, none, or a dropping. *)
LEMMA StepsOfService ==
    ASSUME PageInv, [FrontendNext]_all_vars
    PROVE  [Next]_vars \/ \E r \in Readers : Dropping(r)
<1>1. ASSUME NEW r \in Readers, ask_status(r) \/ fetch_results(r)
      PROVE  Next
  <2>1. page[r].job \in Jobs
    BY <1>1 DEF ask_status, fetch_results, PageInv, Fits
  <2>2. QED
    BY <1>1, <2>1 DEF ask_status, fetch_results, Next, Poll
<1>2. ASSUME NEW r \in Readers,
             press(r) \/ rerun(r) \/ deadline(r) \/ Script(r)
      PROVE  [Next]_vars \/ Dropping(r)
  BY <1>1, <1>2
  DEF press, rerun, deadline, Script, upload_answered, upload_fails,
      times_out, status_answered, status_fails, results_answered,
      results_fail, Dropping
<1>3. ASSUME NEW r \in Readers,
             Serve(poll_result(r) \/ poll_result_raises(r))
      PROVE  Next
  BY <1>3 DEF Serve, Next, Poll
<1>4. ASSUME NEW j \in Jobs,
             upload_arrives(j) \/ Serve(Handler(j) \/ upload_raises(j))
      PROVE  Next
  BY <1>4 DEF upload_arrives, Serve, Handler, Next, Upload
<1>5. ASSUME NEW w \in Workers, Serve(Pool(w) \/ store_raises(w)) PROVE Next
  BY <1>5 DEF Serve, Next
<1>6. CASE ServiceStops \/ Serve(store_close \/ process_exit \/ restart)
  BY <1>6 DEF ServiceStops, Serve, Next, Process
<1>7. CASE UNCHANGED all_vars
  BY <1>7 DEF all_vars
<1>8. QED
  BY <1>2, <1>3, <1>4, <1>5, <1>6, <1>7 DEF FrontendNext

(* Dropping a request leaves the service consistent. *)
LEMMA DroppingKeepsService ==
    ASSUME ServiceInv, NEW r \in Readers, Dropping(r)
    PROVE  ServiceInv'
<1>1. /\ reader' = [reader EXCEPT ![r] = IdleReader]
      /\ UNCHANGED <<server, stage, reply, file, status, stored, queue,
                     thread, told, struck, shutdowns, crashes, faults>>
  BY DEF Dropping, HangsUp, Ingest_unchanged_but_reader, requests, store,
         counters
<1>2. CoreInv'
  BY <1>1, OthersKeepCore DEF ServiceInv
<1>3. /\ IdleReader \in Requests
      /\ IdleReader.at = "idle" /\ IdleReader.knew = "nothing"
  BY DEF IdleReader, Requests, Statuses
<1>4. TypeOK' /\ Shapes'
  BY <1>1, <1>3 DEF ServiceInv, TypeOK, Shapes
<1>5. \A i \in Readers :
         \/ reader'[i] = reader[i]
         \/ reader'[i].at = "idle" /\ reader'[i].knew = "nothing"
  BY <1>1, <1>3 DEF ServiceInv, TypeOK
<1>6. AnswerInv'
  BY <1>1, <1>5 DEF ServiceInv, AnswerInv
<1>7. QED
  BY <1>2, <1>4, <1>6 DEF ServiceInv

(* Whatever the pages do, the service stays consistent. *)
LEMMA StepKeepsService ==
    ASSUME ServiceInv, PageInv, [FrontendNext]_all_vars
    PROVE  ServiceInv'
<1>1. CASE [Next]_vars
  BY <1>1, StepKeepsShapes, StepKeepsCore, StepKeepsAnswers DEF ServiceInv
<1>2. ASSUME NEW r \in Readers, Dropping(r) PROVE ServiceInv'
  BY <1>2, DroppingKeepsService
<1>3. QED
  BY <1>1, <1>2, StepsOfService

(* What pages rely on is never taken back. *)
Grows ==
    /\ told \subseteq told'
    /\ \A j \in Jobs : reply[j] = "accepted" => reply'[j] = "accepted"
    /\ \A j \in Jobs : stored[j] \in Terminal => stored'[j] = stored[j]
    /\ faults > 0 => faults' > 0

(* The steps of Ingest only add to it. *)
LEMMA NextGrows ==
    ASSUME ServiceInv, [Next]_vars
    PROVE  Grows
<1>1. told \subseteq told'
  <2>1. ASSUME NEW j \in Jobs, Upload(j) PROVE told' = told
    BY <2>1 DEF Upload, upload, read_and_validate, write_bytes, create,
                submit, upload_raises
  <2>2. ASSUME NEW w \in Workers, Pool(w) \/ store_raises(w)
        PROVE  told' = told
    BY <2>2 DEF Pool, pick, set_status, run_pipeline, save_result,
                store_closed, store_raises, Dropped
  <2>3. ASSUME NEW r \in Readers, Poll(r) PROVE told \subseteq told'
    BY <2>3 DEF Poll, poll, poll_raises, poll_result, poll_result_raises,
                Request
  <2>4. CASE Process \/ UNCHANGED vars
    BY <2>4 DEF Process, worker_shutdown, store_close, process_exit, crash,
                restart, vars
  <2>5. QED
    BY <2>1, <2>2, <2>3, <2>4 DEF Next
<1>2. ASSUME NEW j \in Jobs, reply[j] = "accepted"
      PROVE  reply'[j] = "accepted"
  <2>1. ASSUME NEW k \in Jobs, Upload(k)
        PROVE  \/ reply' = reply
               \/ /\ reply[k] = "none"
                  /\ \E code : reply' = [reply EXCEPT ![k] = code]
    BY <2>1 DEF Upload, upload, read_and_validate, write_bytes, create,
                submit, upload_raises, At, InHandler, Advance, Answer
  <2>2. ASSUME NEW w \in Workers, Pool(w) \/ store_raises(w)
        PROVE  reply' = reply
    BY <2>2 DEF Pool, pick, set_status, run_pipeline, save_result,
                store_closed, store_raises, Dropped, requests
  <2>3. ASSUME NEW r \in Readers, Poll(r) PROVE reply' = reply
    BY <2>3 DEF Poll, poll, poll_raises, poll_result, poll_result_raises,
                Request, requests
  <2>4. CASE crash
    BY <1>2, <2>4 DEF crash, InHandler
  <2>5. CASE worker_shutdown \/ store_close \/ process_exit \/ restart
             \/ UNCHANGED vars
    BY <1>2, <2>5 DEF worker_shutdown, store_close, process_exit, restart,
                      vars, requests
  <2>6. reply \in [Jobs -> {"none", "accepted", "refused", "error", "lost"}]
    BY DEF ServiceInv, TypeOK
  <2>7. QED
    BY <1>2, <2>1, <2>2, <2>3, <2>4, <2>5, <2>6 DEF Next, Process
<1>3. ASSUME NEW j \in Jobs, stored[j] \in Terminal
      PROVE  stored'[j] = stored[j]
  <2>1. status[j] \in Terminal
    BY <1>3 DEF ServiceInv, CoreInv, ResultIffTerminal, Terminal
  <2>2. QED
    BY <2>1, FinishedStays DEF ServiceInv
<1>4. faults > 0 => faults' > 0
  <2>1. faults \in Nat
    BY BoundsAssumption DEF ServiceInv, TypeOK
  <2>2. faults' = faults \/ faults' = faults + 1
    <3>1. ASSUME NEW j \in Jobs, Upload(j)
          PROVE  faults' = faults \/ faults' = faults + 1
      BY <3>1 DEF Upload, upload, read_and_validate, write_bytes, create,
                  submit, upload_raises, Fault, counters
    <3>2. ASSUME NEW w \in Workers, Pool(w) \/ store_raises(w)
          PROVE  faults' = faults \/ faults' = faults + 1
      BY <3>2 DEF Pool, pick, set_status, run_pipeline, save_result,
                  store_closed, store_raises, Fault, counters
    <3>3. ASSUME NEW r \in Readers, Poll(r)
          PROVE  faults' = faults \/ faults' = faults + 1
      BY <3>3 DEF Poll, poll, poll_raises, poll_result, poll_result_raises,
                  Fault, counters
    <3>4. CASE Process \/ UNCHANGED vars
      BY <3>4 DEF Process, worker_shutdown, store_close, process_exit, crash,
                  restart, vars, counters
    <3>5. QED
      BY <3>1, <3>2, <3>3, <3>4 DEF Next
  <2>3. QED
    BY <2>1, <2>2
<1>5. QED
  BY <1>1, <1>2, <1>3, <1>4 DEF Grows

(* So do those of the pages. *)
LEMMA StepGrows ==
    ASSUME ServiceInv, PageInv, [FrontendNext]_all_vars
    PROVE  Grows
<1>1. ASSUME NEW r \in Readers, Dropping(r) PROVE Grows
  BY <1>1 DEF Dropping, Ingest_unchanged_but_reader, Grows, requests, store,
              counters
<1>2. QED
  BY <1>1, NextGrows, StepsOfService

(* A page that nobody touches still fits. *)
LEMMA FitsLater ==
    ASSUME Grows, NEW p, NEW q, Fits(p, q, told, reply, stored, faults)
    PROVE  /\ Fits(p, q, told', reply', stored', faults')
           /\ Fits(p, IdleReader, told', reply', stored', faults')
<1>1. IdleReader.at = "idle"
  BY DEF IdleReader
<1>2. p.at # "idle" => p.job \in Jobs
  BY DEF Fits
<1>3. p.shown \in Terminal \cup {"status_only"}
         => p.job \in Jobs /\ stored[p.job] \in Terminal
  BY DEF Fits
<1>4. QED
  BY <1>1, <1>2, <1>3 DEF Fits, Grows

-----------------------------------------------------------------------------
(* The steps of the pages. *)

(* A step that gives page r the record p and its request the record q, and *)
(* leaves the other pages alone, keeps the invariant if the two fit.       *)
LEMMA OnePageMoves ==
    ASSUME ServiceInv, PageInv, Grows, NEW r \in Readers,
           NEW p \in Pages, NEW q,
           page' = [page EXCEPT ![r] = p],
           reader' = [reader EXCEPT ![r] = q],
           Fits(p, q, told', reply', stored', faults')
    PROVE  /\ page' \in [Readers -> Pages]
           /\ \A i \in Readers :
                 Fits(page[i], reader[i], told, reply, stored, faults)'
<1>1. page \in [Readers -> Pages] /\ reader \in [Readers -> Requests]
  BY DEF PageInv, ServiceInv, TypeOK
<1>2. page' \in [Readers -> Pages]
  BY <1>1
<1>3. ASSUME NEW i \in Readers
      PROVE  Fits(page'[i], reader'[i], told', reply', stored', faults')
  <2>1. CASE i = r
    <3>1. page'[i] = p /\ reader'[i] = q
      BY <1>1, <2>1
    <3>2. QED
      BY <3>1
  <2>2. CASE i # r
    <3>1. page'[i] = page[i] /\ reader'[i] = reader[i]
      BY <1>1, <2>2
    <3>2. Fits(page[i], reader[i], told', reply', stored', faults')
      BY FitsLater DEF PageInv
    <3>3. QED
      BY <3>1, <3>2
  <2>3. QED
    BY <2>1, <2>2
<1>4. QED
  BY <1>2, <1>3

(* The pages stay as they are, and each request as it is or dropped.       *)
LEMMA NoPageMoves ==
    ASSUME ServiceInv, PageInv, Grows, page' = page,
           \A i \in Readers : reader'[i] \in {reader[i], IdleReader}
    PROVE  /\ page' \in [Readers -> Pages]
           /\ \A i \in Readers :
                 Fits(page[i], reader[i], told, reply, stored, faults)'
<1>1. ASSUME NEW i \in Readers
      PROVE  Fits(page'[i], reader'[i], told', reply', stored', faults')
  <2>1. Fits(page[i], reader[i], told, reply, stored, faults)
    BY DEF PageInv
  <2>2. QED
    BY <2>1, FitsLater
<1>2. QED
  BY <1>1 DEF PageInv

(* The visitor, and the steps that end a script or wait for nothing.       *)
LEMMA QuietSteps ==
    ASSUME ServiceInv, PageInv, Grows, NEW r \in Readers,
           \/ press(r) \/ rerun(r) \/ deadline(r) \/ upload_answered(r)
           \/ upload_fails(r) \/ times_out(r) \/ status_fails(r)
           \/ results_fail(r)
    PROVE  /\ page' \in [Readers -> Pages]
           /\ \A i \in Readers :
                 Fits(page[i], reader[i], told, reply, stored, faults)'
<1>1. /\ page \in [Readers -> Pages] /\ reader \in [Readers -> Requests]
      /\ page[r] \in Pages /\ page[r].job \in Jobs \cup {NoJob}
      /\ page[r].late \in BOOLEAN
      /\ Fits(page[r], reader[r], told, reply, stored, faults)
  BY DEF PageInv, Pages, ServiceInv, TypeOK
<1>2. /\ Fits(page[r], reader[r], told', reply', stored', faults')
      /\ Fits(page[r], IdleReader, told', reply', stored', faults')
  BY <1>1, FitsLater
<1>3. reader = [reader EXCEPT ![r] = reader[r]]
  BY <1>1
<1>4. \A t, rp, st, e : Fits(EmptyPage, IdleReader, t, rp, st, e)
  BY DEF Fits, EmptyPage, IdleReader, Terminal, Flaws
<1>5. EmptyPage \in Pages /\ IdleReader.at = "idle"
  BY DEF EmptyPage, Pages, IdleReader
<1>6. CASE press(r)
  <2>1. PICK j \in Jobs :
           page' = [page EXCEPT ![r] = [EmptyPage EXCEPT !.at = "uploading",
                                                         !.job = j]]
    BY <1>6 DEF press
  <2> DEFINE o == [EmptyPage EXCEPT !.at = "uploading"]
             p == [o EXCEPT !.job = j]
  <2>2. o \in Pages /\ o.at = "uploading" /\ o.shown = "none"
    BY DEF EmptyPage, Pages
  <2>3. p \in Pages /\ p.at = "uploading" /\ p.job = j /\ p.shown = "none"
    <3> HIDE DEF o
    <3>1. p.at = "uploading" /\ p.job = j /\ p.shown = "none"
      BY <2>2 DEF Pages
    <3>2. p \in Pages
      BY <2>2 DEF Pages
    <3>3. QED
      BY <3>1, <3>2
  <2>4. page' = [page EXCEPT ![r] = p]
    BY <2>1, Zenon
  <2>5. UNCHANGED <<reader, told, reply, stored>>
    BY <1>6 DEF press, vars, requests, store
  <2>6. Fits(p, reader[r], told', reply', stored', faults')
    BY <1>2, <2>3 DEF Fits, Terminal, Flaws
  <2>7. QED
    <3> HIDE DEF p
    <3>1. QED
      BY <1>3, <2>3, <2>4, <2>5, <2>6, OnePageMoves
<1>7. CASE rerun(r)
  BY <1>4, <1>5, <1>7, OnePageMoves DEF rerun, HangsUp
<1>8. CASE deadline(r)
  <2> DEFINE p == [page[r] EXCEPT !.late = TRUE]
  <2>1. page' = [page EXCEPT ![r] = p] /\ reader' = reader
    <3>1. reader' = reader
      BY <1>8 DEF deadline, vars
    <3>2. page' = [page EXCEPT ![r].late = TRUE]
      BY <1>8 DEF deadline
    <3>3. QED
      BY <3>1, <3>2, Zenon
  <2>2. p \in Pages /\ p.at = page[r].at /\ p.job = page[r].job
        /\ p.shown = page[r].shown
    BY <1>1, PageLate
  <2>3. Fits(p, reader[r], told', reply', stored', faults')
    BY <1>2, <2>2 DEF Fits
  <2>4. QED
    BY <1>3, <2>1, <2>2, <2>3, OnePageMoves
<1>9. ASSUME NEW s \in {"upload_failed", "status_failed", "timed_out",
                        "exception"},
             Shows(r, s), NEW q \in {reader[r], IdleReader},
             reader' = [reader EXCEPT ![r] = q]
      PROVE  /\ page' \in [Readers -> Pages]
             /\ \A i \in Readers :
                   Fits(page[i], reader[i], told, reply, stored, faults)'
  <2> DEFINE p == [at |-> "idle", job |-> page[r].job, late |-> page[r].late,
                   shown |-> s]
  <2>1. page' = [page EXCEPT ![r] = p]
    BY <1>1, <1>9, ShowsFacts
  <2>2. p \in Pages
    BY <1>1, <1>9 DEF Pages, Failures
  <2>3. Fits(p, q, told', reply', stored', faults')
    BY <1>2, <1>9 DEF Fits, Terminal, Flaws
  <2>4. QED
    BY <1>9, <2>1, <2>2, <2>3, OnePageMoves
<1>10. CASE upload_fails(r) \/ times_out(r) \/ status_fails(r)
            \/ results_fail(r)
  <2>1. CASE upload_fails(r) \/ times_out(r)
    BY <1>3, <1>9, <2>1 DEF upload_fails, times_out, vars
  <2>2. CASE status_fails(r) \/ results_fail(r)
    BY <1>9, <2>2 DEF status_fails, results_fail, HangsUp
  <2>3. QED
    BY <1>10, <2>1, <2>2
<1>11. CASE upload_answered(r)
  <2>1. reader' = reader /\ reply' = reply
    BY <1>11 DEF upload_answered, vars, requests
  <2>2. CASE Shows(r, "upload_failed")
    BY <1>3, <1>9, <2>1, <2>2
  <2>3. CASE reply[page[r].job] = "accepted" /\ GoesTo(r, "polling")
    <3> DEFINE p == [at |-> "polling", job |-> page[r].job,
                     late |-> page[r].late, shown |-> page[r].shown]
    <3>1. page' = [page EXCEPT ![r] = p]
      BY <1>1, <2>3, GoesToFacts DEF Places
    <3>2. p \in Pages
      BY <1>1 DEF Pages
    <3>3. page[r].at = "uploading" /\ page[r].job \in Jobs
      BY <1>1, <1>11 DEF upload_answered, Fits
    <3>4. Fits(p, reader[r], told', reply', stored', faults')
      BY <1>2, <2>1, <2>3, <3>3 DEF Fits
    <3>5. QED
      BY <1>3, <2>1, <3>1, <3>2, <3>4, OnePageMoves
  <2>4. QED
    BY <1>11, <2>2, <2>3 DEF upload_answered
<1>12. QED
  BY <1>6, <1>7, <1>8, <1>10, <1>11

(* A request of the page: it is about the page's job, and it is sent with  *)
(* what clients know of that job.                                          *)
LEMMA AskingSteps ==
    ASSUME ServiceInv, PageInv, Grows, NEW r \in Readers,
           ask_status(r) \/ fetch_results(r)
    PROVE  /\ page' \in [Readers -> Pages]
           /\ \A i \in Readers :
                 Fits(page[i], reader[i], told, reply, stored, faults)'
<1> DEFINE j == page[r].job
           op == IF page[r].at = "polling" THEN "status" ELSE "results"
           a == IF page[r].at = "polling" THEN "asking" ELSE "reading"
           p == [at |-> a, job |-> j, late |-> page[r].late,
                 shown |-> page[r].shown]
<1>1. /\ page \in [Readers -> Pages] /\ page[r] \in Pages
      /\ Fits(page[r], reader[r], told', reply', stored', faults')
      /\ Fits(page[r], reader[r], told, reply, stored, faults)
  BY FitsLater DEF PageInv
<1>2. /\ page[r].at \in {"polling", "fetching"} /\ GoesTo(r, a)
      /\ \E at, found :
            /\ Request(r, op, j, at, found)
            /\ at = "answered" => found = "absent"
            /\ at = "raised" => faults' > 0
  <2>1. /\ page[r].at \in {"polling", "fetching"} /\ GoesTo(r, a)
        /\ poll(r, op, j) \/ poll_raises(r, op, j)
    BY DEF ask_status, fetch_results
  <2>2. faults + 1 > 0
    BY BoundsAssumption DEF ServiceInv, TypeOK
  <2>3. CASE poll(r, op, j)
    BY <2>1, <2>3 DEF poll
  <2>4. CASE poll_raises(r, op, j)
    BY <2>1, <2>2, <2>4 DEF poll_raises, Fault
  <2>5. QED
    BY <2>1, <2>3, <2>4
<1>3. j \in Jobs /\ reply[j] = "accepted"
      /\ (page[r].at = "fetching" => j \in told)
  BY <1>1, <1>2 DEF Fits
<1> PICK at, found : /\ Request(r, op, j, at, found)
                     /\ at = "answered" => found = "absent"
                     /\ at = "raised" => faults' > 0
  BY <1>2
<1> DEFINE q == [at |-> at, op |-> op, job |-> j, knew |-> Knowledge(j),
                 status |-> found, result |-> "none"]
<1>4. reader' = [reader EXCEPT ![r] = q] /\ UNCHANGED <<told, reply, stored>>
  BY DEF Request, requests, store
<1>5. page' = [page EXCEPT ![r] = p]
  BY <1>1, <1>2, GoesToFacts DEF Places
<1>6. p \in Pages
  BY <1>1 DEF Pages
<1>7. /\ Knowledge(j) # "nothing"
      /\ page[r].at = "fetching" => Knowledge(j) = "finished"
  BY <1>3 DEF Knowledge
<1>8. q.at = "answered" => q.status \notin Terminal
  BY DEF Terminal
<1>9. Fits(p, q, told', reply', stored', faults')
  <2>1. /\ q.op = op /\ q.job = j /\ q.knew = Knowledge(j)
        /\ p.at = a /\ p.job = j /\ p.shown = page[r].shown
    OBVIOUS
  <2>2. /\ page[r].shown # "key_error"
        /\ page[r].shown = "status_only" =>
              stored'[j] \in Terminal /\ faults' > 0
        /\ page[r].shown \in Terminal =>
              reply'[j] = "accepted" /\ stored'[j] = page[r].shown
        /\ q.at = "raised" => faults' > 0
    BY <1>1 DEF Fits
  <2> HIDE DEF q, p
  <2>3. QED
    BY <1>2, <1>3, <1>4, <1>7, <1>8, <2>1, <2>2 DEF Fits
<1>10. QED
  <2> HIDE DEF q, p
  <2>1. QED
    BY <1>4, <1>5, <1>6, <1>9, OnePageMoves

(* The page reads an answer: to a request that knew the job, so the record *)
(* has a status, and to one that knew it finished, so the result is there. *)
LEMMA ReadingSteps ==
    ASSUME ServiceInv, PageInv, Grows, NEW r \in Readers,
           status_answered(r) \/ results_answered(r)
    PROVE  /\ page' \in [Readers -> Pages]
           /\ \A i \in Readers :
                 Fits(page[i], reader[i], told, reply, stored, faults)'
<1> DEFINE j == page[r].job
<1>1. /\ page \in [Readers -> Pages] /\ page[r] \in Pages
      /\ Fits(page[r], reader[r], told, reply, stored, faults)
      /\ Fits(page[r], reader[r], told', reply', stored', faults')
      /\ reader = [reader EXCEPT ![r] = reader[r]]
  BY FitsLater DEF PageInv, ServiceInv, TypeOK
<1>2. /\ page[r].at \in {"asking", "reading"}
      /\ reader[r].at \in {"answered", "raised"}
      /\ UNCHANGED <<reader, told, reply, stored>>
  BY DEF status_answered, results_answered, vars, requests, store
<1>3. /\ reader[r].at = "answered" => Agrees(reader[r], status)
      /\ reader[r].knew = "finished" => reader[r].job \in told
  BY <1>2 DEF ServiceInv, AnswerInv
<1>4. j \in Jobs /\ reply[j] = "accepted" /\ reader[r].job = j
  BY <1>1, <1>2 DEF Fits
<1>5. ASSUME NEW a \in {"fetching", "polling"}, GoesTo(r, a),
             page[r].at = "asking", a = "fetching" => j \in told
      PROVE  /\ page' \in [Readers -> Pages]
             /\ \A i \in Readers :
                   Fits(page[i], reader[i], told, reply, stored, faults)'
  <2> DEFINE p == [at |-> a, job |-> j, late |-> page[r].late,
                   shown |-> page[r].shown]
  <2>1. page' = [page EXCEPT ![r] = p]
    BY <1>1, <1>5, GoesToFacts DEF Places
  <2>2. p \in Pages
    BY <1>1 DEF Pages
  <2>3. Fits(p, reader[r], told', reply', stored', faults')
    BY <1>1, <1>2, <1>4, <1>5 DEF Fits
  <2>4. QED
    BY <1>1, <1>2, <2>1, <2>2, <2>3, OnePageMoves
<1>6. ASSUME NEW s \in Terminal \cup {"status_failed", "status_only"},
             Shows(r, s),
             s \in Terminal => stored[j] = s,
             s = "status_only" => stored[j] \in Terminal /\ faults' > 0
      PROVE  /\ page' \in [Readers -> Pages]
             /\ \A i \in Readers :
                   Fits(page[i], reader[i], told, reply, stored, faults)'
  <2> DEFINE p == [at |-> "idle", job |-> j, late |-> page[r].late,
                   shown |-> s]
  <2>1. page' = [page EXCEPT ![r] = p]
    BY <1>1, <1>6, ShowsFacts
  <2>2. p \in Pages
    BY <1>1, <1>6 DEF Pages, Failures, Flaws
  <2>3. Fits(p, reader[r], told', reply', stored', faults')
    BY <1>1, <1>2, <1>4, <1>6 DEF Fits, Terminal
  <2>4. QED
    BY <1>1, <1>2, <2>1, <2>2, <2>3, OnePageMoves
<1>7. CASE status_answered(r)
  <2>1. reader[r].op = "status" /\ reader[r].knew # "nothing"
        /\ page[r].at = "asking"
    BY <1>1, <1>2, <1>7 DEF Fits, status_answered
  <2>2. CASE reader[r].at = "raised"
    BY <1>6, <1>7, <2>2 DEF status_answered, Terminal
  <2>3. CASE reader[r].at = "answered"
    <3>1. reader[r].status # "absent"
      BY <1>3, <2>1, <2>3 DEF Agrees
    <3>2. reader[r].status \in Terminal => j \in told
      BY <1>1, <1>4, <2>1, <2>3 DEF Fits
    <3>3. QED
      BY <1>5, <1>7, <2>1, <2>3, <3>1, <3>2 DEF status_answered
  <2>4. QED
    BY <1>2, <2>2, <2>3
<1>8. CASE results_answered(r)
  <2>1. page[r].at = "reading" /\ reader[r].knew = "finished"
    BY <1>1, <1>2, <1>8 DEF Fits, results_answered
  <2>2. stored[j] \in Terminal
    BY <1>3, <1>4, <2>1 DEF ServiceInv, AnswerInv
  <2>3. CASE reader[r].at = "raised"
    <3>1. faults' > 0
      BY <1>1, <2>1, <2>3 DEF Fits
    <3>2. QED
      BY <1>6, <1>8, <2>2, <2>3, <3>1 DEF results_answered, Terminal
  <2>4. CASE reader[r].at = "answered"
    <3>1. reader[r].result \in Terminal /\ status[j] = reader[r].result
      BY <1>3, <1>4, <2>1, <2>4 DEF Agrees
    <3>2. stored[j] = reader[r].result
      BY <1>4, <2>2, <3>1 DEF ServiceInv, CoreInv, ResultIffTerminal, Terminal
    <3>3. QED
      BY <1>6, <1>8, <2>4, <3>1, <3>2 DEF results_answered, Terminal
  <2>5. QED
    BY <1>2, <2>3, <2>4
<1>9. QED
  BY <1>7, <1>8

(* The server answers the request of a page. *)
LEMMA AnsweringStep ==
    ASSUME ServiceInv, PageInv, Grows, NEW r \in Readers,
           poll_result(r), page' = page
    PROVE  /\ page' \in [Readers -> Pages]
           /\ \A i \in Readers :
                 Fits(page[i], reader[i], told, reply, stored, faults)'
<1> DEFINE j == reader[r].job
           q == [at |-> "answered", op |-> reader[r].op, job |-> j,
                 knew |-> reader[r].knew, status |-> reader[r].status,
                 result |-> stored[j]]
<1>1. /\ page \in [Readers -> Pages] /\ page[r] \in Pages
      /\ Fits(page[r], reader[r], told', reply', stored', faults')
      /\ page' = [page EXCEPT ![r] = page[r]]
  BY FitsLater DEF PageInv
<1>2. reader[r].at = "found" /\ j \in Jobs
  BY DEF poll_result, ServiceInv, Shapes
<1>3. reader' = [reader EXCEPT ![r] = q]
  <2>1. reader \in [Readers -> Requests]
        /\ stored[j] \in Terminal \cup {"none"}
    BY <1>2 DEF ServiceInv, TypeOK, poll_result
  <2>2. QED
    BY <2>1, SetReader DEF poll_result
<1>4. reader[r].op = "status" /\ reader[r].status \in Terminal => j \in told'
  BY DEF poll_result
<1>5. Fits(page[r], q, told', reply', stored', faults')
  <2>1. /\ q.at = "answered" /\ q.op = reader[r].op /\ q.job = reader[r].job
        /\ q.knew = reader[r].knew /\ q.status = reader[r].status
    OBVIOUS
  <2> HIDE DEF q
  <2>2. QED
    BY <1>1, <1>2, <1>4, <2>1 DEF Fits
<1>6. QED
  <2> HIDE DEF q
  <2>1. QED
    BY <1>1, <1>3, <1>5, OnePageMoves

(* The server fails to: only an error of the database can cost a client    *)
(* the result of a job that was reported finished, it can be read.         *)
LEMMA RaisingStep ==
    ASSUME ServiceInv, PageInv, Grows, NEW r \in Readers,
           poll_result_raises(r), page' = page
    PROVE  /\ page' \in [Readers -> Pages]
           /\ \A i \in Readers :
                 Fits(page[i], reader[i], told, reply, stored, faults)'
<1> DEFINE j == reader[r].job
           q == [at |-> "raised", op |-> reader[r].op, job |-> j,
                 knew |-> reader[r].knew, status |-> reader[r].status,
                 result |-> reader[r].result]
<1>1. /\ page \in [Readers -> Pages] /\ page[r] \in Pages
      /\ Fits(page[r], reader[r], told', reply', stored', faults')
      /\ page' = [page EXCEPT ![r] = page[r]]
  BY FitsLater DEF PageInv
<1>2. reader[r].at = "found"
  BY DEF poll_result_raises
<1>3. reader' = [reader EXCEPT ![r] = q]
  BY SetReaderRaised DEF ServiceInv, TypeOK, poll_result_raises
<1>4. reader[r].knew = "finished" => faults' > 0
  <2>1. faults + 1 > 0
    BY BoundsAssumption DEF ServiceInv, TypeOK
  <2>2. reader[r].knew = "finished" => stored[j] \in Terminal
    BY DEF ServiceInv, AnswerInv
  <2>3. QED
    BY <2>1, <2>2 DEF poll_result_raises, Fault, Terminal
<1>5. Fits(page[r], q, told', reply', stored', faults')
  <2>1. /\ q.at = "raised" /\ q.op = reader[r].op /\ q.job = reader[r].job
        /\ q.knew = reader[r].knew /\ q.status = reader[r].status
    OBVIOUS
  <2> HIDE DEF q
  <2>2. QED
    BY <1>1, <1>2, <1>4, <2>1 DEF Fits
<1>6. QED
  <2> HIDE DEF q
  <2>1. QED
    BY <1>1, <1>3, <1>5, OnePageMoves

(* The steps of the service that no page is waiting for. *)
LEMMA ServiceSteps ==
    ASSUME ServiceInv, PageInv, Grows, page' = page,
           \/ \E j \in Jobs : upload(j) \/ Handler(j) \/ upload_raises(j)
           \/ \E w \in Workers : Pool(w) \/ store_raises(w)
           \/ Process
           \/ UNCHANGED vars
    PROVE  /\ page' \in [Readers -> Pages]
           /\ \A i \in Readers :
                 Fits(page[i], reader[i], told, reply, stored, faults)'
<1>1. CASE \E j \in Jobs : upload(j) \/ Handler(j) \/ upload_raises(j)
  <2>1. reader' = reader
    BY <1>1 DEF upload, Handler, read_and_validate, write_bytes, create,
                submit, upload_raises
  <2>2. QED
    BY <2>1, NoPageMoves
<1>2. CASE \E w \in Workers : Pool(w) \/ store_raises(w)
  <2>1. reader' = reader
    BY <1>2 DEF Pool, pick, set_status, run_pipeline, save_result,
                store_closed, store_raises, Dropped
  <2>2. QED
    BY <2>1, NoPageMoves
<1>3. CASE Process
  <2>1. reader' = reader \/ reader' = [i \in Readers |-> IdleReader]
    BY <1>3 DEF Process, worker_shutdown, store_close, process_exit, crash,
                restart
  <2>2. QED
    BY <2>1, NoPageMoves
<1>4. CASE UNCHANGED vars
  BY <1>4, NoPageMoves DEF vars
<1>5. QED
  BY <1>1, <1>2, <1>3, <1>4

(* Only uploads that no handler has seen are on their way. *)
LEMMA WireSteps ==
    ASSUME ServiceInv, PageInv, [FrontendNext]_all_vars
    PROVE  wire' \subseteq {j \in Jobs : stage'[j] = 0 /\ reply'[j] = "none"}
<1> DEFINE Unseen(j) == stage[j] = 0 /\ reply[j] = "none"
<1>1. /\ \A j \in wire : j \in Jobs /\ Unseen(j)
      /\ stage \in [Jobs -> 0..Len(upload_order)]
      /\ reply \in [Jobs -> {"none", "accepted", "refused", "error", "lost"}]
  BY DEF PageInv, ServiceInv, TypeOK
<1>2. ASSUME NEW r \in Readers,
             \/ press(r) \/ rerun(r) \/ deadline(r) \/ Script(r)
             \/ Serve(poll_result(r) \/ poll_result_raises(r))
      PROVE  /\ UNCHANGED <<stage, reply>>
             /\ \A j \in wire' : j \in Jobs /\ Unseen(j)
  <2>1. CASE press(r)
    <3>1. PICK j \in Jobs : Fresh(j) /\ wire' \subseteq wire \cup {j}
      BY <2>1 DEF press
    <3>2. QED
      BY <1>1, <2>1, <3>1 DEF press, Fresh, vars, requests
  <2>2. CASE ~press(r)
    <3>1. UNCHANGED <<requests, wire>>
      BY <1>2, <2>2
      DEF rerun, deadline, Script, upload_answered, upload_fails, times_out,
          ask_status, status_answered, status_fails, fetch_results,
          results_answered, results_fail, Serve, page_vars, poll,
          poll_raises, poll_result, poll_result_raises, Request,
          Ingest_unchanged_but_reader, vars
    <3>2. QED
      BY <1>1, <3>1 DEF requests
  <2>3. QED
    BY <2>1, <2>2
<1>3. ASSUME NEW j \in Jobs,
             upload_arrives(j) \/ Serve(Handler(j) \/ upload_raises(j))
      PROVE  \A k \in wire' : /\ k \in Jobs /\ Unseen(k)
                               /\ stage'[k] = stage[k] /\ reply'[k] = reply[k]
  <2>1. \A k \in Jobs \ {j} : stage'[k] = stage[k] /\ reply'[k] = reply[k]
    BY <1>1, <1>3
    DEF upload_arrives, upload, Serve, Handler, read_and_validate, write_bytes,
        create, submit, upload_raises, Advance, Answer
  <2>2. wire' \subseteq wire /\ j \notin wire'
    <3>1. CASE upload_arrives(j)
      BY <3>1 DEF upload_arrives
    <3>2. CASE Serve(Handler(j) \/ upload_raises(j))
      <4>1. stage[j] > 0
        BY <3>2 DEF Serve, Handler, read_and_validate, write_bytes, create,
                    submit, upload_raises, At, InHandler
      <4>2. wire' = wire
        BY <3>2 DEF Serve, page_vars
      <4>3. QED
        BY <1>1, <4>1, <4>2
    <3>3. QED
      BY <1>3, <3>1, <3>2
  <2>3. QED
    BY <1>1, <2>1, <2>2
<1>4. ASSUME NEW w \in Workers, Serve(Pool(w) \/ store_raises(w))
      PROVE  UNCHANGED <<stage, reply, wire>>
  BY <1>4 DEF Serve, page_vars, Pool, pick, set_status, run_pipeline,
              save_result, store_closed, store_raises, Dropped, requests
<1>5. CASE ServiceStops
  BY <1>5 DEF ServiceStops
<1>6. CASE Serve(store_close \/ process_exit \/ restart)
           \/ UNCHANGED all_vars
  <2>1. UNCHANGED <<stage, reply, wire>>
    BY <1>6 DEF Serve, page_vars, store_close, process_exit, restart, all_vars,
                vars, requests
  <2>2. QED
    BY <1>1, <2>1
<1>7. QED
  BY <1>1, <1>2, <1>3, <1>4, <1>5, <1>6 DEF FrontendNext

-----------------------------------------------------------------------------
(* The theorems. *)

(* Service and pages are consistent at any time. *)
THEOREM PagesCorrect == FrontendSpec => [](ServiceInv /\ PageInv)
<1>1. FrontendInit => ServiceInv /\ PageInv
  <2> SUFFICES ASSUME FrontendInit PROVE ServiceInv /\ PageInv
    OBVIOUS
  <2>1. Init
    BY DEF FrontendInit
  <2>2. ServiceInv
    BY <2>1, InitShapes, InitCore, InitAnswers DEF ServiceInv
  <2>3. \A t, rp, st, e : Fits(EmptyPage, IdleReader, t, rp, st, e)
    BY DEF Fits, EmptyPage, IdleReader, Terminal, Flaws
  <2>4. EmptyPage \in Pages
    BY DEF EmptyPage, Pages
  <2>5. PageInv
    BY <2>1, <2>3, <2>4 DEF FrontendInit, Init, PageInv
  <2>6. QED
    BY <2>2, <2>5
<1>2. ServiceInv /\ PageInv /\ [FrontendNext]_all_vars
         => (ServiceInv /\ PageInv)'
  <2> SUFFICES ASSUME ServiceInv, PageInv, [FrontendNext]_all_vars
               PROVE  ServiceInv' /\ PageInv'
    OBVIOUS
  <2>1. ServiceInv' /\ Grows
        /\ wire' \subseteq {j \in Jobs : stage'[j] = 0 /\ reply'[j] = "none"}
    BY StepKeepsService, StepGrows, WireSteps
  <2> DEFINE PagesFit ==
               /\ page \in [Readers -> Pages]
               /\ \A i \in Readers :
                     Fits(page[i], reader[i], told, reply, stored, faults)
  <2>2. ASSUME NEW r \in Readers,
               press(r) \/ rerun(r) \/ deadline(r) \/ Script(r)
        PROVE  PagesFit'
    BY <2>1, <2>2, QuietSteps, AskingSteps, ReadingSteps DEF Script
  <2>3. ASSUME NEW r \in Readers,
               Serve(poll_result(r) \/ poll_result_raises(r))
        PROVE  PagesFit'
    BY <2>1, <2>3, AnsweringStep, RaisingStep DEF Serve, page_vars
  <2>4. ASSUME NEW j \in Jobs,
               upload_arrives(j) \/ Serve(Handler(j) \/ upload_raises(j))
        PROVE  PagesFit'
    BY <2>1, <2>4, ServiceSteps DEF upload_arrives, Serve, page_vars
  <2>5. ASSUME NEW w \in Workers, Serve(Pool(w) \/ store_raises(w))
        PROVE  PagesFit'
    BY <2>1, <2>5, ServiceSteps DEF Serve, page_vars
  <2>6. ASSUME ServiceStops \/ Serve(store_close \/ process_exit \/ restart)
        PROVE  PagesFit'
    <3>1. page' = page /\ Process
      BY <2>6 DEF ServiceStops, Serve, page_vars, Process
    <3>2. QED
      BY <2>1, <3>1, ServiceSteps
  <2>7. ASSUME UNCHANGED all_vars PROVE PagesFit'
    <3>1. page' = page /\ UNCHANGED vars
      BY <2>7 DEF all_vars, page_vars
    <3>2. QED
      BY <2>1, <3>1, ServiceSteps
  <2>8. PagesFit'
    <3> HIDE DEF PagesFit
    <3>1. CASE FrontendNext
      BY <2>2, <2>3, <2>4, <2>5, <2>6, <3>1 DEF FrontendNext
    <3>2. QED
      BY <2>7, <3>1
  <2>9. QED
    BY <2>1, <2>8 DEF PageInv
<1>3. QED
  BY <1>1, <1>2, PTL DEF FrontendSpec

(* A page past its upload holds a job that was accepted. *)
THEOREM PageTypeCorrect == FrontendSpec => []PageTypeOK
BY PagesCorrect, PageInvMeans, PTL

(* An outcome on a page is the stored one of the job the page uploaded, as *)
(* long as it is shown.                                                    *)
THEOREM ShownIsStoredHolds == FrontendSpec => []ShownIsStored
BY PagesCorrect, PageInvMeans, PTL

(* A page takes the status record for the result only of a job that has    *)
(* its result, and after an error of the database; it meets no record      *)
(* without a status (poll_result in streamlit_app.py over api.py).         *)
THEOREM OnlyErrorsCostTheResultHolds ==
    FrontendSpec => []OnlyErrorsCostTheResult
BY PagesCorrect, PageInvMeans, PTL

=============================================================================
