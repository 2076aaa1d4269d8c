------------------------------ MODULE Frontend ------------------------------
(***************************************************************************)
(* streamlit_app.py over the service of Ingest.  A page is a session of    *)
(* the browser: pressing a button runs the script, which uploads the       *)
(* document, polls /status until a deadline, fetches /results and renders  *)
(* it.  Each of the page's requests may be answered late or never.  Any    *)
(* interaction with a widget starts the script anew, whatever it was at.   *)
(* The page r does its polling in the slot reader[r] of Ingest.            *)
(***************************************************************************)
EXTENDS Ingest

VARIABLES
    page,   \* per page: where its script is and what it shows
    wire    \* the uploads that are on their way to the server

page_vars == <<page, wire>>
all_vars == <<vars, page_vars>>

(* What a page ends up showing when it shows no outcome: a message, the    *)
(* bare status record (line 92), or the trace of an exception.             *)
Failures == {"upload_failed", "status_failed", "timed_out", "exception"}
Flaws == {"status_only", "key_error"}

EmptyPage == [at |-> "idle", job |-> NoJob, late |-> FALSE, shown |-> "none"]

FrontendInit ==
    /\ Init
    /\ page = [r \in Readers |-> EmptyPage]
    /\ wire = {}

(* The script of page r ends, and the page shows s. *)
Shows(r, s) == page' = [page EXCEPT ![r].at = "idle", ![r].shown = s]

GoesTo(r, at) == page' = [page EXCEPT ![r].at = at]

(* The page has given up its request; nobody reads the answer. *)
HangsUp(r) == reader' = [reader EXCEPT ![r] = IdleReader]

Ingest_unchanged_but_reader ==
    UNCHANGED <<server, requests, file, store, queue, thread, told, struck,
                counters>>

-----------------------------------------------------------------------------
(* The visitor. *)

Fresh(j) ==
    /\ stage[j] = 0 /\ reply[j] = "none" /\ j \notin wire
    /\ \A r \in Readers : page[r].at # "idle" => page[r].job # j

(* Mutant of press: the page keeps what it showed. *)
press_keeps(r) ==
    /\ page[r].at = "idle"
    /\ \E j \in Jobs : Fresh(j)
    /\ LET j == CHOOSE k \in Jobs : Fresh(k)
       IN /\ page' = [page EXCEPT ![r].at = "uploading", ![r].job = j,
                                  ![r].late = FALSE]
          /\ wire' = IF server = "up" THEN wire \cup {j} ELSE wire
    /\ UNCHANGED vars

(* The button: run_and_render starts with the POST of upload_document,     *)
(* which reaches the server if there is one.                               *)
press(r) ==
    /\ page[r].at = "idle"
    /\ \E j \in Jobs : Fresh(j)
    /\ LET j == CHOOSE k \in Jobs : Fresh(k)
       IN /\ page' = [page EXCEPT ![r] = [EmptyPage EXCEPT !.at = "uploading",
                                                           !.job = j]]
          /\ wire' = IF server = "up" THEN wire \cup {j} ELSE wire
    /\ UNCHANGED vars

(* Another widget: the script is stopped and runs again with no button     *)
(* pressed.  What was shown is gone, and an upload goes its way.           *)
rerun(r) ==
    /\ page[r] # EmptyPage
    /\ page' = [page EXCEPT ![r] = EmptyPage]
    /\ HangsUp(r)
    /\ UNCHANGED wire
    /\ Ingest_unchanged_but_reader

-----------------------------------------------------------------------------
(* upload_document. *)

(* Mutant of upload_answered: nothing raises for the status code. *)
upload_answered_any(r) ==
    /\ page[r].at = "uploading"
    /\ reply[page[r].job] # "none"
    /\ GoesTo(r, "polling")
    /\ UNCHANGED <<vars, wire>>

(* The answer: the job id, or a status that raise_for_status raises on. *)
upload_answered(r) ==
    /\ page[r].at = "uploading"
    /\ LET answer == reply[page[r].job]
       IN \/ answer = "accepted" /\ GoesTo(r, "polling")
          \/ answer \in {"refused", "error"} /\ Shows(r, "upload_failed")
    /\ UNCHANGED <<vars, wire>>

(* No connection, a connection that breaks, or no answer in 30 seconds. *)
upload_fails(r) ==
    /\ page[r].at = "uploading"
    /\ Shows(r, "upload_failed")
    /\ UNCHANGED <<vars, wire>>

-----------------------------------------------------------------------------
(* poll_result. *)

(* The deadline passes; the loop looks at it before each request. *)
deadline(r) ==
    /\ page[r].at \in {"polling", "asking"}
    /\ ~page[r].late
    /\ page' = [page EXCEPT ![r].late = TRUE]
    /\ UNCHANGED <<vars, wire>>

times_out(r) ==
    /\ page[r].at = "polling"
    /\ page[r].late
    /\ Shows(r, "timed_out")
    /\ UNCHANGED <<vars, wire>>

(* Mutant of ask_status: the loop does not look at the deadline. *)
ask_status_forever(r) ==
    /\ page[r].at = "polling"
    /\ poll(r, "status", page[r].job)
    /\ GoesTo(r, "asking")
    /\ UNCHANGED wire

(* GET /status/{job_id}, while the deadline is ahead. *)
ask_status(r) ==
    /\ page[r].at = "polling"
    /\ ~page[r].late
    /\ \/ poll(r, "status", page[r].job)
       \/ poll_raises(r, "status", page[r].job)
    /\ GoesTo(r, "asking")
    /\ UNCHANGED wire

(* The record decides.  That of a 404 has no "status", a KeyError; the     *)
(* body of a 500 is no JSON, which is among the exceptions that are caught. *)
status_answered(r) ==
    /\ page[r].at = "asking"
    /\ \/ reader[r].at = "raised" /\ Shows(r, "status_failed")
       \/ /\ reader[r].at = "answered"
          /\ \/ reader[r].status = "absent" /\ Shows(r, "key_error")
             \/ reader[r].status \in Terminal /\ GoesTo(r, "fetching")
             \/ /\ reader[r].status \in {"queued", "running"}
                /\ GoesTo(r, "polling")
    /\ UNCHANGED <<vars, wire>>

(* The request raises: no connection, or no answer in 10 seconds. *)
status_fails(r) ==
    /\ page[r].at = "asking" \/ (page[r].at = "polling" /\ ~page[r].late)
    /\ Shows(r, "status_failed")
    /\ HangsUp(r)
    /\ UNCHANGED wire
    /\ Ingest_unchanged_but_reader

fetch_results(r) ==
    /\ page[r].at = "fetching"
    /\ \/ poll(r, "results", page[r].job)
       \/ poll_raises(r, "results", page[r].job)
    /\ GoesTo(r, "reading")
    /\ UNCHANGED wire

(* The result of a 200; after a 404, a 409 or a 500 the status record. *)
results_answered(r) ==
    /\ page[r].at = "reading"
    /\ reader[r].at \in {"answered", "raised"}
    /\ Shows(r, IF reader[r].at = "raised" \/ reader[r].result = "none"
                THEN "status_only" ELSE reader[r].result)
    /\ UNCHANGED <<vars, wire>>

(* The request for the result stands outside the try. *)
results_fail(r) ==
    /\ page[r].at \in {"fetching", "reading"}
    /\ Shows(r, "exception")
    /\ HangsUp(r)
    /\ UNCHANGED wire
    /\ Ingest_unchanged_but_reader

(* The steps of a running script. *)
Script(r) ==
    \/ upload_answered(r) \/ upload_fails(r)
    \/ times_out(r) \/ ask_status(r) \/ status_answered(r) \/ status_fails(r)
    \/ fetch_results(r) \/ results_answered(r) \/ results_fail(r)

-----------------------------------------------------------------------------
(* The service: as in Ingest, but uploads come from pages, reads are those *)
(* of the pages, and a server that goes away takes its connections along.  *)

Serve(A) == A /\ UNCHANGED page_vars

upload_arrives(j) ==
    /\ j \in wire
    /\ upload(j)
    /\ wire' = wire \ {j}
    /\ UNCHANGED page

ServiceStops ==
    /\ worker_shutdown \/ crash
    /\ wire' = {}
    /\ UNCHANGED page

FrontendNext ==
    \/ \E r \in Readers :
          press(r) \/ rerun(r) \/ deadline(r) \/ Script(r)
          \/ Serve(poll_result(r) \/ poll_result_raises(r))
    \/ \E j \in Jobs : \/ upload_arrives(j)
                       \/ Serve(Handler(j) \/ upload_raises(j))
    \/ \E w \in Workers : Serve(Pool(w) \/ store_raises(w))
    \/ ServiceStops
    \/ Serve(store_close \/ process_exit \/ restart)

(* The service is as fair as before.  A script runs, every request it      *)
(* makes is answered or times out, and time passes; the visitor is under   *)
(* no obligation.                                                          *)
FrontendFairness ==
    /\ \A j \in Jobs : WF_all_vars(Serve(Handler(j)))
    /\ \A w \in Workers : WF_all_vars(Serve(Pool(w)))
    /\ WF_all_vars(Serve(store_close \/ process_exit \/ restart))
    /\ \A r \in Readers : WF_all_vars(Script(r)) /\ WF_all_vars(deadline(r))

FrontendSpec ==
    FrontendInit /\ [][FrontendNext]_all_vars /\ FrontendFairness

-----------------------------------------------------------------------------
Pages == [at : {"idle", "uploading", "polling", "asking", "fetching",
                "reading"},
          job : Jobs \cup {NoJob}, late : BOOLEAN,
          shown : {"none"} \cup Failures \cup Flaws \cup Terminal]

(* Pages keep their type, only unhandled uploads are on their way, and a   *)
(* page beyond its upload holds a job that was accepted.                   *)
PageTypeOK ==
    /\ page \in [Readers -> Pages]
    /\ wire \subseteq {j \in Jobs : stage[j] = 0 /\ reply[j] = "none"}
    /\ \A r \in Readers :
          page[r].at \notin {"idle", "uploading"} =>
              reply[page[r].job] = "accepted"

(* An outcome on a page is the stored one of the job that page uploaded,   *)
(* and remains so while it is shown, through crashes and restarts.         *)
ShownIsStored ==
    \A r \in Readers :
        page[r].shown \in Terminal =>
            /\ reply[page[r].job] = "accepted"
            /\ stored[page[r].job] = page[r].shown

(* poll_result reads the status from any body, and takes the status record *)
(* for the result on any answer but a 200.  The first never goes wrong: an *)
(* accepted job is known.  The second happens only to a job that has its   *)
(* result, and has it readable: what cost the page its answer was an error *)
(* of the database, never a result that was late, lost or spoilt.          *)
OnlyErrorsCostTheResult ==
    \A r \in Readers :
        /\ page[r].shown # "key_error"
        /\ page[r].shown = "status_only" =>
              stored[page[r].job] \in Terminal /\ faults > 0

(* A script that runs ends, whatever becomes of the job and the service.   *)
PageSettles ==
    \A r \in Readers : page[r].at # "idle" ~> page[r].at = "idle"

=============================================================================
