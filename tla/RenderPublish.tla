---------------------------- MODULE RenderPublish ----------------------------
(***************************************************************************)
(* internal/render/pdf.go and the preview handler of internal/httpapi: how *)
(* the documents of one job come to data/jobs/<id>/, and who reads them.   *)
(*                                                                         *)
(* A render writes the HTML and the PDF to temporary files in the job's    *)
(* directory and renames them to preview.pdf and render.html; an error     *)
(* removes what it made.  Earlier versions of the program swapped whole    *)
(* directories; a start repairs what such a swap left behind.  The process *)
(* can die between any two steps.  Jobs have directories of their own and  *)
(* the single worker renders one at a time, so one job is enough.          *)
(*                                                                         *)
(* A document is the number of the attempt that made it.  The job's record *)
(* is kept in one place here: PrintPipeline has the store.                 *)
(***************************************************************************)
EXTENDS Integers

CONSTANTS
  Readers,      \* handlers of GET .../preview
  MaxAttempts   \* bound: how often the job is started

ASSUME PublishAssumption == MaxAttempts \in Nat \ {0}

VARIABLES
  job,      \* status, number of attempts, and whether pdf_path is set
  there,    \* the job's directory exists
  preview,  \* the document in preview.pdf
  html,     \* the document in render.html
  legacy,   \* the documents in .<id>-previous, if it exists
  pdfTemp,  \* .render-*.pdf of the render under way: "none", "partial" or "whole"
  htmlTemp, \* whether it has its .render-*.html
  created,  \* createdDestination
  at,       \* the next step of the worker
  phase,    \* "off", "repair", "recover" or "up"
  reader    \* what each reader has seen

published == <<there, preview, html, legacy>>
temps == <<pdfTemp, htmlTemp, created>>
vars == <<job, published, temps, at, phase, reader>>

None == 0
Partial == -1   \* a document that is cut off
Document == {Partial, None} \cup 1..MaxAttempts

Job == [status : {"queued", "rendering", "printing", "succeeded", "failed"},
        attempts : 0..MaxAttempts, path : BOOLEAN]

Points == {"idle", "open", "html", "chrome", "pdf", "preview", "render", "undo",
           "done", "error", "print"}

NoReader == [at |-> "idle", stamp |-> None, version |-> None]

TypeOK ==
  /\ job \in Job
  /\ there \in BOOLEAN /\ preview \in Document /\ html \in Document
  /\ legacy \in Document
  /\ pdfTemp \in {"none", "partial", "whole"}
  /\ htmlTemp \in BOOLEAN /\ created \in BOOLEAN
  /\ at \in Points
  /\ phase \in {"off", "repair", "recover", "up"}
  /\ reader \in [Readers -> [at : {"idle", "stat", "open", "answer"},
                             stamp : Document, version : Document]]

\* The job is new, or an earlier version of the program died in its second render
\* while it swapped directories: before or after the new one was in place.
Init ==
  /\ \/ /\ job = [status |-> "queued", attempts |-> 0, path |-> FALSE]
        /\ there = FALSE /\ preview = None /\ legacy = None
     \/ /\ MaxAttempts >= 2
        /\ job = [status |-> "rendering", attempts |-> 2, path |-> TRUE]
        /\ legacy = 1
        /\ \/ there = FALSE /\ preview = None
           \/ there = TRUE /\ preview = 2
  /\ html = preview
  /\ pdfTemp = "none" /\ htmlTemp = FALSE /\ created = FALSE
  /\ at = "idle"
  /\ phase = "off"
  /\ reader = [r \in Readers |-> NoReader]
------------------------------------------------------------------------------
(***************************************************************************)
(* Starting and dying.                                                     *)
(***************************************************************************)
Start ==
  /\ phase = "off"
  /\ phase' = "repair"
  /\ UNCHANGED <<job, published, temps, at, reader>>

\* A plausible slip: the older directory is put back in every case.
BugRepairOver ==
  /\ phase = "repair"
  /\ phase' = "recover"
  /\ legacy' = None
  /\ IF legacy = None THEN UNCHANGED <<there, preview, html>>
     ELSE there' = TRUE /\ preview' = legacy /\ html' = legacy
  /\ UNCHANGED <<job, temps, at, reader>>

\* recoverInterruptedPublishes: without the job's directory the older one is
\* renamed to it, otherwise the older one is removed.  An error ends the start,
\* as Crash does.
Repair ==
  /\ phase = "repair"
  /\ phase' = "recover"
  /\ legacy' = None
  /\ IF legacy = None \/ there THEN UNCHANGED <<there, preview, html>>
     ELSE there' = TRUE /\ preview' = legacy /\ html' = legacy
  /\ UNCHANGED <<job, temps, at, reader>>

\* RecoverInterrupted fails a job that was in progress.
Recover ==
  /\ phase = "recover"
  /\ phase' = "up"
  /\ job' = IF job.status \in {"rendering", "printing"}
            THEN [job EXCEPT !.status = "failed"] ELSE job
  /\ UNCHANGED <<published, temps, at, reader>>

\* The process dies; temporary files it leaves are never looked at again.
Crash ==
  /\ phase # "off"
  /\ phase' = "off"
  /\ at' = "idle"
  /\ pdfTemp' = "none" /\ htmlTemp' = FALSE /\ created' = FALSE
  /\ reader' = [r \in Readers |-> NoReader]
  /\ UNCHANGED <<job, published>>

\* The service puts a failed job back, with the pdf_path it has.
Retry ==
  /\ phase = "up"
  /\ job.status = "failed" /\ at = "idle"
  /\ job' = [job EXCEPT !.status = "queued"]
  /\ UNCHANGED <<published, temps, at, phase, reader>>
------------------------------------------------------------------------------
(***************************************************************************)
(* The worker's render.  Any step can fail, also because the context was   *)
(* cancelled or the directory is not safe any more.                        *)
(***************************************************************************)
Goto(from, to) == at = from /\ at' = to

\* The worker starts the job.
Begin ==
  /\ phase = "up"
  /\ job.status = "queued" /\ job.attempts < MaxAttempts
  /\ Goto("idle", "open")
  /\ job' = [job EXCEPT !.status = "rendering", !.attempts = @ + 1]
  /\ UNCHANGED <<published, temps, phase, reader>>

\* renderLocked: the directory is inspected and made.  A failure this early
\* leaves it, for the clean-up is not set yet.
OpenDestination ==
  /\ \/ Goto("open", "html") /\ there' = TRUE
     \/ Goto("open", "error") /\ there' \in {there, TRUE}
  /\ created' = ~there
  /\ UNCHANGED <<job, preview, html, legacy, pdfTemp, htmlTemp, phase, reader>>

\* The HTML is written; what cannot be completed is removed.
WriteHTML ==
  /\ \/ Goto("html", "chrome") /\ htmlTemp' = TRUE
     \/ Goto("html", "undo") /\ UNCHANGED htmlTemp
  /\ UNCHANGED <<job, published, pdfTemp, created, phase, reader>>

\* Chromium prints it, or fails, or takes too long.
Chrome ==
  /\ Goto("chrome", "pdf") \/ Goto("chrome", "undo")
  /\ UNCHANGED <<job, published, temps, phase, reader>>

\* A plausible slip: an error of the write is not looked at.
BugWritePDF ==
  /\ Goto("pdf", "preview")
  /\ pdfTemp' \in {"partial", "whole"}
  /\ UNCHANGED <<job, published, htmlTemp, created, phase, reader>>

\* The PDF is written, flushed and closed; what cannot be completed is removed.
WritePDF ==
  /\ \/ Goto("pdf", "preview") /\ pdfTemp' = "whole"
     \/ Goto("pdf", "undo") /\ UNCHANGED pdfTemp
  /\ UNCHANGED <<job, published, htmlTemp, created, phase, reader>>

\* A plausible slip: an error of the rename is not looked at.
BugPublishPreview ==
  /\ Goto("preview", "render")
  /\ preview' \in {preview, job.attempts}
  /\ pdfTemp' = "none"
  /\ UNCHANGED <<job, there, html, legacy, htmlTemp, created, phase, reader>>

\* It replaces preview.pdf,
PublishPreview ==
  /\ \/ /\ Goto("preview", "render")
        /\ preview' = IF pdfTemp = "whole" THEN job.attempts ELSE Partial
        /\ pdfTemp' = "none"
     \/ Goto("preview", "undo") /\ UNCHANGED <<preview, pdfTemp>>
  /\ UNCHANGED <<job, there, html, legacy, htmlTemp, created, phase, reader>>

\* and the HTML replaces render.html.
PublishHTML ==
  /\ \/ Goto("render", "done") /\ html' = job.attempts /\ htmlTemp' = FALSE
     \/ Goto("render", "undo") /\ UNCHANGED <<html, htmlTemp>>
  /\ UNCHANGED <<job, there, preview, legacy, pdfTemp, created, phase, reader>>

\* A plausible slip: the directory is removed with what is in it.
BugUndo ==
  /\ Goto("undo", "error")
  /\ pdfTemp' = "none" /\ htmlTemp' = FALSE
  /\ there' = FALSE /\ preview' = None /\ html' = None
  /\ UNCHANGED <<job, legacy, created, phase, reader>>

\* The deferred clean-up removes the temporary files, and the directory if this
\* render made it and it is empty.  A removal can fail.
Undo ==
  /\ Goto("undo", "error")
  /\ pdfTemp' \in {"none", pdfTemp} /\ htmlTemp' \in {FALSE, htmlTemp}
  /\ there' \in {TRUE} \cup
       (IF created /\ preview = None /\ html = None /\ pdfTemp' = "none" /\ ~htmlTemp'
        THEN {FALSE} ELSE {})
  /\ UNCHANGED <<job, preview, html, legacy, created, phase, reader>>

\* The worker records what the render has come to.
Record ==
  /\ \/ /\ Goto("done", "print")
        /\ job' = [job EXCEPT !.status = "printing", !.path = TRUE]
     \/ /\ Goto("error", "idle")
        /\ job' = [job EXCEPT !.status = "failed"]
  /\ pdfTemp' = "none" /\ htmlTemp' = FALSE /\ created' = FALSE
  /\ UNCHANGED <<published, phase, reader>>

\* The printer adapter hands preview.pdf to the spooler, or does not.
PrintPDF ==
  /\ Goto("print", "idle")
  /\ \E outcome \in {"succeeded", "failed"} : job' = [job EXCEPT !.status = outcome]
  /\ UNCHANGED <<published, temps, phase, reader>>
------------------------------------------------------------------------------
(***************************************************************************)
(* The preview handler.                                                    *)
(***************************************************************************)
Sees(r, seen) == reader' = [reader EXCEPT ![r] = seen]

\* The job is read; without a pdf_path there is no preview yet.
AskPreview(r) ==
  /\ phase = "up"
  /\ reader[r].at = "idle"
  /\ job.path
  /\ Sees(r, [NoReader EXCEPT !.at = "stat"])
  /\ UNCHANGED <<job, published, temps, at, phase>>

\* securePreviewPath ends with the time of the file's last modification.
StatPreview(r) ==
  /\ reader[r].at = "stat"
  /\ Sees(r, IF there /\ preview # None THEN [at |-> "open", stamp |-> preview, version |-> None]
             ELSE NoReader)
  /\ UNCHANGED <<job, published, temps, at, phase>>

\* A plausible slip: the time is taken after the file was opened.
BugOpenPreview(r) ==
  /\ reader[r].at = "open"
  /\ Sees(r, [at |-> "answer", stamp |-> preview, version |-> reader[r].stamp])
  /\ UNCHANGED <<job, published, temps, at, phase>>

\* The file is opened; later renames do not change what the handle reads.
OpenPreview(r) ==
  /\ reader[r].at = "open"
  /\ Sees(r, IF there /\ preview # None
             THEN [at |-> "answer", stamp |-> reader[r].stamp, version |-> preview]
             ELSE NoReader)
  /\ UNCHANGED <<job, published, temps, at, phase>>

\* The answer is complete.
Answer(r) ==
  /\ reader[r].at = "answer"
  /\ Sees(r, NoReader)
  /\ UNCHANGED <<job, published, temps, at, phase>>
------------------------------------------------------------------------------
Render == \/ OpenDestination \/ WriteHTML \/ Chrome \/ WritePDF
          \/ PublishPreview \/ PublishHTML \/ Undo

Read(r) == AskPreview(r) \/ StatPreview(r) \/ OpenPreview(r) \/ Answer(r)

Next == \/ Start \/ Repair \/ Recover \/ Crash \/ Retry
        \/ Begin \/ Render \/ Record \/ PrintPDF
        \/ \E r \in Readers : Read(r)

Spec == Init /\ [][Next]_vars
------------------------------------------------------------------------------
\* While the agent is up, a job that names a PDF has one: no failed render, no death
\* and no repair takes it away (pdf.go:311, 429-445).
PathNamesPreview == phase = "up" /\ job.path => there /\ preview # None

\* What is printed, and what a success shows, is the document of this attempt, not
\* one an earlier attempt left (pdf.go:346, worker.go:140-154).
PreviewIsOfAttempt ==
  phase = "up" /\ job.status \in {"printing", "succeeded"} => preview = job.attempts

\* A reader gets a complete document, however it meets the renames (pdf.go:338-349).
ServedIsWhole == \A r \in Readers : reader[r].version # Partial

\* The time a reader is told is never later than its document, so that a cache does
\* not take an old document for the current one (httpapi/jobs.go:141-163).
StampNotNewer ==
  \A r \in Readers : reader[r].at = "answer" => reader[r].stamp =< reader[r].version

\* The newest published document, in whichever directory a start looks for it.
Newest == IF there THEN preview ELSE legacy

\* It is never replaced by an older one or lost.
NewestStays == [][Newest =< Newest']_vars
==============================================================================
