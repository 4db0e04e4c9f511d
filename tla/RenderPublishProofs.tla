------------------------- MODULE RenderPublishProofs -------------------------
(***************************************************************************)
(* Proofs about RenderPublish, for any readers and any number of attempts. *)
(***************************************************************************)
EXTENDS RenderPublish, TLAPS

\* Only an agent that is up has a worker, readers and temporary files.
PhaseInv ==
  phase # "up" => /\ at = "idle"
                  /\ pdfTemp = "none"
                  /\ \A r \in Readers : reader[r].at = "idle"

\* The older directory is there only before the repair, while the job's record still
\* is what the earlier version left.
LegacyInv ==
  /\ phase \in {"recover", "up"} => legacy = None
  /\ legacy # None => job.status = "rendering"
  /\ legacy \in None .. job.attempts

\* A document is whole, no newer than the latest attempt, and in a directory; a job
\* that names one has one, if need be in the older directory.
PreviewInv ==
  /\ preview \in None .. job.attempts
  /\ ~there => preview = None
  /\ job.path => Newest # None
  /\ job.status \in {"printing", "succeeded"} => preview = job.attempts /\ preview # None

\* What a step of the worker has behind it.
WorkerInv ==
  /\ at \notin {"idle", "print"} => job.status = "rendering"
  /\ at = "print" => job.status = "printing"
  /\ at # "idle" => job.attempts >= 1
  /\ at \in {"html", "chrome", "pdf", "preview", "render", "undo", "done"} => there
  /\ at = "preview" => pdfTemp = "whole"
  /\ at \in {"render", "done"} => preview = job.attempts

\* A reader knows a time no later than the document it will open.
ReaderInv ==
  \A r \in Readers :
    /\ reader[r].version # Partial
    /\ reader[r].at = "open" => reader[r].stamp =< preview
    /\ reader[r].at = "answer" => reader[r].stamp =< reader[r].version

Inv == TypeOK /\ PhaseInv /\ LegacyInv /\ PreviewInv /\ WorkerInv /\ ReaderInv
------------------------------------------------------------------------------
LEMMA InitInv == Init => Inv
<1> SUFFICES ASSUME Init PROVE Inv
  OBVIOUS
<1> USE PublishAssumption DEF Init
<1>1. TypeOK
  <2>1. NoReader \in [at : {"idle", "stat", "open", "answer"}, stamp : Document, version : Document]
    BY DEF NoReader, Document
  <2>2. job \in Job /\ there \in BOOLEAN /\ preview \in Document /\ legacy \in Document
    <3>1. CASE job = [status |-> "queued", attempts |-> 0, path |-> FALSE]
      <4>1. job.status = "queued" /\ there = FALSE /\ preview = None /\ legacy = None
        BY <3>1
      <4>2. job \in Job
        BY <3>1 DEF Job
      <4> QED BY <4>1, <4>2 DEF Document
    <3>2. CASE job = [status |-> "rendering", attempts |-> 2, path |-> TRUE] /\ MaxAttempts >= 2
      <4>1. legacy = 1 /\ (preview = None \/ preview = 2) /\ there \in BOOLEAN
        BY <3>2
      <4> QED BY <3>2, <4>1 DEF Job, Document
    <3> QED BY <3>1, <3>2
  <2> QED BY <2>1, <2>2 DEF TypeOK, Points
<1>2. PhaseInv /\ LegacyInv /\ WorkerInv
  BY DEF PhaseInv, LegacyInv, WorkerInv, None, NoReader
<1>3. PreviewInv
  BY DEF PreviewInv, Newest, None
<1>4. ReaderInv
  <2>1. \A r \in Readers : reader[r].at = "idle" /\ reader[r].version = 0
    BY DEF NoReader, None
  <2> HIDE DEF Init
  <2>2. \A r \in Readers : reader[r].version # Partial
    <3>1. 0 # Partial
      BY DEF Partial
    <3> QED BY <2>1, <3>1
  <2> QED BY <2>1, <2>2 DEF ReaderInv
<1> QED BY <1>1, <1>2, <1>3, <1>4 DEF Inv

\* Starting, repairing, recovering and dying.
LEMMA StartInv ==
  ASSUME Inv, Start \/ Repair \/ Recover \/ Crash
  PROVE  Inv'
<1> USE DEF Inv
<1>1. CASE Start
  BY <1>1 DEF Start, published, temps, TypeOK, PhaseInv, LegacyInv, PreviewInv, WorkerInv, ReaderInv, Newest
<1>2. CASE Repair
  <2>0. phase = "repair" /\ phase' = "recover" /\ at = "idle" /\ pdfTemp = "none"
        /\ UNCHANGED <<job, temps, at, reader>>
    BY <1>2 DEF Repair, PhaseInv
  <2>1. TypeOK'
    <3>1. there' \in BOOLEAN /\ preview' \in Document /\ html' \in Document /\ legacy' \in Document
      BY <1>2 DEF Repair, TypeOK, Document
    <3> QED BY <2>0, <3>1 DEF temps, TypeOK
  <2>5. PhaseInv' /\ WorkerInv'
    BY <2>0 DEF temps, PhaseInv, WorkerInv
  <2>2. LegacyInv'
    BY <1>2, <2>1 DEF Repair, LegacyInv, None, TypeOK, Job
  <2>3. PreviewInv'
    <3>1. CASE legacy = None \/ there
      BY <1>2, <3>1 DEF Repair, PreviewInv, Newest, None
    <3>2. CASE ~(legacy = None \/ there)
      BY <1>2, <3>2 DEF Repair, PreviewInv, LegacyInv, Newest, None, TypeOK, Job, Document
    <3> QED BY <3>1, <3>2
  <2>4. ReaderInv'
    BY <1>2 DEF Repair, ReaderInv, PhaseInv
  <2> QED BY <2>1, <2>2, <2>3, <2>4, <2>5
<1>3. CASE Recover
  <2>1. TypeOK'
    BY <1>3 DEF Recover, published, temps, TypeOK, Job
  <2>2. PhaseInv' /\ LegacyInv' /\ ReaderInv'
    BY <1>3 DEF Recover, published, temps, PhaseInv, LegacyInv, ReaderInv
  <2>3. PreviewInv'
    BY <1>3 DEF Recover, published, PreviewInv, Newest, TypeOK, Job
  <2>4. WorkerInv'
    BY <1>3 DEF Recover, published, temps, WorkerInv, PhaseInv
  <2> QED BY <2>1, <2>2, <2>3, <2>4
<1>4. CASE Crash
  <2>1. TypeOK'
    BY <1>4 DEF Crash, published, TypeOK, Points, NoReader, Document
  <2>2. PhaseInv' /\ LegacyInv' /\ PreviewInv' /\ WorkerInv' /\ ReaderInv'
    BY <1>4 DEF Crash, published, PhaseInv, LegacyInv, PreviewInv, WorkerInv, ReaderInv, Newest, NoReader,
                None, Partial
  <2> QED BY <2>1, <2>2
<1> QED BY <1>1, <1>2, <1>3, <1>4

\* The steps that change the job's record.
LEMMA RecordInv ==
  ASSUME Inv, Retry \/ Begin \/ Record \/ PrintPDF
  PROVE  Inv'
<1> USE DEF Inv
<1>1. CASE Retry
  BY <1>1 DEF Retry, published, temps, TypeOK, Job, PhaseInv, LegacyInv, PreviewInv, WorkerInv, ReaderInv, Newest
<1>2. CASE Begin
  <2>1. TypeOK'
    <3>1. job' \in Job
      <4>1. job.attempts + 1 \in 0 .. MaxAttempts
        BY <1>2, PublishAssumption DEF Begin, TypeOK, Job
      <4> QED BY <1>2, <4>1 DEF Begin, TypeOK, Job
    <3> QED BY <1>2, <3>1 DEF Begin, Goto, published, temps, TypeOK, Points
  <2>2. PhaseInv' /\ LegacyInv' /\ ReaderInv'
    BY <1>2, <2>1 DEF Begin, Goto, published, temps, PhaseInv, LegacyInv, ReaderInv, None, TypeOK, Job
  <2>3. PreviewInv' /\ WorkerInv'
    BY <1>2 DEF Begin, Goto, published, temps, PreviewInv, WorkerInv, Newest, TypeOK, Job, None
  <2> QED BY <2>1, <2>2, <2>3
<1>3. CASE Record
  <2>0. phase = "up" /\ legacy = None /\ UNCHANGED <<published, phase, reader>>
    BY <1>3 DEF Record, Goto, PhaseInv, LegacyInv
  <2>1. TypeOK'
    <3>1. job' \in Job
      BY <1>3 DEF Record, TypeOK, Job
    <3> QED BY <1>3, <3>1 DEF Record, Goto, published, TypeOK, Points
  <2>2. PhaseInv' /\ LegacyInv' /\ ReaderInv'
    BY <2>0, <2>1 DEF published, PhaseInv, LegacyInv, ReaderInv, None, TypeOK, Job
  <2>3. PreviewInv' /\ WorkerInv'
    <3>1. CASE Goto("done", "print")
      <4>1. /\ job'.status = "printing" /\ job'.attempts = job.attempts
            /\ at' = "print" /\ there /\ preview = job.attempts /\ job.attempts >= 1
        BY <1>3, <3>1 DEF Record, Goto, WorkerInv, TypeOK, Job
      <4> QED BY <2>0, <4>1 DEF published, PreviewInv, WorkerInv, Newest, None
    <3>2. CASE Goto("error", "idle")
      BY <1>3, <2>0, <3>2 DEF Record, Goto, published, PreviewInv, WorkerInv, Newest, TypeOK, Job, None
    <3> QED BY <1>3, <3>1, <3>2 DEF Record
  <2> QED BY <2>1, <2>2, <2>3
<1>4. CASE PrintPDF
  <2>0. phase = "up" /\ legacy = None /\ UNCHANGED <<published, temps, phase, reader>>
    BY <1>4 DEF PrintPDF, Goto, PhaseInv, LegacyInv
  <2>1. TypeOK'
    BY <1>4 DEF PrintPDF, Goto, published, temps, TypeOK, Job, Points
  <2>2. PhaseInv' /\ LegacyInv' /\ ReaderInv'
    BY <2>0, <2>1 DEF published, PhaseInv, LegacyInv, ReaderInv, None, TypeOK, Job
  <2>3. PreviewInv' /\ WorkerInv'
    BY <1>4, <2>0 DEF PrintPDF, Goto, published, PreviewInv, WorkerInv, Newest, TypeOK, Job
  <2> QED BY <2>1, <2>2, <2>3
<1> QED BY <1>1, <1>2, <1>3, <1>4

\* The steps of a render before and after the renames.
LEMMA StagingInv ==
  ASSUME Inv, OpenDestination \/ WriteHTML \/ Chrome \/ WritePDF \/ PublishHTML \/ Undo
  PROVE  Inv'
<1> USE DEF Inv
<1>0. phase = "up" /\ legacy = None /\ UNCHANGED <<job, preview, legacy, phase, reader>>
  BY DEF OpenDestination, WriteHTML, Chrome, WritePDF, PublishHTML, Undo, Goto, published, temps,
         PhaseInv, LegacyInv
<1>1. TypeOK'
  BY DEF OpenDestination, WriteHTML, Chrome, WritePDF, PublishHTML, Undo, Goto, published, temps,
         TypeOK, Points, Document, Job, WorkerInv
<1>2. PhaseInv' /\ LegacyInv' /\ ReaderInv'
  BY <1>0 DEF PhaseInv, LegacyInv, ReaderInv
<1>3. PreviewInv'
  BY <1>0 DEF OpenDestination, WriteHTML, Chrome, WritePDF, PublishHTML, Undo, published, temps,
              PreviewInv, Newest, None
<1>4. WorkerInv'
  BY <1>0 DEF OpenDestination, WriteHTML, Chrome, WritePDF, PublishHTML, Undo, Goto, published, temps,
              WorkerInv
<1> QED BY <1>1, <1>2, <1>3, <1>4

\* The rename that replaces the preview.
LEMMA PublishInv ==
  ASSUME Inv, PublishPreview
  PROVE  Inv'
<1> USE DEF Inv
<1>0. /\ at = "preview" /\ pdfTemp = "whole" /\ there /\ phase = "up" /\ legacy = None
      /\ job.status = "rendering" /\ job.attempts >= 1 /\ job.attempts \in 1 .. MaxAttempts
      /\ UNCHANGED <<job, there, legacy, phase, reader>>
  BY PublishAssumption DEF PublishPreview, Goto, PhaseInv, LegacyInv, WorkerInv, TypeOK, Job
<1>1. \/ at' = "render" /\ preview' = job.attempts /\ pdfTemp' = "none"
      \/ at' = "undo" /\ UNCHANGED <<preview, pdfTemp>>
  BY <1>0 DEF PublishPreview, Goto
<1>2. TypeOK'
  BY <1>0, <1>1 DEF PublishPreview, TypeOK, Points, Document
<1>3. PhaseInv' /\ LegacyInv'
  BY <1>0 DEF PhaseInv, LegacyInv
<1>4. PreviewInv' /\ WorkerInv'
  BY <1>0, <1>1 DEF PreviewInv, WorkerInv, Newest, None
<1>5. ReaderInv'
  <2>1. preview \in Int /\ preview' \in Int /\ preview <= preview'
    BY <1>0, <1>1 DEF PreviewInv, None
  <2>2. \A r \in Readers : reader[r].stamp \in Int
    BY DEF TypeOK, Document, None, Partial
  <2> QED BY <1>0, <2>1, <2>2 DEF ReaderInv
<1> QED BY <1>2, <1>3, <1>4, <1>5

\* A step of a reader.
LEMMA ReadInv ==
  ASSUME Inv, NEW r \in Readers, Read(r)
  PROVE  Inv'
<1> USE DEF Inv
<1>0. phase = "up" /\ UNCHANGED <<job, published, temps, at, phase>>
  BY DEF Read, AskPreview, StatPreview, OpenPreview, Answer, PhaseInv
<1>1. TypeOK'
  BY <1>0 DEF Read, AskPreview, StatPreview, OpenPreview, Answer, Sees, NoReader, published, temps,
              TypeOK, Document
<1>2. PhaseInv' /\ LegacyInv' /\ PreviewInv' /\ WorkerInv'
  BY <1>0 DEF published, temps, PhaseInv, LegacyInv, PreviewInv, WorkerInv, Newest
<1>3. ReaderInv'
  BY <1>0 DEF Read, AskPreview, StatPreview, OpenPreview, Answer, Sees, NoReader, published,
              TypeOK, ReaderInv, PreviewInv, Document, Job, None, Partial
<1> QED BY <1>1, <1>2, <1>3

LEMMA NextInv == Inv /\ [Next]_vars => Inv'
<1> SUFFICES ASSUME Inv, [Next]_vars PROVE Inv'
  OBVIOUS
<1>1. CASE UNCHANGED vars
  BY <1>1 DEF vars, published, temps, Inv, TypeOK, PhaseInv, LegacyInv, PreviewInv, WorkerInv, ReaderInv, Newest
<1> QED BY <1>1, StartInv, RecordInv, StagingInv, PublishInv, ReadInv DEF Next, Render

LEMMA Invariance == Spec => []Inv
BY InitInv, NextInv, PTL DEF Spec
------------------------------------------------------------------------------
\* Every variable keeps its type.
THEOREM TypeCorrect == Spec => []TypeOK
<1>1. Inv => TypeOK
  BY DEF Inv
<1> QED BY <1>1, Invariance, PTL

\* No failed render, death or repair takes a job's PDF away.
THEOREM PathHasPreview == Spec => []PathNamesPreview
<1>1. Inv => PathNamesPreview
  BY DEF Inv, PathNamesPreview, PreviewInv, LegacyInv, Newest
<1> QED BY <1>1, Invariance, PTL

\* What is printed, and what a success shows, was made by the attempt under way.
THEOREM PreviewOfThisAttempt == Spec => []PreviewIsOfAttempt
<1>1. Inv => PreviewIsOfAttempt
  BY DEF Inv, PreviewIsOfAttempt, PreviewInv
<1> QED BY <1>1, Invariance, PTL

\* However many readers meet the renames, each gets a complete document.
THEOREM WholeIsServed == Spec => []ServedIsWhole
<1>1. Inv => ServedIsWhole
  BY DEF Inv, ServedIsWhole, ReaderInv
<1> QED BY <1>1, Invariance, PTL

\* No reader is told a time later than that of its document.
THEOREM StampIsNotNewer == Spec => []StampNotNewer
<1>1. Inv => StampNotNewer
  BY DEF Inv, StampNotNewer, ReaderInv
<1> QED BY <1>1, Invariance, PTL

\* No step loses the newest published document or puts an older one in its place.
THEOREM NewestIsKept == Spec => NewestStays
<1>1. Inv /\ Inv' /\ [Next]_vars => [Newest =< Newest']_vars
  <2> SUFFICES ASSUME Inv, Inv', [Next]_vars PROVE Newest =< Newest'
    OBVIOUS
  <2>0. Newest \in Int /\ preview \in Int /\ legacy \in Int
    BY DEF Inv, TypeOK, Newest, Document, None, Partial
  <2>1. CASE UNCHANGED <<there, preview, legacy>>
    BY <2>0, <2>1 DEF Newest
  <2>2. CASE Repair
    <3>1. CASE there
      BY <2>0, <2>2, <3>1 DEF Repair, Newest
    <3>2. CASE ~there /\ legacy = None
      BY <2>0, <2>2, <3>2 DEF Repair, Newest, None
    <3>3. CASE ~there /\ legacy # None
      BY <2>0, <2>2, <3>3 DEF Repair, Newest
    <3> QED BY <3>1, <3>2, <3>3
  <2>3. CASE OpenDestination \/ Undo
    <3>1. phase = "up" /\ legacy = None /\ UNCHANGED <<preview, legacy>>
      BY <2>3 DEF OpenDestination, Undo, Goto, Inv, PhaseInv, LegacyInv
    <3>2. ~there => preview = None
      BY DEF Inv, PreviewInv
    <3>3. ~there' => preview' = None
      BY DEF Inv, PreviewInv
    <3> QED BY <2>0, <3>1, <3>2, <3>3 DEF Newest
  <2>4. CASE PublishPreview
    <3>1. there /\ there' /\ preview <= job.attempts /\ pdfTemp = "whole"
      BY <2>4 DEF PublishPreview, Goto, Inv, WorkerInv, PreviewInv, None
    <3> QED BY <2>0, <2>4, <3>1 DEF PublishPreview, Newest, Goto
  <2> QED
    BY <2>1, <2>2, <2>3, <2>4
       DEF Next, vars, published, Start, Recover, Crash, Retry, Begin, Render, WriteHTML, Chrome,
           WritePDF, PublishHTML, Record, PrintPDF, Read, AskPreview, StatPreview, OpenPreview, Answer
<1> QED BY <1>1, Invariance, PTL DEF Spec, NewestStays
==============================================================================
