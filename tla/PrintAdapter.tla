---------------------------- MODULE PrintAdapter ----------------------------
(***************************************************************************)
(* Print of internal/printer: linux.go hands a PDF to CUPS with lp,        *)
(* windows.go to SumatraPDF.  Both check the file, ask the system for its  *)
(* printers, check the file again and run the command; Windows also checks *)
(* that the program is the one the adapter was made with.  Between these   *)
(* steps the system goes on changing, the context may be cancelled, and a  *)
(* command may hang until it is killed.                                    *)
(*                                                                         *)
(* The adapter keeps no state between calls and the single worker makes    *)
(* one at a time, so one call after the other is enough.                   *)
(***************************************************************************)
CONSTANTS Printers

VARIABLES
  platform,   \* "linux" or "windows"
  system,     \* what is there: its printers, the PDF, the program
  cancelled,  \* the context of the call is cancelled
  call,       \* how far the call is, its printer and the list it got
  taken,      \* the spooler took the document of this call
  result,     \* "none" while Print runs, then "ok" or the code of its error
  seen        \* what has held during this call; of file and tool: since the list

vars == <<platform, system, cancelled, call, taken, result, seen>>

Errors == {"PRINT_COMMAND_FAILED", "PRINTER_NOT_FOUND", "CONTEXT_CANCELED"}
Points == {"check", "query", "default", "choose", "recheck", "tool", "submit", "run",
           "returned"}

Presence == {"there", "gone"}

\* printers: the queues of the system; file: the preview is a regular file at its
\* place, reached without links; tool: SumatraPDF is the file it was at the start.
System == [printers : SUBSET Printers, file : Presence, tool : Presence]

\* Whether p is one of these printers.
Has(printers, p) == IF p \in printers THEN "there" ELSE "gone"

TypeOK ==
  /\ platform \in {"linux", "windows"}
  /\ system \in System
  /\ cancelled \in BOOLEAN /\ taken \in BOOLEAN
  /\ call \in [at : Points, printer : Printers, listed : SUBSET Printers]
  /\ result \in {"none", "ok"} \cup Errors
  /\ seen \in [printer : SUBSET Presence, file : SUBSET Presence, tool : SUBSET Presence]

NewCall(p) == [at |-> "check", printer |-> p, listed |-> {}]

SeenAtCall(p) == [printer |-> {Has(system.printers, p)}, file |-> {}, tool |-> {}]

Init ==
  /\ platform \in {"linux", "windows"}
  /\ system \in [printers : SUBSET Printers, file : Presence, tool : {"there"}]
  /\ cancelled = FALSE /\ taken = FALSE /\ result = "none"
  /\ \E p \in Printers : call = NewCall(p) /\ seen = SeenAtCall(p)
------------------------------------------------------------------------------
(***************************************************************************)
(* The surroundings: printers, files and programs come and go.             *)
(***************************************************************************)
SystemChanges ==
  /\ system' \in System /\ system' # system
  /\ seen' = [printer |-> seen.printer \cup {Has(system'.printers, call.printer)},
              file |-> seen.file \cup {system'.file},
              tool |-> seen.tool \cup {system'.tool}]
  /\ UNCHANGED <<platform, cancelled, call, taken, result>>

Cancel ==
  /\ ~cancelled /\ call.at # "returned"
  /\ cancelled' = TRUE
  /\ UNCHANGED <<platform, system, call, taken, result, seen>>

\* The spooler takes a document for a queue it has.
SpoolerTakes ==
  /\ call.at = "run" /\ ~taken
  /\ call.printer \in system.printers
  /\ taken' = TRUE
  /\ UNCHANGED <<platform, system, cancelled, call, result, seen>>
------------------------------------------------------------------------------
(***************************************************************************)
(* The call.                                                               *)
(***************************************************************************)
surroundings == <<platform, system, cancelled>>

\* The worker calls Print for its next job.
BeginPrint ==
  /\ call.at = "returned"
  /\ \E p \in Printers : call' = NewCall(p) /\ seen' = SeenAtCall(p)
  /\ cancelled' = FALSE /\ taken' = FALSE /\ result' = "none"
  /\ UNCHANGED <<platform, system>>

Goto(from, to) == /\ call.at = from /\ call' = [call EXCEPT !.at = to]
                  /\ UNCHANGED <<surroundings, taken, result, seen>>

Return(r) == /\ call' = [call EXCEPT !.at = "returned"]
             /\ result' = r
             /\ UNCHANGED <<surroundings, taken, seen>>

\* commandError: a cancelled context comes before what the command said.
CommandError == IF cancelled THEN "CONTEXT_CANCELED" ELSE "PRINT_COMMAND_FAILED"

CommandFails(at) == call.at = at /\ Return(CommandError)

\* The PDF is the preview of a job, a regular file below directories, no links.
CheckFile ==
  \/ system.file = "there" /\ Goto("check", "query")
  \/ call.at = "check" /\ system.file = "gone" /\ Return("PRINT_COMMAND_FAILED")

\* The command lists the printers of the system.
Listed(next) ==
  /\ system.printers # {}
  /\ call' = [call EXCEPT !.at = next, !.listed = system.printers]
  /\ seen' = [seen EXCEPT !.file = {system.file}, !.tool = {system.tool}]
  /\ UNCHANGED <<surroundings, taken, result>>

\* The command says that there are none.
NothingListed == system.printers = {} /\ Return("PRINTER_NOT_FOUND")

\* A plausible slip: a failed enumeration reads as an empty one.
BugQueryPowerShell ==
  /\ platform = "windows"
  /\ \/ /\ call.at = "query" /\ ~cancelled
        /\ Listed("choose") \/ Return("PRINTER_NOT_FOUND")
     \/ cancelled /\ CommandFails("query")

\* List on Windows: one query of Win32_Printer through PowerShell.
QueryPowerShell ==
  /\ platform = "windows"
  /\ \/ call.at = "query" /\ ~cancelled /\ (Listed("choose") \/ NothingListed)
     \/ CommandFails("query")

\* List on Linux: lpstat -p,
QueryDestinations ==
  /\ platform = "linux"
  /\ \/ call.at = "query" /\ ~cancelled /\ (Listed("default") \/ NothingListed)
     \/ CommandFails("query")

\* and lpstat -d; to have no default is fine.
QueryDefault ==
  \/ ~cancelled /\ Goto("default", "choose")
  \/ CommandFails("default")

\* A plausible slip: the printer is not looked up.
BugChoose == Goto("choose", "recheck")

\* The printer must be one of the list.
Choose ==
  \/ call.printer \in call.listed /\ Goto("choose", "recheck")
  \/ /\ call.at = "choose" /\ call.printer \notin call.listed
     /\ Return("PRINTER_NOT_FOUND")

\* A plausible slip: the file is not looked at again.
BugRecheckFile == Goto("recheck", IF platform = "windows" THEN "tool" ELSE "submit")

\* The file is checked again, for the list took its time.
RecheckFile ==
  \/ system.file = "there" /\ Goto("recheck", IF platform = "windows" THEN "tool" ELSE "submit")
  \/ call.at = "recheck" /\ system.file = "gone" /\ Return("PRINT_COMMAND_FAILED")

\* SumatraPDF is still the file the adapter was made with.
CheckTool ==
  \/ system.tool = "there" /\ Goto("tool", "submit")
  \/ call.at = "tool" /\ system.tool = "gone" /\ Return("PRINT_COMMAND_FAILED")

\* runWithTimeout starts no command for a cancelled context.
Submit ==
  \/ ~cancelled /\ Goto("submit", "run")
  \/ cancelled /\ CommandFails("submit")

\* The command reports that the spooler has taken the document.
CommandSucceeds == call.at = "run" /\ taken /\ Return("ok")

\* A plausible slip: a killed command is taken for one that is done.
BugCommandEndsBadly == call.at = "run" /\ Return(IF cancelled THEN CommandError ELSE "ok")
\* Another: with no timeout only a cancelled context kills it.
BugNoTimeout == cancelled /\ CommandFails("run")

\* It reports an error, or is killed: at its timeout, or with the context.
CommandEndsBadly == CommandFails("run")
------------------------------------------------------------------------------
\* The steps that the adapter takes, or that its timeouts bring about.
Adapter == \/ CheckFile \/ QueryPowerShell \/ QueryDestinations \/ QueryDefault
           \/ Choose \/ RecheckFile \/ CheckTool \/ Submit \/ CommandEndsBadly

Next == BeginPrint \/ Adapter \/ CommandSucceeds \/ SpoolerTakes \/ SystemChanges \/ Cancel

Spec == Init /\ [][Next]_vars

\* Every command is killed after thirty seconds, so each step comes to its end.
LiveSpec == Spec /\ WF_vars(Adapter)
------------------------------------------------------------------------------
\* The command is run for a printer that the system had during this call
\* (linux.go:120-129, windows.go:117-126).
ToPresentPrinter == call.at = "run" => "there" \in seen.printer

\* And with a file, and on Windows a program, that was right after the list had
\* come: what was lost or replaced while it was made stops the call
\* (linux.go:130-133, windows.go:127-138).
ChecksAreFresh ==
  call.at = "run" => /\ "there" \in seen.file
                     /\ platform = "windows" => "there" \in seen.tool

\* A missing printer is reported only if it was missing; an enumeration that failed, or
\* a check, is another error.  What lpstat prints for want of printers is assumed to be
\* the phrase that linux.go looks for, and nothing else to hold it (linux.go:79-87).
NotFoundIsTrue == result = "PRINTER_NOT_FOUND" => "gone" \in seen.printer

Promise == INSTANCE PrintPromise WITH
  result <- IF result \in {"none", "ok"} THEN result ELSE "failed"

\* The spooler takes at most one document per call, and success means that it did.
ImplementsPromise == Promise!Spec

\* A call of Print returns, also when the command hangs (linux.go:148).
PrintReturns == call.at # "returned" ~> call.at = "returned"
==============================================================================
