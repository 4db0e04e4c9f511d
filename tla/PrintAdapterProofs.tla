-------------------------- MODULE PrintAdapterProofs --------------------------
(***************************************************************************)
(* Proofs about PrintAdapter, for any set of printers and either platform. *)
(***************************************************************************)
EXTENDS PrintAdapter, TLAPS

\* What is remembered as seen includes what there is now.
SeenInv ==
  /\ Has(system.printers, call.printer) \in seen.printer
  /\ call.at \notin {"check", "query"} /\ call.at # "returned" =>
       system.file \in seen.file /\ system.tool \in seen.tool

\* The list was true when it was made.
ListInv ==
  /\ call.at \in {"default", "choose", "recheck", "tool", "submit", "run"} =>
       Has(call.listed, call.printer) \in seen.printer
  /\ call.at \in {"recheck", "tool", "submit", "run"} => call.printer \in call.listed

\* How far the call is says what was checked since.
CheckInv ==
  /\ call.at \in {"tool", "submit", "run"} => "there" \in seen.file
  /\ call.at \in {"submit", "run"} /\ platform = "windows" => "there" \in seen.tool

\* The result is there when the call has returned; before the command nothing is taken.
ResultInv ==
  /\ result = "none" <=> call.at # "returned"
  /\ result = "ok" => taken = TRUE
  /\ call.at \notin {"run", "returned"} => taken = FALSE

Inv == TypeOK /\ SeenInv /\ ListInv /\ CheckInv /\ ResultInv /\ NotFoundIsTrue
------------------------------------------------------------------------------
\* The initial states satisfy the invariant.
LEMMA InitInv == Init => Inv
<1> SUFFICES ASSUME Init PROVE Inv
  OBVIOUS
<1>0. PICK p \in Printers : call = NewCall(p) /\ seen = SeenAtCall(p)
  BY DEF Init
<1>1. call \in [at : Points, printer : Printers, listed : SUBSET Printers]
  BY <1>0 DEF NewCall, Points
<1>2. seen \in [printer : SUBSET Presence, file : SUBSET Presence, tool : SUBSET Presence]
  BY <1>0 DEF SeenAtCall, Has, Presence
<1>3. system \in System
  BY DEF Init, System, Presence
<1>4. TypeOK
  BY <1>1, <1>2, <1>3 DEF Init, TypeOK
<1>5. SeenInv /\ ListInv /\ CheckInv /\ ResultInv /\ NotFoundIsTrue
  BY <1>0 DEF Init, NewCall, SeenAtCall, SeenInv, ListInv, CheckInv, ResultInv, NotFoundIsTrue
<1> QED
  BY <1>4, <1>5 DEF Inv

\* The surroundings change at will and what they become is seen.
LEMMA SurroundingsInv ==
  ASSUME Inv, SystemChanges \/ Cancel \/ SpoolerTakes
  PROVE  Inv'
<1>1. CASE SystemChanges
  <2>1. seen' \in [printer : SUBSET Presence, file : SUBSET Presence, tool : SUBSET Presence]
    BY <1>1 DEF SystemChanges, Inv, TypeOK, System, Has, Presence
  <2>2. TypeOK'
    BY <1>1, <2>1 DEF SystemChanges, Inv, TypeOK
  <2>3. SeenInv'
    BY <1>1 DEF SystemChanges, Inv, SeenInv
  <2>4. (ListInv /\ CheckInv /\ ResultInv /\ NotFoundIsTrue)'
    BY <1>1 DEF SystemChanges, Inv, ListInv, CheckInv, ResultInv, NotFoundIsTrue
  <2> QED
    BY <2>2, <2>3, <2>4 DEF Inv
<1>2. CASE Cancel
  BY <1>2 DEF Cancel, Inv, TypeOK, SeenInv, ListInv, CheckInv, ResultInv, NotFoundIsTrue
<1>3. CASE SpoolerTakes
  BY <1>3 DEF SpoolerTakes, Inv, TypeOK, SeenInv, ListInv, CheckInv, ResultInv, NotFoundIsTrue
<1> QED
  BY <1>1, <1>2, <1>3

\* A call begins afresh.
LEMMA BeginInv ==
  ASSUME Inv, BeginPrint
  PROVE  Inv'
<1>0. PICK p \in Printers : call' = NewCall(p) /\ seen' = SeenAtCall(p)
  BY DEF BeginPrint
<1>1. call' \in [at : Points, printer : Printers, listed : SUBSET Printers]
  BY <1>0 DEF NewCall, Points
<1>2. seen' \in [printer : SUBSET Presence, file : SUBSET Presence, tool : SUBSET Presence]
  BY <1>0 DEF SeenAtCall, Has, Presence
<1>3. TypeOK'
  BY <1>1, <1>2 DEF BeginPrint, Inv, TypeOK
<1>4. (SeenInv /\ ListInv /\ CheckInv /\ ResultInv /\ NotFoundIsTrue)'
  BY <1>0 DEF BeginPrint, NewCall, SeenAtCall, SeenInv, ListInv, CheckInv, ResultInv, NotFoundIsTrue
<1> QED
  BY <1>3, <1>4 DEF Inv

\* What a step from one point of the call to the next leaves alone.
LEMMA GotoKeeps ==
  ASSUME Inv, NEW from \in Points, NEW to \in Points, Goto(from, to)
  PROVE  /\ call.at = from /\ call'.at = to
         /\ call'.printer = call.printer /\ call'.listed = call.listed
         /\ call' \in [at : Points, printer : Printers, listed : SUBSET Printers]
         /\ UNCHANGED <<platform, system, cancelled, taken, result, seen>>
BY DEF Goto, Inv, TypeOK, surroundings

\* The end of a call with result r.
LEMMA ReturnInv ==
  ASSUME Inv, NEW r \in {"ok"} \cup Errors, Return(r),
         r = "ok" => taken = TRUE,
         r = "PRINTER_NOT_FOUND" => "gone" \in seen.printer
  PROVE  Inv'
<1>1. /\ call'.at = "returned" /\ call'.printer = call.printer
      /\ call' \in [at : Points, printer : Printers, listed : SUBSET Printers]
      /\ result' = r
      /\ UNCHANGED <<platform, system, cancelled, taken, seen>>
  BY DEF Return, Inv, TypeOK, Points, surroundings
<1>2. TypeOK'
  BY <1>1 DEF Inv, TypeOK
<1>3. (SeenInv /\ ListInv /\ CheckInv /\ ResultInv /\ NotFoundIsTrue)'
  BY <1>1 DEF Inv, SeenInv, ListInv, CheckInv, ResultInv, NotFoundIsTrue, Errors
<1> QED
  BY <1>2, <1>3 DEF Inv

\* The end of a call with the error of a command.
LEMMA FailInv ==
  ASSUME Inv, NEW at, CommandFails(at)
  PROVE  Inv'
<1>1. CommandError \in Errors /\ CommandError \notin {"ok", "PRINTER_NOT_FOUND"}
  BY DEF CommandError, Errors
<1>2. Return(CommandError)
  BY DEF CommandFails
<1> QED
  BY <1>1, <1>2, ReturnInv

\* A printer that is in no list is gone.
LEMMA Missing ==
  ASSUME NEW printers, NEW p, p \notin printers, Has(printers, p) \in seen.printer
  PROVE  "gone" \in seen.printer
BY DEF Has

\* The list has come.
LEMMA ListedInv ==
  ASSUME Inv, NEW next \in {"default", "choose"}, call.at = "query", Listed(next)
  PROVE  Inv'
<1>1. /\ call'.at = next /\ call'.printer = call.printer /\ call'.listed = system.printers
      /\ call' \in [at : Points, printer : Printers, listed : SUBSET Printers]
  BY DEF Listed, Inv, TypeOK, Points, System
<1>2. /\ seen'.printer = seen.printer
      /\ seen'.file = {system.file} /\ seen'.tool = {system.tool}
      /\ seen' \in [printer : SUBSET Presence, file : SUBSET Presence, tool : SUBSET Presence]
  BY DEF Listed, Inv, TypeOK, System
<1>3. UNCHANGED <<platform, system, cancelled, taken, result>>
  BY DEF Listed, surroundings
<1>4. TypeOK'
  BY <1>1, <1>2, <1>3 DEF Inv, TypeOK
<1>5. (SeenInv /\ ListInv /\ CheckInv)'
  BY <1>1, <1>2, <1>3 DEF Inv, SeenInv, ListInv, CheckInv
<1>6. (ResultInv /\ NotFoundIsTrue)'
  BY <1>1, <1>2, <1>3 DEF Inv, ResultInv, NotFoundIsTrue
<1> QED
  BY <1>4, <1>5, <1>6 DEF Inv

\* Every step that the adapter takes or a timeout brings about.
LEMMA AdapterInv ==
  ASSUME Inv, Adapter
  PROVE  Inv'
<1>1. CASE CheckFile
  <2>1. CASE Goto("check", "query")
    BY <2>1, GotoKeeps DEF Inv, TypeOK, SeenInv, ListInv, CheckInv, ResultInv, NotFoundIsTrue, Points
  <2>2. CASE Return("PRINT_COMMAND_FAILED")
    BY <2>2, ReturnInv DEF Errors
  <2> QED
    BY <1>1, <2>1, <2>2 DEF CheckFile
<1>2. CASE QueryPowerShell
  <2>1. CASE call.at = "query" /\ Listed("choose")
    BY <2>1, ListedInv
  <2>2. CASE NothingListed
    <3>1. call.printer \notin system.printers
      BY <2>2 DEF NothingListed
    <3>2. "gone" \in seen.printer
      BY <3>1, Missing DEF Inv, SeenInv
    <3> QED
      BY <2>2, <3>2, ReturnInv DEF NothingListed, Errors
  <2>3. CASE CommandFails("query")
    BY <2>3, FailInv
  <2> QED
    BY <1>2, <2>1, <2>2, <2>3 DEF QueryPowerShell
<1>3. CASE QueryDestinations
  <2>1. CASE call.at = "query" /\ Listed("default")
    BY <2>1, ListedInv
  <2>2. CASE NothingListed
    <3>1. call.printer \notin system.printers
      BY <2>2 DEF NothingListed
    <3>2. "gone" \in seen.printer
      BY <3>1, Missing DEF Inv, SeenInv
    <3> QED
      BY <2>2, <3>2, ReturnInv DEF NothingListed, Errors
  <2>3. CASE CommandFails("query")
    BY <2>3, FailInv
  <2> QED
    BY <1>3, <2>1, <2>2, <2>3 DEF QueryDestinations
<1>4. CASE QueryDefault
  <2>1. CASE Goto("default", "choose")
    BY <2>1, GotoKeeps DEF Inv, TypeOK, SeenInv, ListInv, CheckInv, ResultInv, NotFoundIsTrue, Points
  <2>2. CASE CommandFails("default")
    BY <2>2, FailInv
  <2> QED
    BY <1>4, <2>1, <2>2 DEF QueryDefault
<1>5. CASE Choose
  <2>1. CASE call.printer \in call.listed /\ Goto("choose", "recheck")
    BY <2>1, GotoKeeps DEF Inv, TypeOK, SeenInv, ListInv, CheckInv, ResultInv, NotFoundIsTrue, Points
  <2>2. CASE call.at = "choose" /\ call.printer \notin call.listed /\ Return("PRINTER_NOT_FOUND")
    <3>1. "gone" \in seen.printer
      BY <2>2, Missing DEF Inv, ListInv
    <3> QED
      BY <2>2, <3>1, ReturnInv DEF Errors
  <2> QED
    BY <1>5, <2>1, <2>2 DEF Choose
<1>6. CASE RecheckFile
  <2>1. CASE system.file = "there"
             /\ Goto("recheck", IF platform = "windows" THEN "tool" ELSE "submit")
    <3> DEFINE next == IF platform = "windows" THEN "tool" ELSE "submit"
    <3>1. "there" \in seen.file
      BY <2>1 DEF Goto, Inv, SeenInv
    <3>2. next \in Points /\ "recheck" \in Points
      BY DEF Points
    <3>3. /\ call.at = "recheck" /\ call'.at = next
          /\ call'.printer = call.printer /\ call'.listed = call.listed
          /\ call' \in [at : Points, printer : Printers, listed : SUBSET Printers]
          /\ UNCHANGED <<platform, system, cancelled, taken, result, seen>>
      BY <2>1, <3>2, GotoKeeps
    <3> QED
      BY <3>1, <3>3 DEF Inv, TypeOK, SeenInv, ListInv, CheckInv, ResultInv, NotFoundIsTrue
  <2>2. CASE Return("PRINT_COMMAND_FAILED")
    BY <2>2, ReturnInv DEF Errors
  <2> QED
    BY <1>6, <2>1, <2>2 DEF RecheckFile
<1>7. CASE CheckTool
  <2>1. CASE system.tool = "there" /\ Goto("tool", "submit")
    BY <2>1, GotoKeeps DEF Inv, TypeOK, SeenInv, ListInv, CheckInv, ResultInv, NotFoundIsTrue, Points
  <2>2. CASE Return("PRINT_COMMAND_FAILED")
    BY <2>2, ReturnInv DEF Errors
  <2> QED
    BY <1>7, <2>1, <2>2 DEF CheckTool
<1>8. CASE Submit
  <2>1. CASE Goto("submit", "run")
    BY <2>1, GotoKeeps DEF Inv, TypeOK, SeenInv, ListInv, CheckInv, ResultInv, NotFoundIsTrue, Points
  <2>2. CASE CommandFails("submit")
    BY <2>2, FailInv
  <2> QED
    BY <1>8, <2>1, <2>2 DEF Submit
<1>9. CASE CommandEndsBadly
  BY <1>9, FailInv DEF CommandEndsBadly
<1> QED
  BY <1>1, <1>2, <1>3, <1>4, <1>5, <1>6, <1>7, <1>8, <1>9 DEF Adapter

\* The invariant is inductive.
LEMMA NextInv == Inv /\ [Next]_vars => Inv'
<1> SUFFICES ASSUME Inv, [Next]_vars PROVE Inv'
  OBVIOUS
<1>1. CASE CommandSucceeds
  BY <1>1, ReturnInv DEF CommandSucceeds
<1>2. CASE UNCHANGED vars
  BY <1>2 DEF vars, Inv, TypeOK, SeenInv, ListInv, CheckInv, ResultInv, NotFoundIsTrue
<1> QED
  BY <1>1, <1>2, BeginInv, AdapterInv, SurroundingsInv DEF Next

LEMMA Invariance == Spec => []Inv
BY InitInv, NextInv, PTL DEF Spec
------------------------------------------------------------------------------
\* Every variable of a call of Print and of its surroundings keeps its type.
THEOREM TypeCorrect == Spec => []TypeOK
<1>1. Inv => TypeOK
  BY DEF Inv
<1> QED
  BY <1>1, Invariance, PTL

\* No print command is run for a printer that was not there during the call.
THEOREM CommandHasPrinter == Spec => []ToPresentPrinter
<1>1. Inv => ToPresentPrinter
  BY DEF Inv, ListInv, Has, ToPresentPrinter
<1> QED
  BY <1>1, Invariance, PTL

\* No print command is run with a file, or on Windows by a program, that was not
\* in order at any time since the printers were listed.
THEOREM CommandHasFreshChecks == Spec => []ChecksAreFresh
<1>1. Inv => ChecksAreFresh
  BY DEF Inv, CheckInv, ChecksAreFresh
<1> QED
  BY <1>1, Invariance, PTL

\* A printer that is reported missing was missing during the call.
THEOREM MissingPrinterIsTrue == Spec => []NotFoundIsTrue
<1>1. Inv => NotFoundIsTrue
  BY DEF Inv
<1> QED
  BY <1>1, Invariance, PTL
------------------------------------------------------------------------------
\* The result as the promise has it.
Outcome == IF result \in {"none", "ok"} THEN result ELSE "failed"

\* A step that ends the call is a Return of the promise.
LEMMA ReturnPromised ==
  ASSUME Inv, call.at # "returned", NEW r \in {"ok"} \cup Errors, Return(r),
         r = "ok" => taken = TRUE
  PROVE  Promise!Return
<1>1. result = "none" /\ result' = r /\ taken' = taken
  BY DEF Return, Inv, ResultInv
<1>2. CASE r = "ok"
  BY <1>1, <1>2 DEF Promise!Return
<1>3. CASE r # "ok"
  <2>1. r \notin {"none", "ok"}
    BY <1>3 DEF Errors
  <2> QED
    BY <1>1, <2>1 DEF Promise!Return
<1> QED
  BY <1>2, <1>3

\* A step of the adapter ends the call or is none of the promise.
LEMMA AdapterPromised ==
  ASSUME Inv, Adapter
  PROVE  Promise!Return \/ UNCHANGED <<taken, result>>
<1>1. CASE \E at \in Points : call.at = at /\ at # "returned" /\ CommandFails(at)
  <2>1. CommandError \in Errors /\ CommandError # "ok"
    BY DEF CommandError, Errors
  <2> QED
    BY <1>1, <2>1, ReturnPromised DEF CommandFails
<1>2. CASE call.at # "returned" /\ Return("PRINT_COMMAND_FAILED")
  BY <1>2, ReturnPromised DEF Errors
<1>3. CASE call.at # "returned" /\ Return("PRINTER_NOT_FOUND")
  BY <1>3, ReturnPromised DEF Errors
<1>4. CASE UNCHANGED <<taken, result>>
  BY <1>4
<1> QED
  BY <1>1, <1>2, <1>3, <1>4
  DEF Adapter, CheckFile, QueryPowerShell, QueryDestinations, QueryDefault, Choose,
      RecheckFile, CheckTool, Submit, CommandEndsBadly, NothingListed, Listed, Goto,
      CommandFails, Points

\* Every step of Print is a step of the promise or none: one hand-over per call at
\* most, and a success only with it.
LEMMA NextPromised == Inv /\ [Next]_vars => [Promise!Next]_<<taken, Outcome>>
<1> SUFFICES ASSUME Inv, [Next]_vars PROVE [Promise!Next]_<<taken, Outcome>>
  OBVIOUS
<1>1. CASE BeginPrint
  <2>1. Outcome # "none"
    BY <1>1 DEF BeginPrint, Inv, ResultInv, Outcome
  <2> QED
    BY <1>1, <2>1 DEF BeginPrint, Promise!Next, Promise!Call, Outcome
<1>2. CASE Adapter
  BY <1>2, AdapterPromised DEF Promise!Next, Outcome
<1>3. CASE CommandSucceeds
  BY <1>3, ReturnPromised DEF CommandSucceeds, Promise!Next
<1>4. CASE SpoolerTakes
  BY <1>4 DEF SpoolerTakes, Inv, ResultInv, Promise!Next, Promise!Take, Outcome
<1>5. CASE SystemChanges \/ Cancel \/ UNCHANGED vars
  BY <1>5 DEF SystemChanges, Cancel, vars, Outcome
<1> QED
  BY <1>1, <1>2, <1>3, <1>4, <1>5 DEF Next

\* PrintAdapter implements PrintPromise.
THEOREM PromiseKept == Spec => ImplementsPromise
<1>1. Init => Promise!Init
  BY DEF Init, Promise!Init
<1>2. Inv /\ [Next]_vars => [Promise!Next]_<<taken, IF result \in {"none", "ok"} THEN result ELSE "failed">>
  BY NextPromised DEF Outcome
<1> QED
  BY <1>1, <1>2, Invariance, PTL DEF Spec, ImplementsPromise, Promise!Spec
==============================================================================
