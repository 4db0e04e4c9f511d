--------------------------- MODULE WebConsoleProofs --------------------------
(***************************************************************************)
(* Theorems about WebConsole, for any number of calls that overlap: what   *)
(* the page says of a creation or a retry is true, and an operator's error *)
(* stays.                                                                  *)
(***************************************************************************)
EXTENDS WebConsole, TLAPS

JobStates == [Ids -> {"absent", "waiting", "failed", "done"}]

Calling ==
  [phase : {"idle", "printers", "list", "get", "post"}, answer : {"none", "ok", "empty", "failed"},
   list : JobStates, job : Ids, did : {"nothing", "accepted", "refused", "lost"}]

TypeOK ==
  /\ jobs \in JobStates
  /\ call \in [Slots -> Calling]

\* How far a creation or a retry has come says what the agent made of it.
TellOK(c) ==
  /\ c.phase \in {"idle", "post", "list"}
  /\ c.phase = "idle" => c.answer = "none"
  /\ c.phase = "post" /\ c.answer = "ok" => c.did = "accepted"
  /\ c.phase = "post" /\ c.answer = "failed" => c.did \in {"refused", "lost"}
  /\ c.phase = "list" => c.did = "accepted"

TellInv == \A s \in Forms \cup Retriers : TellOK(call[s])

\* The printers are asked for while the page is opened, once.
OpeningInv == call[Opening].phase = "printers" => page = "opening"

\* Details are asked for by their own buttons only.
DetailInv == \A s \in Refreshes : call[s].phase # "get"

Inv == TypeOK /\ TellInv
------------------------------------------------------------------------------
\* A step of one call.
LEMMA OneCall ==
  ASSUME Inv, NEW s \in Slots, NEW c \in Calling, call' = [call EXCEPT ![s] = c],
         jobs' \in JobStates, s \in Forms \cup Retriers => TellOK(c)
  PROVE  Inv'
<1>1. \A t \in Slots : call'[t] = IF t = s THEN c ELSE call[t]
  BY DEF Inv, TypeOK
<1>2. \A t \in Forms \cup Retriers : TellOK(call'[t])
  BY <1>1 DEF Inv, TellInv, Slots
<1>3. TypeOK'
  BY DEF Inv, TypeOK
<1> QED BY <1>2, <1>3 DEF Inv, TellInv

LEMMA NoJobsType == NoJobs \in JobStates
BY DEF NoJobs, JobStates

\* The requests that a call makes, and its end.
LEMMA AsksStep ==
  ASSUME Inv, NEW s \in Slots, NEW phase \in {"printers", "list", "post", "get"},
         Asks(s, phase), UNCHANGED jobs,
         s \in Forms \cup Retriers =>
           phase = "list" /\ call[s].phase = "post" /\ call[s].answer = "ok"
  PROVE  Inv'
<1> DEFINE c == [call[s] EXCEPT !.phase = phase, !.answer = "none", !.list = NoJobs]
<1>1. call[s] \in Calling /\ jobs \in JobStates
  BY DEF Inv, TypeOK
<1>2. call' = [call EXCEPT ![s] = c]
  BY DEF Asks, Inv, TypeOK
<1>3. c \in Calling
  BY <1>1, NoJobsType DEF Calling
<1>4. s \in Forms \cup Retriers => TellOK(c)
  BY <1>1 DEF Inv, TellInv, TellOK, Calling
<1> HIDE DEF c
<1> QED BY <1>1, <1>2, <1>3, <1>4, OneCall

LEMMA EndsStep ==
  ASSUME Inv, NEW s \in Slots, NEW replaced, Ends(s, replaced), UNCHANGED jobs
  PROVE  Inv' /\ call'[s].phase = "idle"
<1> DEFINE c == [call[s] EXCEPT !.phase = "idle", !.answer = "none", !.list = NoJobs, !.did = "nothing"]
<1>1. call[s] \in Calling /\ jobs \in JobStates
  BY DEF Inv, TypeOK
<1>2. call' = [call EXCEPT ![s] = c]
  BY DEF Ends, Inv, TypeOK
<1>3. c \in Calling /\ c.phase = "idle"
  BY <1>1, NoJobsType DEF Calling
<1>4. TellOK(c)
  BY <1>1 DEF TellOK, Calling
<1>5. call'[s] = c
  BY <1>2 DEF Inv, TypeOK
<1> HIDE DEF c
<1> QED BY <1>1, <1>2, <1>3, <1>4, <1>5, OneCall

\* The clicks.
LEMMA ClickStep == ASSUME Inv, Click PROVE Inv'
<1> USE DEF Inv, TypeOK
<1>1. UNCHANGED jobs /\ jobs' \in JobStates
  BY DEF Click, ClickRefresh, Submit, ClickRetry, ClickDetail, agent
<1>2. ASSUME NEW s \in Refreshes, ClickRefresh(s) PROVE Inv'
  <2>1. s \in Slots /\ s \notin Forms \cup Retriers
    BY ConsoleAssumption DEF Slots
  <2> QED BY <1>1, <1>2, <2>1, AsksStep DEF ClickRefresh
<1>3. ASSUME NEW s \in Forms, Submit(s) PROVE Inv'
  <2> DEFINE c == [call[s] EXCEPT !.phase = "post"]
  <2>1. s \in Slots /\ call[s] \in Calling
    BY DEF Slots
  <2>2. CASE UNCHANGED call
    BY <1>1, <2>2 DEF TellInv
  <2>3. CASE call' = [call EXCEPT ![s] = c]
    <3>1. c \in Calling
      BY <2>1 DEF Calling
    <3>2. TellOK(c)
      BY <1>3, <2>1 DEF Submit, TellInv, TellOK, Calling
    <3> HIDE DEF c
    <3> QED BY <1>1, <2>1, <2>3, <3>1, <3>2, OneCall
  <2> QED BY <1>3, <2>2, <2>3 DEF Submit
<1>4. ASSUME NEW s \in Retriers, NEW i \in Ids, ClickRetry(s, i) PROVE Inv'
  <2> DEFINE c == [call[s] EXCEPT !.phase = "post", !.job = i]
  <2>1. s \in Slots /\ call[s] \in Calling /\ call[s].phase = "idle"
    BY <1>4 DEF Slots, ClickRetry, RowButton
  <2>2. call' = [call EXCEPT ![s] = c]
    BY <1>4 DEF ClickRetry
  <2>3. c \in Calling
    BY <2>1 DEF Calling
  <2>4. TellOK(c)
    BY <2>1 DEF TellInv, TellOK, Calling
  <2> HIDE DEF c
  <2> QED BY <1>1, <2>1, <2>2, <2>3, <2>4, OneCall
<1>5. ASSUME NEW s \in Inspectors, NEW i \in Ids, ClickDetail(s, i) PROVE Inv'
  <2> DEFINE c == [call[s] EXCEPT !.phase = "get", !.job = i]
  <2>1. s \in Slots /\ call[s] \in Calling /\ s \notin Forms \cup Retriers
    BY ConsoleAssumption DEF Slots
  <2>2. call' = [call EXCEPT ![s] = c]
    BY <1>5 DEF ClickDetail
  <2>3. c \in Calling
    BY <2>1 DEF Calling
  <2> HIDE DEF c
  <2> QED BY <1>1, <2>1, <2>2, <2>3, OneCall
<1> QED BY <1>2, <1>3, <1>4, <1>5 DEF Click

\* What the agent makes of a request.
LEMMA ServeStep == ASSUME Inv, NEW s \in Slots, Serve(s) \/ Lose(s) PROVE Inv'
<1> USE DEF Inv, TypeOK
<1>1. call[s] \in Calling /\ call[s].phase # "idle" /\ (s \in Forms \cup Retriers => TellOK(call[s]))
  BY DEF Serve, Lose, InFlight, TellInv
<1>2. jobs' \in JobStates
  BY DEF Serve, ServePost, ServeGet, Lose, agent, JobStates
<1>3. ASSUME NEW answer \in {"ok", "failed"}, NEW did \in {"accepted", "refused"},
             answer = "ok" => did = "accepted", answer = "failed" => did = "refused",
             call[s].phase = "post", Answers(s, answer, did)
      PROVE  Inv'
  <2> DEFINE c == [call[s] EXCEPT !.answer = answer, !.did = did]
  <2>1. call' = [call EXCEPT ![s] = c]
    BY <1>3 DEF Answers
  <2>2. c \in Calling
    BY <1>1 DEF Calling
  <2>3. TellOK(c)
    BY <1>1, <1>3 DEF TellOK, Calling
  <2> HIDE DEF c
  <2> QED BY <1>2, <2>1, <2>2, <2>3, OneCall
<1>4. ASSUME call[s].phase = "list", call' = [call EXCEPT ![s].answer = "ok", ![s].list = jobs]
      PROVE  Inv'
  <2> DEFINE c == [call[s] EXCEPT !.answer = "ok", !.list = jobs]
  <2>1. call' = [call EXCEPT ![s] = c]
    BY <1>4
  <2>2. c \in Calling
    BY <1>1 DEF Calling
  <2>3. s \in Forms \cup Retriers => TellOK(c)
    BY <1>1, <1>4 DEF TellOK, Calling
  <2> HIDE DEF c
  <2> QED BY <1>2, <2>1, <2>2, <2>3, OneCall
<1>5. ASSUME call[s].phase \in {"get", "printers"}, NEW answer \in {"ok", "empty", "failed"},
             Answers(s, answer, "nothing")
      PROVE  Inv'
  <2> DEFINE c == [call[s] EXCEPT !.answer = answer, !.did = "nothing"]
  <2>1. call' = [call EXCEPT ![s] = c]
    BY <1>5 DEF Answers
  <2>2. c \in Calling
    BY <1>1 DEF Calling
  <2>3. s \notin Forms \cup Retriers
    BY <1>1, <1>5 DEF TellOK
  <2> HIDE DEF c
  <2> QED BY <1>2, <2>1, <2>2, <2>3, OneCall
<1>6. CASE Lose(s)
  <2> DEFINE c == [call[s] EXCEPT !.answer = "failed", !.list = NoJobs,
                                  !.did = IF call[s].phase = "post" THEN "lost" ELSE @]
  <2>1. call' = [call EXCEPT ![s] = c]
    BY <1>6 DEF Lose
  <2>2. c \in Calling
    BY <1>1, NoJobsType DEF Calling
  <2>3. s \in Forms \cup Retriers => TellOK(c)
    BY <1>1 DEF TellOK, Calling
  <2> HIDE DEF c
  <2> QED BY <1>2, <2>1, <2>2, <2>3, OneCall
<1>7. CASE Serve(s)
  <2>1. CASE ServePost(s)
    BY <1>3, <2>1 DEF ServePost
  <2>2. CASE ServeGet(s)
    BY <1>4, <1>5, <2>2 DEF ServeGet
  <2> QED BY <1>7, <2>1, <2>2 DEF Serve
<1> QED BY <1>6, <1>7

\* What the calls do with the answers.
LEMMA AnswerStep ==
  ASSUME Inv, NEW s \in Slots, EndPost(s) \/ EndList(s) \/ EndDetail(s) \/ (s \in Refreshes /\ Tick(s))
  PROVE  Inv'
<1>1. UNCHANGED jobs
  BY DEF EndPost, EndList, EndDetail, Tick, agent
<1>2. CASE EndPost(s)
  BY <1>1, <1>2, AsksStep, EndsStep DEF EndPost
<1>3. CASE EndList(s)
  BY <1>1, <1>3, EndsStep DEF EndList
<1>4. CASE EndDetail(s)
  BY <1>1, <1>4, EndsStep DEF EndDetail
<1>5. CASE s \in Refreshes /\ Tick(s)
  BY <1>1, <1>5, AsksStep, ConsoleAssumption DEF Tick
<1> QED BY <1>2, <1>3, <1>4, <1>5

LEMMA StartStep == ASSUME Inv, Connects \/ LoadPrinters PROVE Inv'
<1>1. Opening \in Slots /\ Opening \notin Forms \cup Retriers
  BY ConsoleAssumption DEF Slots
<1>2. UNCHANGED jobs
  BY DEF Connects, LoadPrinters, agent
<1>3. CASE UNCHANGED call
  BY <1>2, <1>3 DEF Inv, TypeOK, TellInv
<1>4. CASE Asks(Opening, "printers") \/ Asks(Opening, "list")
  BY <1>1, <1>2, <1>4, AsksStep
<1> QED BY <1>3, <1>4 DEF Connects, LoadPrinters

LEMMA InvInit == Init => Inv
<1> SUFFICES ASSUME Init PROVE Inv
  OBVIOUS
<1>1. PICK i \in Ids :
        call = [s \in Slots |-> [phase |-> "idle", answer |-> "none", list |-> NoJobs,
                                 job |-> i, did |-> "nothing"]]
  BY DEF Init
<1>2. TypeOK
  BY <1>1, NoJobsType DEF Init, TypeOK, Calling, JobStates
<1>3. \A s \in Slots : call[s].phase = "idle" /\ call[s].answer = "none"
  BY <1>1
<1>4. TellInv
  BY <1>3 DEF TellInv, TellOK, Slots
<1> QED BY <1>2, <1>4 DEF Inv

LEMMA InvStep == Inv /\ [Next]_vars => Inv'
<1> SUFFICES ASSUME Inv, [Next]_vars PROVE Inv'
  OBVIOUS
<1>1. CASE Work \/ StopOrStart \/ UNCHANGED vars
  BY <1>1 DEF Work, StopOrStart, vars, agent, Inv, TypeOK, TellInv, JobStates
<1>2. ASSUME NEW s \in Slots, Proceeds(s) PROVE Inv'
  BY <1>2, StartStep, ServeStep, AnswerStep DEF Proceeds
<1> QED BY <1>1, <1>2, ClickStep DEF Next

LEMMA OpeningStep == ASSUME Inv, OpeningInv, [Next]_vars PROVE OpeningInv'
<1> USE DEF Inv, TypeOK
<1>1. Opening \in Slots
  BY ConsoleAssumption DEF Slots
<1>2. CASE Click
  <2>1. ASSUME NEW s \in Refreshes, ClickRefresh(s) PROVE OpeningInv'
    BY <1>1, <2>1 DEF ClickRefresh, Asks, OpeningInv, Calling
  <2>2. ASSUME NEW s \in Forms, Submit(s) PROVE OpeningInv'
    BY <1>1, <2>2 DEF Submit, OpeningInv, Calling
  <2>3. ASSUME NEW s \in Retriers, NEW i \in Ids, ClickRetry(s, i) PROVE OpeningInv'
    BY <1>1, <2>3 DEF ClickRetry, OpeningInv, Calling
  <2>4. ASSUME NEW s \in Inspectors, NEW i \in Ids, ClickDetail(s, i) PROVE OpeningInv'
    BY <1>1, <2>4 DEF ClickDetail, OpeningInv, Calling
  <2> QED BY <1>2, <2>1, <2>2, <2>3, <2>4 DEF Click
<1>3. CASE Work \/ StopOrStart \/ UNCHANGED vars
  BY <1>3 DEF Work, StopOrStart, vars, OpeningInv
<1>4. ASSUME NEW s \in Slots, Proceeds(s) PROVE OpeningInv'
  <2>1. CASE Connects
    BY <2>1 DEF Connects, OpeningInv
  <2>2. CASE LoadPrinters
    BY <1>1, <2>2 DEF LoadPrinters, Asks, OpeningInv, Calling
  <2>3. CASE s \in Refreshes /\ Tick(s)
    BY <1>1, <2>3 DEF Tick, Asks, OpeningInv, Calling
  <2>4. CASE Serve(s) \/ Lose(s)
    <3>1. UNCHANGED page
      BY <2>4 DEF Serve, Lose
    <3>2. call'[Opening].phase = call[Opening].phase
      BY <1>1, <2>4 DEF Serve, ServePost, ServeGet, Answers, Lose, Calling
    <3> QED BY <3>1, <3>2 DEF OpeningInv
  <2>5. CASE EndPost(s) \/ EndDetail(s)
    BY <1>1, <2>5 DEF EndPost, EndDetail, Asks, Ends, OpeningInv, Calling
  <2>6. CASE EndList(s)
    <3>1. call'[s].phase = "idle" /\ \A t \in Slots \ {s} : call'[t] = call[t]
      BY <2>6 DEF EndList, Ends, Calling
    <3>2. s # Opening => UNCHANGED page
      BY <2>6 DEF EndList, StartsTimer
    <3> QED BY <1>1, <3>1, <3>2 DEF OpeningInv
  <2> QED BY <1>4, <2>1, <2>2, <2>3, <2>4, <2>5, <2>6 DEF Proceeds
<1> QED BY <1>2, <1>3, <1>4 DEF Next

LEMMA DetailStep == ASSUME Inv, DetailInv, [Next]_vars PROVE DetailInv'
<1> USE DEF Inv, TypeOK
<1> SUFFICES ASSUME NEW t \in Refreshes PROVE call'[t].phase # "get"
  BY DEF DetailInv
<1>1. t \in Slots /\ call[t].phase # "get" /\ t \notin Inspectors /\ Opening \in Slots
  BY ConsoleAssumption DEF Slots, DetailInv
<1>2. CASE Click
  <2>1. ASSUME NEW s \in Refreshes, ClickRefresh(s) PROVE call'[t].phase # "get"
    BY <1>1, <2>1 DEF ClickRefresh, Asks, Calling
  <2>2. ASSUME NEW s \in Forms, Submit(s) PROVE call'[t].phase # "get"
    BY <1>1, <2>2 DEF Submit, Calling
  <2>3. ASSUME NEW s \in Retriers, NEW i \in Ids, ClickRetry(s, i) PROVE call'[t].phase # "get"
    BY <1>1, <2>3 DEF ClickRetry, Calling
  <2>4. ASSUME NEW s \in Inspectors, NEW i \in Ids, ClickDetail(s, i) PROVE call'[t].phase # "get"
    BY <1>1, <2>4 DEF ClickDetail, Calling
  <2> QED BY <1>2, <2>1, <2>2, <2>3, <2>4 DEF Click
<1>3. CASE Work \/ StopOrStart \/ UNCHANGED vars
  BY <1>1, <1>3 DEF Work, StopOrStart, vars
<1>4. ASSUME NEW s \in Slots, Proceeds(s) PROVE call'[t].phase # "get"
  <2>1. CASE Connects \/ LoadPrinters
    BY <1>1, <2>1 DEF Connects, LoadPrinters, Asks, Calling
  <2>2. CASE s \in Refreshes /\ Tick(s)
    BY <1>1, <2>2 DEF Tick, Asks, Calling
  <2>3. CASE Serve(s) \/ Lose(s)
    BY <1>1, <2>3 DEF Serve, ServePost, ServeGet, Answers, Lose, Calling
  <2>4. CASE EndPost(s) \/ EndDetail(s)
    BY <1>1, <2>4 DEF EndPost, EndDetail, Asks, Ends, Calling
  <2>5. CASE EndList(s)
    BY <1>1, <2>5 DEF EndList, Ends, Calling
  <2> QED BY <1>4, <2>1, <2>2, <2>3, <2>4, <2>5 DEF Proceeds
<1> QED BY <1>2, <1>3, <1>4 DEF Next

LEMMA Invariant == Spec => [](Inv /\ OpeningInv /\ DetailInv)
<1>1. Init => OpeningInv /\ DetailInv
  BY ConsoleAssumption DEF Init, OpeningInv, DetailInv, Slots
<1>2. Inv /\ OpeningInv /\ DetailInv /\ [Next]_vars => Inv' /\ OpeningInv' /\ DetailInv'
  BY InvStep, OpeningStep, DetailStep
<1> QED BY <1>1, <1>2, InvInit, PTL DEF Spec
------------------------------------------------------------------------------
\* Where a call of an operator that changes something ends.
LEMMA WhatEnds ==
  ASSUME Inv, Next, NEW s \in Forms \cup Retriers,
         call[s].phase # "idle", call'[s].phase = "idle"
  PROVE  EndPost(s) \/ EndList(s)
<1> USE DEF Inv, TypeOK
<1>1. s \in Slots /\ TellOK(call[s])
  BY DEF Slots, TellInv
<1>2. ~Click
  <2>1. \A t \in Refreshes : ~ClickRefresh(t)
    BY <1>1 DEF ClickRefresh, Asks, Calling
  <2>2. \A t \in Forms : ~Submit(t)
    BY <1>1 DEF Submit, Calling
  <2>3. \A t \in Retriers, i \in Ids : ~ClickRetry(t, i)
    BY <1>1 DEF ClickRetry, RowButton, Calling
  <2>4. \A t \in Inspectors, i \in Ids : ~ClickDetail(t, i)
    BY <1>1 DEF ClickDetail, RowButton, Calling
  <2> QED BY <2>1, <2>2, <2>3, <2>4 DEF Click
<1>3. ~Work /\ ~StopOrStart
  BY DEF Work, StopOrStart
<1>4. PICK t \in Slots : Proceeds(t)
  BY <1>2, <1>3 DEF Next
<1>5. ~Connects /\ ~LoadPrinters
  BY <1>1, ConsoleAssumption DEF Connects, LoadPrinters, Asks, Calling
<1>6. ~(t \in Refreshes /\ Tick(t))
  BY <1>1, ConsoleAssumption DEF Tick, Asks, Calling
<1>7. ~Serve(t)
  <2>1. ASSUME NEW answer, NEW did, Answers(t, answer, did) PROVE FALSE
    BY <1>1, <2>1 DEF Answers, Calling
  <2>2. call' # [call EXCEPT ![t].answer = "ok", ![t].list = jobs]
    BY <1>1 DEF Calling
  <2> QED BY <2>1, <2>2 DEF Serve, ServePost, ServeGet
<1>8. ~Lose(t)
  BY <1>1 DEF Lose, Calling
<1>9. EndPost(t) \/ EndList(t) \/ EndDetail(t)
  BY <1>4, <1>5, <1>6, <1>7, <1>8 DEF Proceeds
<1>10. t = s
  BY <1>1, <1>9 DEF EndPost, EndList, EndDetail, Ends, Asks, Calling
<1>11. ~EndDetail(s)
  BY <1>1 DEF EndDetail, TellOK
<1> QED BY <1>9, <1>10, <1>11

\* What the page says of a creation or a retry is what came of it.
THEOREM ToldTrue == Spec => ToldIsTrue
<1>1. Inv /\ [Next]_vars
        => [\A s \in Forms \cup Retriers :
              (call[s].phase # "idle" /\ call'[s].phase = "idle") =>
                IF error' = Source(s)
                THEN call[s].did \in {"refused", "lost"} \/ error = error'
                ELSE call[s].did = "accepted"]_vars
  <2> SUFFICES ASSUME Inv, Next, NEW s \in Forms \cup Retriers,
                      call[s].phase # "idle", call'[s].phase = "idle"
               PROVE  IF error' = Source(s)
                      THEN call[s].did \in {"refused", "lost"} \/ error = error'
                      ELSE call[s].did = "accepted"
    BY DEF vars
  <2>1. s \in Slots /\ TellOK(call[s])
    BY DEF Slots, Inv, TellInv
  <2>2. Source(s) \in {"create", "retry"}
    BY DEF Source
  <2>3. CASE EndPost(s) /\ call[s].answer = "failed"
    <3>1. error' = Source(s)
      BY <2>2, <2>3 DEF EndPost, WithError
    <3>2. call[s].did \in {"refused", "lost"}
      BY <2>1, <2>3 DEF EndPost, TellOK
    <3> QED BY <3>1, <3>2
  <2>4. CASE EndPost(s) /\ call[s].answer = "ok"
    <3>1. call'[s].phase = "list"
      BY <2>1, <2>4 DEF EndPost, Asks, Inv, TypeOK, Calling
    <3> QED BY <3>1
  <2>5. CASE EndList(s)
    <3>1. call[s].did = "accepted"
      BY <2>1, <2>5 DEF EndList, TellOK
    <3>2. error' = Source(s) => error = error'
      BY <2>2, <2>5 DEF EndList, Without, WithError, OnFailure
    <3> QED BY <3>1, <3>2
  <2> QED BY <2>3, <2>4, <2>5, WhatEnds DEF EndPost
<1> QED BY <1>1, Invariant, PTL DEF Spec, ToldIsTrue

\* An operator's error is not hidden by the timer or by operations of another kind.
THEOREM ErrorsStay == Spec => OperatorErrorStays
<1> DEFINE Operators == Forms \cup Retriers \cup Inspectors
           Stays == (error \in {"create", "retry", "detail"} /\ error' # error) =>
                      \/ page # "watching" /\ error' \in {"connection", "printer"}
                      \/ ~printers /\ error' = "create"
                      \/ \E s \in Operators : call[s] # call'[s] /\ Source(s) \in {error, error'}
<1>1. Inv /\ OpeningInv /\ DetailInv /\ [Next]_vars => [Stays]_vars
  <2> SUFFICES ASSUME Inv, OpeningInv, DetailInv, Next, error \in {"create", "retry", "detail"}, error' # error
               PROVE  \/ page # "watching" /\ error' \in {"connection", "printer"}
                      \/ ~printers /\ error' = "create"
                      \/ \E s \in Operators : call[s] # call'[s] /\ Source(s) \in {error, error'}
    BY DEF vars
  <2> USE DEF Inv, TypeOK
  <2>1. \A s \in Forms : Source(s) = "create"
    BY DEF Source
  <2>2. \A s \in Retriers : Source(s) = "retry"
    BY ConsoleAssumption DEF Source
  <2>3. \A s \in Inspectors : Source(s) = "detail"
    BY ConsoleAssumption DEF Source
  <2>4. \A s \in Refreshes : Source(s) = "refresh"
    BY ConsoleAssumption DEF Source
  <2>5. CASE Click
    <3>1. ASSUME NEW s \in Forms, Submit(s) PROVE Stays
      BY <2>1, <3>1 DEF Submit, Without, WithError, Calling, Slots
    <3>2. ASSUME NEW s \in Retriers, NEW i \in Ids, ClickRetry(s, i) PROVE Stays
      BY <2>2, <3>2 DEF ClickRetry, RowButton, Without, Calling, Slots
    <3>3. ASSUME NEW s \in Inspectors, NEW i \in Ids, ClickDetail(s, i) PROVE Stays
      BY <2>3, <3>3 DEF ClickDetail, RowButton, Without, Calling, Slots
    <3>4. ASSUME NEW s \in Refreshes, ClickRefresh(s) PROVE Stays
      BY <3>4 DEF ClickRefresh
    <3> QED BY <2>5, <3>1, <3>2, <3>3, <3>4 DEF Click
  <2>6. CASE Work \/ StopOrStart
    BY <2>6 DEF Work, StopOrStart
  <2>7. ASSUME NEW s \in Slots, Proceeds(s) PROVE Stays
    <3>1. CASE Connects
      BY <3>1 DEF Connects, Without, WithError
    <3>2. CASE LoadPrinters
      BY <3>2 DEF LoadPrinters, Without, WithError, OpeningInv
    <3>3. CASE Serve(s) \/ Lose(s) \/ (s \in Refreshes /\ Tick(s))
      BY <3>3 DEF Serve, Lose, Tick
    <3>4. CASE EndPost(s)
      <4>1. UNCHANGED jobs /\ (Ends(s, {}) \/ Ends(s, Retriers \cup Inspectors) => call'[s].phase = "idle")
        BY <3>4, EndsStep DEF EndPost, agent
      <4>2. s \in Refreshes \/ s \in Operators
        BY DEF Slots
      <4> QED BY <2>1, <2>2, <2>3, <2>4, <3>4, <4>1, <4>2 DEF EndPost, Without, WithError, OnFailure
    <3>5. CASE EndList(s)
      <4>1. UNCHANGED jobs /\ (Ends(s, {}) \/ Ends(s, Retriers \cup Inspectors) => call'[s].phase = "idle")
        BY <3>5, EndsStep DEF EndList, agent
      <4>2. s \in Refreshes \/ s \in Operators
        BY DEF Slots
      <4> QED BY <2>1, <2>2, <2>3, <2>4, <3>5, <4>1, <4>2 DEF EndList, Without, WithError, OnFailure
    <3>6. CASE EndDetail(s)
      <4>1. UNCHANGED jobs /\ (Ends(s, {}) \/ Ends(s, Retriers \cup Inspectors) => call'[s].phase = "idle")
        BY <3>6, EndsStep DEF EndDetail, agent
      <4>2. s \in Inspectors
        BY <3>6 DEF EndDetail, Slots, DetailInv, TellInv, TellOK
      <4> QED BY <2>3, <3>6, <4>1, <4>2 DEF EndDetail, Without, WithError
    <3> QED BY <2>7, <3>1, <3>2, <3>3, <3>4, <3>5, <3>6 DEF Proceeds
  <2> QED BY <2>5, <2>6, <2>7 DEF Next
<1> QED BY <1>1, Invariant, PTL DEF Spec, OperatorErrorStays
==============================================================================
