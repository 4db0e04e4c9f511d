---------------------------- MODULE HttpApiProofs ---------------------------
(***************************************************************************)
(* Theorems about HttpApi and QueueOwnership: the answers are true, what   *)
(* is admitted prints, and only the owner of the channel sends to it,      *)
(* whatever the services of other routers and strangers do.                *)
(***************************************************************************)
EXTENDS HttpApi, SequenceTheorems, TLAPS

Names == Ids \cup {"unknown", Nobody}

AllAnswers ==
  {"none", "OK", "NO_CONTENT", "METHOD_NOT_ALLOWED", "UNSUPPORTED_MEDIA_TYPE", "REQUEST_BODY_TOO_LARGE",
   "INVALID_REQUEST", "PRINTER_LIST_FAILED", "PREVIEW_NOT_READY", "NOT_FOUND", "INTERNAL_ERROR",
   "QUEUE_DELIVERY_FAILED", "QUEUE_FULL", "RETRY_NOT_ALLOWED", "STORE_ERROR", "CONTEXT_CANCELED"}

Calling ==
  [phase : {"idle", "entering", "storing", "delivering", "answered", "replied"},
   op : {"none", "create", "retry"}, named : Names, job : Ids \cup {Nobody},
   tries : Nat, violation : BOOLEAN, answer : AllAnswers,
   meant : Names, filed : Ids \cup {Nobody}, wrote : Ids \cup {Nobody},
   sent : Ids \cup {Nobody}]

TypeOK ==
  /\ status \in [Ids -> {"absent", "queued", "failed", "settled"}]
  /\ service \in [Services -> [made : BOOLEAN, violated : BOOLEAN, closed : BOOLEAN,
                               deliveries : Nat]]
  /\ call \in [Services -> Calling]

\* How far a call has come, and what it has done by then.
PhaseOK(c) ==
  /\ c.phase = "idle" => c = Idle
  /\ c.phase \notin {"idle", "replied"} => c.op # "none"
  /\ c.phase = "delivering" => c.filed = c.job /\ c.wrote = c.job /\ c.job # Nobody
  /\ c.phase \in {"entering", "storing"} => c.filed = Nobody /\ c.wrote = Nobody
  /\ c.phase \notin {"answered", "replied"} => c.sent = Nobody
  /\ c.phase = "storing" /\ c.op = "retry" => c.named \in Ids
  /\ c.op = "none" => c.wrote = Nobody

\* What is kept about an answer before it is passed on, and after.
AnswerOK(c) ==
  c.phase \in {"answered", "replied"} =>
    /\ (c.sent # Nobody) = (c.answer = "OK" /\ c.op # "none")
    /\ c.sent \in {c.wrote, Nobody}
    /\ c.answer \notin {"OK", "QUEUE_DELIVERY_FAILED"} => c.wrote = Nobody
    /\ c.answer \notin {"OK", "QUEUE_DELIVERY_FAILED", "STORE_ERROR", "INTERNAL_ERROR"} =>
         c.filed = Nobody
    /\ c.phase = "replied" => c.answer # "STORE_ERROR"

\* A retry is about the job that its path names, as soon as it is under way.
RetryOK(c) ==
  c.op = "retry" => c.named = c.meant /\ {c.filed, c.wrote} \subseteq {c.meant, Nobody}

CallOK(c) == PhaseOK(c) /\ AnswerOK(c) /\ RetryOK(c)

CallInv == \A s \in Services : CallOK(call[s])

\* A service that is open and was first on the channel owns it, and a call that may
\* send found its service so and holds the mutex since.
OwnerInv ==
  \A s \in Services :
    /\ service[s].made /\ ~service[s].violated /\ ~service[s].closed => owner = s
    /\ call[s].phase # "idle" => service[s].made
    /\ Holds(s) /\ ~call[s].violation => ~service[s].violated
    /\ Holds(s) => ~service[s].closed

Inv == TypeOK /\ CallInv /\ OwnerInv
------------------------------------------------------------------------------
(***************************************************************************)
(* The routes.                                                             *)
(***************************************************************************)
\* The decoded parts of one segment and of two.
LEMMA FlattenOne == ASSUME NEW a PROVE FlattenSeq(<<a>>) = a
<1> DEFINE F == [i \in 1 .. 1 |-> a]
           S == <<a>>
           P(f) == f = [i \in 1 .. Len(S) |-> IF i = 1 THEN S[i] ELSE f[i - 1] \o S[i]]
<1>1. Len(S) = 1 /\ S[1] = a
  OBVIOUS
<1>2. P(F)
  BY <1>1
<1>3. P(CHOOSE f : P(f))
  <2> HIDE DEF P
  <2> QED BY <1>2
<1>4. (CHOOSE f : P(f))[1] = a
  <2> DEFINE G == CHOOSE f : P(f)
  <2> HIDE DEF G
  <2>1. P(G)
    BY <1>3 DEF G
  <2>2. G[1] = a
    BY <1>1, <2>1
  <2> QED BY <2>2 DEF G
<1> QED BY <1>1, <1>4 DEF FlattenSeq

LEMMA FlattenTwo == ASSUME NEW a, NEW b PROVE FlattenSeq(<<a, b>>) = a \o b
<1> DEFINE F == [i \in 1 .. 2 |-> IF i = 1 THEN a ELSE a \o b]
           S == <<a, b>>
           P(f) == f = [i \in 1 .. Len(S) |-> IF i = 1 THEN S[i] ELSE f[i - 1] \o S[i]]
<1>1. Len(S) = 2 /\ S[1] = a /\ S[2] = b
  OBVIOUS
<1>2. P(F)
  BY <1>1
<1>3. P(CHOOSE f : P(f))
  <2> HIDE DEF P
  <2> QED BY <1>2
<1>4. (CHOOSE f : P(f))[2] = a \o b
  <2> DEFINE G == CHOOSE f : P(f)
  <2> HIDE DEF G
  <2>1. P(G)
    BY <1>3 DEF G
  <2>2. G[1] = a
    BY <1>1, <2>1
  <2>3. G[2] = G[1] \o b
    <3>1. \A i \in 1 .. 2 : G[i] = IF i = 1 THEN S[i] ELSE G[i - 1] \o S[i]
      BY <1>1, <2>1
    <3>2. 2 \in 1 .. 2 /\ 2 # 1 /\ 2 - 1 = 1
      OBVIOUS
    <3> HIDE DEF S
    <3>3. G[2] = G[2 - 1] \o S[2]
      BY <3>1, <3>2, Zenon
    <3> QED BY <1>1, <3>2, <3>3
  <2> QED BY <2>2, <2>3 DEF G
<1>5. FlattenSeq(S) = (CHOOSE f : P(f))[Len(S)]
  <2>1. Len(S) # 0
    BY <1>1
  <2> HIDE DEF S
  <2> QED BY <2>1, Zenon DEF FlattenSeq
<1> QED BY <1>1, <1>4, <1>5

LEMMA PairOfParts == ASSUME NEW a, NEW b PROVE <<a>> \o <<b>> = <<a, b>>
<1> DEFINE S == {a, b}
<1>1. <<a>> \in Seq(S) /\ <<b>> \in Seq(S) /\ <<a, b>> \in Seq(S)
  OBVIOUS
<1>2. Len(<<a>>) = 1 /\ Len(<<b>>) = 1 /\ Len(<<a, b>>) = 2
  OBVIOUS
<1> HIDE DEF S
<1>3. Len(<<a>> \o <<b>>) = 2 /\ <<a>> \o <<b>> \in Seq(S)
  BY <1>1, <1>2, ConcatProperties
<1>4. (<<a>> \o <<b>>)[1] = <<a>>[1] /\ (<<a>> \o <<b>>)[2] = <<b>>[1]
  BY <1>1, <1>2, ConcatProperties
<1>5. \A n \in 1 .. 2 : (<<a>> \o <<b>>)[n] = <<a, b>>[n]
  <2>1. <<a>>[1] = a /\ <<b>>[1] = b /\ <<a, b>>[1] = a /\ <<a, b>>[2] = b
    OBVIOUS
  <2>2. \A n \in 1 .. 2 : n = 1 \/ n = 2
    OBVIOUS
  <2> QED BY <1>4, <2>1, <2>2
<1>6. ASSUME NEW s \in Seq(S), NEW u \in Seq(S), Len(s) = 2, Len(u) = 2,
             \A n \in 1 .. 2 : s[n] = u[n]
      PROVE  s = u
  BY <1>6, SeqEqual
<1> QED BY <1>1, <1>2, <1>3, <1>5, <1>6

LEMMA PartLengths ==
  ASSUME NEW a, NEW b
  PROVE  /\ Len(<<a>>) = 1 /\ Len(<<a, b>>) = 2
         /\ <<a>>[1] = a /\ <<a, b>>[1] = a
  OBVIOUS

\* A path that is routed to a retry names one job, the same decoded as sent: an
\* escaped slash leads nowhere.
LEMMA RetryRoute ==
  ASSUME NEW path \in Paths, Resource(path) = "retry"
  PROVE  /\ Len(path.below[1]) = 1
         /\ JobRoute(path.below)[1] = path.below[1][1]
         /\ path.below[1][1] \in Names
<1> DEFINE below == path.below
           part == JobRoute(below)
<1>1. below # <<>>
  BY DEF Resource, Paths
<1>2. below \in Below
  BY <1>1 DEF Paths
<1>3. Len(part) = 2
  BY <1>1 DEF Resource
<1>4. ASSUME NEW i, below = <<<<i>>>> PROVE FALSE
  <2>1. FlattenSeq(below) = <<i>>
    BY <1>4, FlattenOne
  <2>2. part = <<>> \/ part = <<i>>
    BY <2>1 DEF JobRoute
  <2> QED BY <1>3, <2>2
<1>5. ASSUME NEW i \in Ids \cup {"unknown"}, NEW a \in {"preview", "retry", "", "other"},
             below = <<<<i>>, <<a>>>>
      PROVE  Len(below[1]) = 1 /\ part[1] = below[1][1] /\ below[1][1] \in Names
  <2>1. FlattenSeq(below) = <<i>> \o <<a>>
    BY <1>5, FlattenTwo
  <2>2. <<i>> \o <<a>> = <<i, a>>
    BY PairOfParts
  <2>3. part = <<i, a>>
    <3>1. Len(<<i, a>>) = 2 /\ Len(<<<<i>>, <<a>>>>) = 2
      BY PartLengths
    <3> QED BY <1>5, <2>1, <2>2, <3>1 DEF JobRoute
  <2>4. below[1] = <<i>>
    BY <1>5, PartLengths
  <2>5. Len(below[1]) = 1 /\ part[1] = i /\ below[1][1] = i
    BY <2>3, <2>4, PartLengths
  <2> QED BY <2>5 DEF Names
<1>6. ASSUME NEW i \in Ids, below = <<<<i, "retry">>>> PROVE FALSE
  <2>1. FlattenSeq(below) = <<i, "retry">>
    BY <1>6, FlattenOne
  <2>2. Len(below) = 1 /\ Len(<<i, "retry">>) = 2
    BY <1>6
  <2>3. part = <<>>
    BY <2>1, <2>2 DEF JobRoute
  <2> QED BY <1>3, <2>3
<1>7. \/ \E i \in Ids \cup {"", "unknown"} : below = <<<<i>>>>
      \/ \E i \in Ids \cup {"unknown"}, a \in {"preview", "retry", "", "other"} :
           below = <<<<i>>, <<a>>>>
      \/ \E i \in Ids : below = <<<<i, "retry">>>>
  <2> HIDE DEF below
  <2>1. ASSUME below \in UNION {{<<<<i>>, <<a>>>> : a \in {"preview", "retry", "", "other"}} :
                                i \in Ids \cup {"unknown"}}
        PROVE  \E i \in Ids \cup {"unknown"}, a \in {"preview", "retry", "", "other"} :
                 below = <<<<i>>, <<a>>>>
    BY <2>1, Zenon
  <2> QED BY <1>2, <2>1, Zenon DEF Below
<1> QED BY <1>4, <1>5, <1>6, <1>7
------------------------------------------------------------------------------
(***************************************************************************)
(* The steps of a call change nothing but it.                              *)
(***************************************************************************)
LEMMA OneCall ==
  ASSUME Inv, NEW s \in Services, NEW c \in Calling, call' = [call EXCEPT ![s] = c], CallOK(c)
  PROVE  call' \in [Services -> Calling] /\ CallInv'
<1>1. \A t \in Services : call'[t] = IF t = s THEN c ELSE call[t]
  BY DEF Inv, TypeOK
<1>2. CallInv'
  BY <1>1 DEF CallInv, Inv
<1> QED BY <1>2 DEF Inv, TypeOK

LEMMA CallStep ==
  ASSUME Inv, NEW s \in Services, NEW c \in Calling, call' = [call EXCEPT ![s] = c], CallOK(c),
         UNCHANGED <<owner, service>>, status' \in [Ids -> {"absent", "queued", "failed", "settled"}],
         c.phase # "idle" => service[s].made,
         c.phase \in {"storing", "delivering"} =>
           ~service[s].closed /\ (~c.violation => ~service[s].violated)
  PROVE  Inv'
<1>1. call' \in [Services -> Calling] /\ CallInv'
  BY OneCall
<1>2. \A t \in Services : call'[t] = IF t = s THEN c ELSE call[t]
  BY DEF Inv, TypeOK
<1>3. OwnerInv'
  BY <1>2 DEF OwnerInv, Inv, Holds
<1> QED BY <1>1, <1>3 DEF Inv, TypeOK

LEMMA RequestStep ==
  ASSUME Inv, NEW s \in Services, NEW method \in Methods, NEW path \in Paths, Request(s, method, path)
  PROVE  Inv'
<1>1. call[s] = Idle /\ service[s].made
  BY DEF Request, Inv, CallInv, CallOK, PhaseOK
<1>0. UNCHANGED <<status, owner, service>> /\ status' \in [Ids -> {"absent", "queued", "failed", "settled"}]
  BY DEF Request, Inv, TypeOK
<1>2. ASSUME NEW answer \in AllAnswers \ {"STORE_ERROR"}, Replies(s, answer) PROVE Inv'
  <2> DEFINE c == [Idle EXCEPT !.phase = "replied", !.answer = answer]
  <2>1. call' = [call EXCEPT ![s] = c]
    BY <1>1, <1>2 DEF Replies, Inv, TypeOK
  <2>2. c \in Calling
    BY DEF Calling, Idle, Names, AllAnswers
  <2>3. CallOK(c)
    BY DEF CallOK, PhaseOK, AnswerOK, RetryOK, Idle
  <2>4. c.phase \notin {"storing", "delivering"}
    BY DEF Idle
  <2> HIDE DEF c
  <2> QED BY <1>0, <1>1, <2>1, <2>2, <2>3, <2>4, CallStep
<1>3. ASSUME Calls(s, "create", path) PROVE Inv'
  <2> DEFINE c == [Idle EXCEPT !.phase = "entering", !.op = "create"]
  <2>1. call' = [call EXCEPT ![s] = c]
    BY <1>1, <1>3 DEF Calls, Inv, TypeOK, Idle
  <2>2. c \in Calling
    BY DEF Calling, Idle, Names, AllAnswers
  <2>3. CallOK(c)
    BY DEF CallOK, PhaseOK, AnswerOK, RetryOK, Idle
  <2>4. c.phase \notin {"storing", "delivering"}
    BY DEF Idle
  <2> HIDE DEF c
  <2> QED BY <1>0, <1>1, <2>1, <2>2, <2>3, <2>4, CallStep
<1>4. ASSUME Resource(path) = "retry", Calls(s, "retry", path) PROVE Inv'
  <2> DEFINE i == path.below[1][1]
             c == [Idle EXCEPT !.phase = "entering", !.op = "retry", !.named = i, !.meant = i]
  <2>1. Len(path.below[1]) = 1 /\ JobRoute(path.below)[1] = i /\ i \in Names
    BY <1>4, RetryRoute
  <2>2. call' = [call EXCEPT ![s] = c]
    BY <1>1, <1>4, <2>1 DEF Calls, Inv, TypeOK, Idle
  <2>3. c \in Calling
    BY <2>1 DEF Calling, Idle, Names, AllAnswers
  <2>4. CallOK(c)
    BY DEF CallOK, PhaseOK, AnswerOK, RetryOK, Idle
  <2>5. c.phase \notin {"storing", "delivering"}
    BY DEF Idle
  <2> HIDE DEF c
  <2> QED BY <1>0, <1>1, <2>2, <2>3, <2>4, <2>5, CallStep
<1>5. \/ \E answer \in AllAnswers \ {"STORE_ERROR"} : Replies(s, answer)
      \/ Calls(s, "create", path)
      \/ Resource(path) = "retry" /\ Calls(s, "retry", path)
  <2>1. \A body, object : BodyRefusal(body, object) \in AllAnswers \ {"STORE_ERROR"}
    BY DEF BodyRefusal, AllAnswers
  <2>2. \A resource, job : \A answer \in Reads(resource, job) :
           answer \in AllAnswers \ {"STORE_ERROR"}
    BY DEF Reads, AllAnswers
  <2>3. {"METHOD_NOT_ALLOWED", "NO_CONTENT"} \subseteq AllAnswers \ {"STORE_ERROR"}
    BY DEF AllAnswers
  <2> QED BY <2>1, <2>2, <2>3, Zenon DEF Request
<1> QED BY <1>2, <1>3, <1>4, <1>5

\* A call is refused without a change, or has its service open from here on.
LEMMA EnterStep == ASSUME Inv, NEW s \in Services, Enter(s) PROVE Inv'
<1> USE DEF Inv, TypeOK
<1>0. UNCHANGED <<status, owner, service>> /\ status' \in [Ids -> {"absent", "queued", "failed", "settled"}]
  BY DEF Enter
<1>1. call[s] \in Calling /\ CallOK(call[s]) /\ call[s].phase = "entering" /\ service[s].made
  BY DEF Enter, CallInv, OwnerInv
<1>2. ASSUME NEW answer \in AllAnswers \ {"OK", "none"}, Answers(s, answer) PROVE Inv'
  <2> DEFINE c == [call[s] EXCEPT !.phase = "answered", !.answer = answer]
  <2>1. call' = [call EXCEPT ![s] = c]
    BY <1>2 DEF Answers
  <2>2. c \in Calling /\ c.phase = "answered"
    BY <1>1 DEF Calling
  <2>3. CallOK(c)
    BY <1>1 DEF CallOK, PhaseOK, AnswerOK, RetryOK, Calling
  <2> HIDE DEF c
  <2> QED BY <1>0, <1>1, <2>1, <2>2, <2>3, CallStep
<1>3. ASSUME Refusal(s) = "none",
             call' = [call EXCEPT ![s].phase = "storing", ![s].violation = Interfered(s)]
      PROVE  Inv'
  <2> DEFINE c == [call[s] EXCEPT !.phase = "storing", !.violation = Interfered(s)]
  <2>1. call' = [call EXCEPT ![s] = c]
    BY <1>3
  <2>2. ~service[s].closed /\ (call[s].op = "retry" => call[s].named \in Ids)
    BY <1>3, Zenon DEF Refusal, Exists
  <2>3. c \in Calling /\ c.phase = "storing" /\ (~c.violation => ~service[s].violated)
    BY <1>1 DEF Calling, Interfered
  <2>4. CallOK(c)
    BY <1>1, <2>2 DEF CallOK, PhaseOK, AnswerOK, RetryOK, Calling
  <2> HIDE DEF c
  <2> QED BY <1>0, <1>1, <2>1, <2>2, <2>3, <2>4, CallStep
<1>4. /\ Refusal(s) \in AllAnswers \ {"OK"}
      /\ "CONTEXT_CANCELED" \in AllAnswers \ {"OK", "none"}
  BY DEF Refusal, AllAnswers
<1> QED BY <1>2, <1>3, <1>4 DEF Enter

LEMMA StoreStep == ASSUME Inv, NEW s \in Services, Store(s) PROVE Inv'
<1> USE DEF Inv, TypeOK
<1>0. UNCHANGED <<owner, service>>
  BY DEF Store
<1>1. /\ call[s] \in Calling /\ CallOK(call[s]) /\ call[s].phase = "storing" /\ service[s].made
      /\ ~service[s].closed /\ (~call[s].violation => ~service[s].violated)
  BY DEF Store, CallInv, OwnerInv, Holds
<1>2. ASSUME Answers(s, "STORE_ERROR"), UNCHANGED status PROVE Inv'
  <2> DEFINE c == [call[s] EXCEPT !.phase = "answered", !.answer = "STORE_ERROR"]
  <2>1. call' = [call EXCEPT ![s] = c]
    BY <1>2 DEF Answers
  <2>2. c \in Calling /\ c.phase = "answered"
    BY <1>1 DEF Calling, AllAnswers
  <2>3. CallOK(c)
    BY <1>1 DEF CallOK, PhaseOK, AnswerOK, RetryOK, Calling
  <2> HIDE DEF c
  <2> QED BY <1>0, <1>1, <1>2, <2>1, <2>2, <2>3, CallStep
<1>3. ASSUME call' = [call EXCEPT ![s].tries = @ + 1], UNCHANGED status PROVE Inv'
  <2> DEFINE c == [call[s] EXCEPT !.tries = @ + 1]
  <2>1. call' = [call EXCEPT ![s] = c]
    BY <1>3
  <2>2. c \in Calling /\ c.phase = "storing" /\ c.violation = call[s].violation
    BY <1>1 DEF Calling
  <2>3. CallOK(c)
    BY <1>1 DEF CallOK, PhaseOK, AnswerOK, RetryOK, Calling
  <2> HIDE DEF c
  <2> QED BY <1>0, <1>1, <1>3, <2>1, <2>2, <2>3, CallStep
<1>4. ASSUME NEW i \in Ids, call[s].op = "retry" => i = call[s].named,
             status' = [status EXCEPT ![i] = "queued"],
             call' = [call EXCEPT ![s].phase = "delivering", ![s].job = i,
                                  ![s].filed = i, ![s].wrote = i]
      PROVE  Inv'
  <2> DEFINE c == [call[s] EXCEPT !.phase = "delivering", !.job = i, !.filed = i, !.wrote = i]
  <2>1. call' = [call EXCEPT ![s] = c] /\ status' \in [Ids -> {"absent", "queued", "failed", "settled"}]
    BY <1>4
  <2>2. c \in Calling /\ c.phase = "delivering" /\ c.violation = call[s].violation
    BY <1>1 DEF Calling
  <2>3. CallOK(c)
    BY <1>1, <1>4, OwnershipAssumption DEF CallOK, PhaseOK, AnswerOK, RetryOK, Calling
  <2> HIDE DEF c
  <2> QED BY <1>0, <1>1, <2>1, <2>2, <2>3, CallStep
<1>5. ASSUME NEW i \in Ids, call[s].op = "retry" => i = call[s].named, UNCHANGED status,
             call' = [call EXCEPT ![s].phase = "answered", ![s].answer = "STORE_ERROR",
                                  ![s].filed = i]
      PROVE  Inv'
  <2> DEFINE c == [call[s] EXCEPT !.phase = "answered", !.answer = "STORE_ERROR", !.filed = i]
  <2>1. call' = [call EXCEPT ![s] = c]
    BY <1>5
  <2>2. c \in Calling /\ c.phase = "answered"
    BY <1>1 DEF Calling, AllAnswers
  <2>3. CallOK(c)
    BY <1>1, <1>5 DEF CallOK, PhaseOK, AnswerOK, RetryOK, Calling
  <2> HIDE DEF c
  <2> QED BY <1>0, <1>1, <1>5, <2>1, <2>2, <2>3, CallStep
<1>6. \A i \in Drawn(s) : i \in Ids /\ (call[s].op = "retry" => i = call[s].named)
  BY <1>1 DEF CallOK, PhaseOK, Drawn
<1> QED BY <1>2, <1>3, <1>4, <1>5, <1>6 DEF Store

LEMMA DeliverStep == ASSUME Inv, NEW s \in Services, Deliver(s) PROVE Inv'
<1> USE DEF Inv, TypeOK
<1>1. /\ call[s] \in Calling /\ CallOK(call[s]) /\ call[s].phase = "delivering"
      /\ service[s].made /\ UNCHANGED <<status, owner>>
  BY DEF Deliver, CallInv, OwnerInv
<1>2. CASE Sends(s)
  <2> DEFINE c == [call[s] EXCEPT !.phase = "answered", !.answer = "OK", !.sent = call[s].job]
  <2>1. call' = [call EXCEPT ![s] = c] /\ service' = [service EXCEPT ![s].deliveries = @ + 1]
    BY <1>2 DEF Deliver
  <2>2. c \in Calling /\ c.phase = "answered"
    BY <1>1 DEF Calling, AllAnswers
  <2>3. CallOK(c)
    BY <1>1 DEF CallOK, PhaseOK, AnswerOK, RetryOK, Calling
  <2>4. call' \in [Services -> Calling] /\ CallInv'
    BY <2>1, <2>2, <2>3, OneCall
  <2>5. service' \in [Services -> [made : BOOLEAN, violated : BOOLEAN, closed : BOOLEAN,
                                   deliveries : Nat]]
    BY <2>1
  <2>6. \A t \in Services : /\ service'[t].made = service[t].made
                            /\ service'[t].violated = service[t].violated
                            /\ service'[t].closed = service[t].closed
    BY <2>1
  <2>7. \A t \in Services : call'[t] = IF t = s THEN c ELSE call[t]
    BY <2>1
  <2> HIDE DEF c
  <2>8. OwnerInv'
    BY <1>1, <2>2, <2>6, <2>7 DEF OwnerInv, Holds
  <2> QED BY <1>1, <2>4, <2>5, <2>8
<1>3. CASE ~Sends(s)
  <2> DEFINE c == [call[s] EXCEPT !.phase = "answered", !.answer = "QUEUE_DELIVERY_FAILED"]
  <2>1. call' = [call EXCEPT ![s] = c] /\ UNCHANGED service
    BY <1>3 DEF Deliver, Answers
  <2>2. c \in Calling /\ c.phase = "answered"
    BY <1>1 DEF Calling, AllAnswers
  <2>3. CallOK(c)
    BY <1>1 DEF CallOK, PhaseOK, AnswerOK, RetryOK, Calling
  <2> HIDE DEF c
  <2> QED BY <1>1, <2>1, <2>2, <2>3, CallStep
<1> QED BY <1>2, <1>3

LEMMA ReplyStep == ASSUME Inv, NEW s \in Services, Reply(s) PROVE Inv'
<1> USE DEF Inv, TypeOK
<1>0. UNCHANGED <<status, owner, service>>
  BY DEF Reply
<1>1. call[s] \in Calling /\ CallOK(call[s]) /\ call[s].phase = "answered" /\ service[s].made
  BY DEF Reply, CallInv, OwnerInv
<1> DEFINE answer == WriteJobError(s)
           c == [call[s] EXCEPT !.phase = "replied", !.answer = answer]
<1>2. /\ answer \in AllAnswers
      /\ \/ answer = call[s].answer /\ answer # "STORE_ERROR"
         \/ answer = "INTERNAL_ERROR" /\ call[s].answer \notin {"OK", "QUEUE_DELIVERY_FAILED"}
  BY <1>1 DEF WriteJobError, AllAnswers, Calling
<1>3. call' = [call EXCEPT ![s] = c]
  BY DEF Reply, Replies
<1> HIDE DEF answer
<1>4. c \in Calling /\ c.phase = "replied"
  BY <1>1, <1>2 DEF Calling
<1>5. CallOK(c)
  BY <1>1, <1>2 DEF CallOK, PhaseOK, AnswerOK, RetryOK, Calling
<1> HIDE DEF c
<1> QED BY <1>0, <1>1, <1>3, <1>4, <1>5, CallStep

LEMMA IdleType == Idle \in Calling /\ Idle.phase = "idle" /\ CallOK(Idle)
BY DEF Idle, Calling, Names, AllAnswers, CallOK, PhaseOK, AnswerOK, RetryOK

LEMMA DoneStep == ASSUME Inv, NEW s \in Services, Done(s) PROVE Inv'
BY IdleType, CallStep DEF Done, Inv, TypeOK

------------------------------------------------------------------------------
(***************************************************************************)
(* The services, and the others on the channel.                            *)
(***************************************************************************)
LEMMA InitInv == Init => Inv
<1> SUFFICES ASSUME Init PROVE Inv
  OBVIOUS
<1>1. call \in [Services -> Calling] /\ \A s \in Services : call[s] = Idle
  BY IdleType DEF Init
<1>2. TypeOK
  BY <1>1 DEF Init, TypeOK
<1>3. CallInv
  BY <1>1, IdleType DEF CallInv
<1>4. OwnerInv
  BY <1>1, IdleType DEF Init, OwnerInv, Holds
<1> QED BY <1>2, <1>3, <1>4 DEF Inv

LEMMA ServiceStep ==
  ASSUME Inv, NEW s \in Services, NewService(s) \/ Close(s)
  PROVE  Inv'
<1> USE DEF Inv, TypeOK
<1>1. UNCHANGED <<status, call>> /\ CallInv'
  BY DEF NewService, Close, CallInv
<1>2. CASE NewService(s)
  <2>1. service' = [service EXCEPT ![s].made = TRUE, ![s].violated = (owner # Nobody)]
    BY <1>2 DEF NewService
  <2>2. TypeOK'
    BY <1>1, <2>1
  <2>3. \A t \in Services \ {s} : service'[t] = service[t]
    BY <2>1
  <2>4. service'[s].made /\ (service'[s].violated = (owner # Nobody))
          /\ service'[s].closed = service[s].closed
    BY <2>1
  <2>5. call[s].phase = "idle"
    BY <1>2 DEF NewService, OwnerInv, Calling
  <2>6. s # Nobody /\ \A t \in Services : t # Nobody
    BY OwnershipAssumption
  <2>7. ~Holds(s)
    BY <2>5 DEF Holds
  <2>8. owner' = IF owner = Nobody THEN s ELSE owner
    BY <1>2 DEF NewService
  <2>9. \A t \in Services : Holds(t)' = Holds(t) /\ call'[t] = call[t]
    BY <1>1 DEF Holds
  <2>10. OwnerInv'
    <3> SUFFICES ASSUME NEW t \in Services
                 PROVE  /\ service'[t].made /\ ~service'[t].violated /\ ~service'[t].closed => owner' = t
                        /\ call'[t].phase # "idle" => service'[t].made
                        /\ Holds(t)' /\ ~call'[t].violation => ~service'[t].violated
                        /\ Holds(t)' => ~service'[t].closed
      BY DEF OwnerInv
    <3>1. CASE t = s
      BY <2>4, <2>5, <2>7, <2>8, <2>9, <3>1
    <3>2. CASE t # s
      BY <2>3, <2>6, <2>8, <2>9, <3>2 DEF OwnerInv
    <3> QED BY <3>1, <3>2
  <2> QED BY <1>1, <2>2, <2>10
<1>3. CASE Close(s)
  <2>1. service' = [service EXCEPT ![s].closed = TRUE] /\ ~Holds(s)
    BY <1>3 DEF Close
  <2>2. TypeOK'
    BY <1>1, <2>1
  <2>3. \A t \in Services \ {s} : service'[t] = service[t]
    BY <2>1
  <2>4. /\ service'[s].made = service[s].made /\ service'[s].violated = service[s].violated
        /\ service'[s].closed
    BY <2>1
  <2>5. owner' = IF owner = s THEN Nobody ELSE owner
    BY <1>3 DEF Close, Released
  <2>6. \A t \in Services : Holds(t)' = Holds(t) /\ call'[t] = call[t]
    BY <1>1 DEF Holds
  <2>7. OwnerInv'
    <3> SUFFICES ASSUME NEW t \in Services
                 PROVE  /\ service'[t].made /\ ~service'[t].violated /\ ~service'[t].closed => owner' = t
                        /\ call'[t].phase # "idle" => service'[t].made
                        /\ Holds(t)' /\ ~call'[t].violation => ~service'[t].violated
                        /\ Holds(t)' => ~service'[t].closed
      BY DEF OwnerInv
    <3>1. CASE t = s
      BY <2>1, <2>4, <2>6, <3>1 DEF OwnerInv
    <3>2. CASE t # s
      BY <2>3, <2>5, <2>6, <3>2 DEF OwnerInv
    <3> QED BY <3>1, <3>2
  <2> QED BY <1>1, <2>2, <2>7
<1> QED BY <1>2, <1>3

LEMMA OthersStep ==
  ASSUME Inv, UNCHANGED <<owner, service, call>>,
         status' \in [Ids -> {"absent", "queued", "failed", "settled"}]
  PROVE  Inv'
BY DEF Inv, TypeOK, CallInv, OwnerInv, Holds

LEMMA InvStep == Inv /\ [Next]_vars => Inv'
<1> SUFFICES ASSUME Inv, [Next]_vars PROVE Inv'
  OBVIOUS
<1>1. ASSUME Receive \/ Interfere \/ UNCHANGED vars PROVE Inv'
  <2>1. status' \in [Ids -> {"absent", "queued", "failed", "settled"}]
    BY <1>1 DEF Receive, Interfere, vars, Inv, TypeOK
  <2> QED BY <1>1, <2>1, OthersStep DEF Receive, Interfere, vars
<1>2. Routers \subseteq Services
  BY RoutersAssumption
<1> QED BY <1>1, <1>2, RequestStep, EnterStep, StoreStep, DeliverStep, ReplyStep, DoneStep, ServiceStep
        DEF Next

LEMMA Invariant == Spec => []Inv
BY InitInv, InvStep, PTL DEF Spec
------------------------------------------------------------------------------
\* Every answer says what was done, whoever interferes with the channel.
THEOREM AnswersAreTrue == Spec => []AnswerIsTrue
<1>1. Inv => AnswerIsTrue
  BY DEF Inv, CallInv, CallOK, PhaseOK, AnswerOK, RetryOK, AnswerIsTrue
<1> QED BY <1>1, Invariant, PTL

\* No service sends to a channel that another one owns.
THEOREM OwnerSends == Spec => OnlyOwnerSends
<1>1. Inv /\ [Next]_vars
        => [\A s \in Services : service'[s].deliveries # service[s].deliveries => owner = s]_vars
  <2> SUFFICES ASSUME Inv, Next, NEW s \in Services, service'[s].deliveries # service[s].deliveries
               PROVE  owner = s
    BY DEF vars
  <2> USE DEF Inv, TypeOK
  <2>1. PICK t \in Services : Deliver(t) /\ Sends(t)
    <3>1. \A t \in Services : NewService(t) => service'[s].deliveries = service[s].deliveries
      BY DEF NewService
    <3>2. \A t \in Services : Close(t) => service'[s].deliveries = service[s].deliveries
      BY DEF Close
    <3>3. \A t : \A method, path : Request(t, method, path) => UNCHANGED service
      BY DEF Request
    <3>4. \A t : Enter(t) \/ Store(t) \/ Reply(t) \/ Done(t) => UNCHANGED service
      BY DEF Enter, Store, Reply, Done
    <3>5. \A t : Deliver(t) /\ ~Sends(t) => UNCHANGED service
      BY DEF Deliver
    <3>6. Receive \/ Interfere => UNCHANGED service
      BY DEF Receive, Interfere
    <3> QED BY <3>1, <3>2, <3>3, <3>4, <3>5, <3>6, RoutersAssumption DEF Next
  <2>2. t = s
    BY <2>1 DEF Deliver
  <2> QED BY <2>1, <2>2 DEF OwnerInv, Deliver, Sends, Holds
<1> QED BY <1>1, Invariant, PTL DEF Spec, OnlyOwnerSends
------------------------------------------------------------------------------
(***************************************************************************)
(* What is admitted prints what was sent.                                  *)
(***************************************************************************)
IsText(text) == \E core, blanks : text = [core |-> core, blanks |-> blanks]

LEMMA TrimKeepsCore == ASSUME NEW text, IsText(text) PROVE Trim(text).core = text.core
BY DEF Trim, IsText

LEMMA DisplayTrimmed ==
  ASSUME NEW text, IsText(text) PROVE Display(Trim(text)) = Display(text)
<1>1. Trim(text).core = text.core
  BY TrimKeepsCore
<1> QED BY <1>1, Zenon DEF Display, Blank

LEMMA AreTexts == ASSUME NEW cores, NEW text \in Texts(cores) PROVE IsText(text)
BY DEF Texts, IsText

LEMMA FieldTexts ==
  ASSUME NEW D, NEW cores, NEW field \in [D -> Texts(cores)], NEW f \in DOMAIN field
  PROVE  IsText(field[f])
BY AreTexts

\* The fields of a payload hold texts, and so does what is not there.
LEMMA PayloadTexts ==
  ASSUME NEW payload \in Payloads, payload.shape = "object",
         NEW f \in DOMAIN payload.field
  PROVE  IsText(payload.field[f])
<1> DEFINE field == payload.field
<1>1. ASSUME field \in [SourceFields \cup BalloonFields -> {[core |-> "go", blanks |-> 0]}]
      PROVE  IsText(field[f])
  <2>1. field[f] = [core |-> "go", blanks |-> 0]
    BY <1>1
  <2> QED BY <2>1, Zenon DEF IsText
<1>2. payload \in [shape : {"object"},
   field : UNION {
     [{"team_name", "problem_id"} -> Texts({"", "text"})],
     [BalloonFields -> Texts({"", "text", "time"})],
     [{"language", "source_code"} -> Texts({"", "go", "text", "five", "most"})],
     [SourceFields -> Texts({"", "go", "five"})],
     [SourceFields \cup BalloonFields -> {[core |-> "go", blanks |-> 0]}]}]
  <2>1. ASSUME NEW F, payload \in [shape : {"nothing", "no object", "two values"}, field : F] PROVE FALSE
    BY <2>1
  <2> QED BY <2>1, Zenon DEF Payloads
<1>3. ASSUME NEW F, payload \in [shape : {"object"}, field : F] PROVE field \in F
  BY <1>3
<1>4. field \in UNION {
     [{"team_name", "problem_id"} -> Texts({"", "text"})],
     [BalloonFields -> Texts({"", "text", "time"})],
     [{"language", "source_code"} -> Texts({"", "go", "text", "five", "most"})],
     [SourceFields -> Texts({"", "go", "five"})],
     [SourceFields \cup BalloonFields -> {[core |-> "go", blanks |-> 0]}]}
  BY <1>2, <1>3, Zenon
<1> HIDE DEF field
<1>5. \/ field \in [{"team_name", "problem_id"} -> Texts({"", "text"})]
      \/ field \in [BalloonFields -> Texts({"", "text", "time"})]
      \/ field \in [{"language", "source_code"} -> Texts({"", "go", "text", "five", "most"})]
      \/ field \in [SourceFields -> Texts({"", "go", "five"})]
      \/ field \in [SourceFields \cup BalloonFields -> {[core |-> "go", blanks |-> 0]}]
  BY <1>4, Zenon
<1>6. f \in DOMAIN field
  BY DEF field
<1>7. IsText(field[f])
  BY <1>1, <1>5, <1>6, FieldTexts, Zenon
<1> QED BY <1>7 DEF field

LEMMA DecodedTexts ==
  ASSUME NEW payload \in Payloads, payload.shape = "object", NEW fields, NEW f \in fields
  PROVE  IsText(Decoded(payload, fields)[f])
<1>1. IsText(NoText)
  BY Zenon DEF IsText, NoText
<1>2. Decoded(payload, fields)[f] = IF f \in DOMAIN payload.field THEN payload.field[f] ELSE NoText
  BY DEF Decoded
<1> QED BY <1>1, <1>2, PayloadTexts

\* What was kept is decoded as it was kept.
LEMMA DecodedKept ==
  ASSUME NEW fields, NEW field, DOMAIN field = fields
  PROVE  /\ DecodesRender(Encoded(field), fields)
         /\ \A f \in fields : Decoded(Encoded(field), fields)[f] = field[f]
BY DEF DecodesRender, Decoded, Encoded

LEMMA BalloonIsFaithful ==
  ASSUME NEW request \in Requests, request.type.core = "balloon_ticket",
         BalloonAdmitted(request.payload)
  PROVE  Faithful(Kept(request), request)
<1> DEFINE payload == request.payload
           field == NormalBalloon(payload)
           kept == Kept(request)
           sent == Decoded(payload, BalloonFields)
<1>1. payload \in Payloads /\ payload.shape = "object"
  BY DEF Requests, BalloonAdmitted, Decodes
<1>2. kept.type = "balloon_ticket" /\ kept.payload = Encoded(field)
  BY DEF Kept
<1>3. DOMAIN field = BalloonFields /\ \A f \in BalloonFields : field[f] = Trim(sent[f])
  BY DEF NormalBalloon
<1>4. /\ DecodesRender(kept.payload, BalloonFields)
      /\ \A f \in BalloonFields : Decoded(kept.payload, BalloonFields)[f] = field[f]
  BY <1>2, <1>3, DecodedKept
<1>5. Renders(kept)
  BY <1>2, <1>4 DEF Renders
<1>6. Document(kept).shown = [f \in BalloonFields |-> Display(Decoded(kept.payload, BalloonFields)[f])]
  BY <1>2 DEF Document
<1>7. \A f \in BalloonFields : Sent(request, f) = sent[f]
  BY DEF Sent, Decoded
<1>8. \A f \in BalloonFields : Display(field[f]) = Display(sent[f])
  BY <1>1, <1>3, DecodedTexts, DisplayTrimmed
<1>9. \A f \in DOMAIN Document(kept).shown : Document(kept).shown[f] = Display(Sent(request, f))
  BY <1>4, <1>6, <1>7, <1>8
<1> QED BY <1>2, <1>5, <1>9 DEF Faithful

LEMMA SourceIsFaithful ==
  ASSUME NEW request \in Requests, request.type.core = "source_code",
         SourceAdmitted(request.payload)
  PROVE  Faithful(Kept(request), request)
<1> DEFINE payload == request.payload
           field == NormalSource(payload)
           kept == Kept(request)
           sent == Decoded(payload, SourceFields)
<1>1. payload \in Payloads /\ payload.shape = "object"
  BY DEF Requests, SourceAdmitted, Decodes
<1>2. kept.type = "source_code" /\ kept.payload = Encoded(field)
  BY DEF Kept
<1>3. /\ DOMAIN field = SourceFields
      /\ field["source_code"] = sent["source_code"]
      /\ field["room"] = Trim(sent["room"])
  BY DEF NormalSource, SourceFields
<1>4. {"language", "source_code", "room"} = SourceFields
  BY DEF SourceFields
<1>5. /\ DecodesRender(kept.payload, SourceFields)
      /\ \A f \in SourceFields : Decoded(kept.payload, SourceFields)[f] = field[f]
  BY <1>2, <1>3, DecodedKept
<1>6. field["language"].core \in Lexers
  BY DEF SourceAdmitted, Languages, Lexers
<1>7. Renders(kept)
  BY <1>2, <1>4, <1>5, <1>6 DEF Renders
<1>8. /\ Document(kept).shown = [room |-> Display(Decoded(kept.payload, SourceFields)["room"])]
      /\ Document(kept).source = Decoded(kept.payload, SourceFields)["source_code"]
  BY <1>2 DEF Document
<1>9. \A f \in SourceFields : Sent(request, f) = sent[f]
  BY DEF Sent, Decoded
<1>10. Display(field["room"]) = Display(sent["room"])
  BY <1>1, <1>3, <1>4, DecodedTexts, DisplayTrimmed
<1>11. \A f \in DOMAIN Document(kept).shown : Document(kept).shown[f] = Display(Sent(request, f))
  BY <1>4, <1>5, <1>8, <1>9, <1>10
<1>12. Document(kept).source = Sent(request, "source_code")
  BY <1>3, <1>4, <1>5, <1>8, <1>9
<1> QED BY <1>7, <1>11, <1>12 DEF Faithful

\* Every request that is admitted gives a job that renders, and a document that shows
\* what was sent.
THEOREM AdmissionFaithful == AdmissionIsFaithful
<1> SUFFICES ASSUME NEW request \in Requests, Admitted(request)
             PROVE  Faithful(Kept(request), request)
  BY DEF AdmissionIsFaithful
<1>1. \/ request.type.core = "balloon_ticket" /\ BalloonAdmitted(request.payload)
      \/ request.type.core = "source_code" /\ SourceAdmitted(request.payload)
  BY Zenon DEF Admitted
<1> QED BY <1>1, BalloonIsFaithful, SourceIsFaithful

THEOREM AdmittedJobsPrint == Spec => []AdmittedPrints
<1>1. AdmittedPrints
  BY AdmissionFaithful DEF AdmittedPrints
<1> QED BY <1>1, PTL
==============================================================================
