--------------------------- MODULE QueueOwnership ---------------------------
(***************************************************************************)
(* The contract of jobs.NewService, below the assembled program: several   *)
(* services may be made on one channel, and others may send, receive and   *)
(* close it.  The first service to register owns the channel; one that is  *)
(* not the owner, or that finds more IDs in the channel than it has sent,  *)
(* still records jobs but reports that they were not delivered.            *)
(*                                                                         *)
(* Each service has a mutex, held from the checks of Create and Retry to   *)
(* the delivery; the mutexes of two services do not exclude one another.   *)
(* The store keeps the jobs in memory and in its file.  A write that       *)
(* reports an error leaves the memory as it was, but may have put the new  *)
(* record into the file all the same, where the next start finds it.       *)
(***************************************************************************)
EXTENDS Naturals, Sequences

CONSTANTS
  Services, Ids,
  Nobody,         \* not a service, not an ID
  Capacity,       \* QueueCapacity, 100 in the program
  MaxCollisions,  \* maxIDGenerationAttempts, 8 in the program
  MaxDeliveries   \* bound: what one service sends

ASSUME OwnershipAssumption ==
  /\ Nobody \notin Services \cup Ids
  /\ Capacity \in Nat \ {0} /\ MaxCollisions \in Nat \ {0} /\ MaxDeliveries \in Nat

VARIABLES
  status,   \* the store's memory: each job's status, the settled ones but "failed" in one
  channel,  \* the IDs in the channel
  open,     \* whether the channel is open
  owner,    \* queueRegistry: who owns the channel
  service,  \* each service
  call      \* what each service does for a client; history: the job the client meant,
            \* the job whose record its write has put into the file, the job written
            \* (file and memory) and the job sent so far
vars == <<status, channel, open, owner, service, call>>

Idle == [phase |-> "idle", op |-> "none", named |-> Nobody, job |-> Nobody,
         tries |-> 0, violation |-> FALSE, answer |-> "none",
         meant |-> Nobody, filed |-> Nobody, wrote |-> Nobody, sent |-> Nobody]

Init ==
  /\ status \in [Ids -> {"absent", "failed"}]
  /\ channel = <<>> /\ open = TRUE
  /\ owner = Nobody
  /\ service = [s \in Services |->
                  [made |-> FALSE, violated |-> FALSE, closed |-> FALSE, deliveries |-> 0]]
  /\ call = [s \in Services |-> Idle]

Exists(i) == i \in Ids /\ status[i] # "absent"

\* A call that has the mutex.
Holds(s) == call[s].phase \in {"storing", "delivering"}

QueueFull == Len(channel) >= Capacity
Interfered(s) == service[s].violated \/ Len(channel) > service[s].deliveries

\* The call returns an answer.
Answers(s, answer) == call' = [call EXCEPT ![s].phase = "answered", ![s].answer = answer]

\* NewServiceWithIDGenerator.
NewService(s) ==
  /\ ~service[s].made
  /\ service' = [service EXCEPT ![s].made = TRUE, ![s].violated = (owner # Nobody)]
  /\ owner' = IF owner = Nobody THEN s ELSE owner
  /\ UNCHANGED <<status, channel, open, call>>

\* A plausible slip: the registration is deleted whoever holds it.
BugReleased(s) == Nobody

\* The registration after a service is closed.
Released(s) == IF owner = s THEN Nobody ELSE owner

\* Close, which waits for the mutex.
Close(s) ==
  /\ service[s].made /\ ~service[s].closed /\ ~Holds(s)
  /\ service' = [service EXCEPT ![s].closed = TRUE]
  /\ owner' = Released(s)
  /\ UNCHANGED <<status, channel, open, call>>

\* What Create and Retry check before they write: the answer if they refuse.
Refusal(s) ==
  IF service[s].closed THEN "QUEUE_DELIVERY_FAILED"
  ELSE IF call[s].op = "retry" /\ ~Exists(call[s].named) THEN "NOT_FOUND"
  ELSE IF call[s].op = "retry" /\ status[call[s].named] # "failed" THEN "RETRY_NOT_ALLOWED"
  ELSE IF QueueFull /\ ~Interfered(s) THEN "QUEUE_FULL"
  ELSE "none"

\* Create and Retry up to the write, in one step of the mutex; or the context is over.
Enter(s) ==
  /\ call[s].phase = "entering"
  /\ \/ Refusal(s) # "none" /\ Answers(s, Refusal(s))
     \/ Answers(s, "CONTEXT_CANCELED")
     \/ /\ Refusal(s) = "none" /\ service[s].deliveries < MaxDeliveries
        /\ call' = [call EXCEPT ![s].phase = "storing", ![s].violation = Interfered(s)]
  /\ UNCHANGED <<status, channel, open, owner, service>>

\* The jobs the write may be about: the one named, or a new one under an ID drawn.
Drawn(s) == IF call[s].op = "retry" THEN {call[s].named} ELSE Ids
Taken(s, i) == call[s].op = "create" /\ status[i] # "absent"

\* The write, and the next ID if the one drawn is taken.  It may report an error with
\* the new file in place, when the clean-up behind the rename fails, or with the old one.
Store(s) ==
  /\ call[s].phase = "storing"
  /\ \/ \E i \in Drawn(s) :
          \/ /\ Taken(s, i)
             /\ IF call[s].tries + 1 < MaxCollisions
                THEN call' = [call EXCEPT ![s].tries = @ + 1]
                ELSE Answers(s, "STORE_ERROR")
             /\ UNCHANGED status
          \/ /\ ~Taken(s, i)
             /\ status' = [status EXCEPT ![i] = "queued"]
             /\ call' = [call EXCEPT ![s].phase = "delivering", ![s].job = i,
                                     ![s].filed = i, ![s].wrote = i]
          \/ /\ ~Taken(s, i)
             /\ call' = [call EXCEPT ![s].phase = "answered", ![s].answer = "STORE_ERROR",
                                     ![s].filed = i]
             /\ UNCHANGED status
     \/ Answers(s, "STORE_ERROR") /\ UNCHANGED status
  /\ UNCHANGED <<channel, open, owner, service>>

\* deliver and trySend: a closed or full channel takes nothing.
Sends(s) == ~call[s].violation /\ open /\ ~QueueFull

Deliver(s) ==
  /\ call[s].phase = "delivering"
  /\ IF Sends(s)
     THEN /\ channel' = Append(channel, call[s].job)
          /\ service' = [service EXCEPT ![s].deliveries = @ + 1]
          /\ call' = [call EXCEPT ![s].phase = "answered", ![s].answer = "OK",
                                  ![s].sent = call[s].job]
     ELSE Answers(s, "QUEUE_DELIVERY_FAILED") /\ UNCHANGED <<channel, service>>
  /\ UNCHANGED <<status, open, owner>>

------------------------------------------------------------------------------
\* The receiver settles the job, if it waits.
Receive ==
  /\ channel # <<>>
  /\ channel' = Tail(channel)
  /\ IF status[Head(channel)] = "queued"
     THEN \E outcome \in {"failed", "settled"} :
            status' = [status EXCEPT ![Head(channel)] = outcome]
     ELSE UNCHANGED status
  /\ UNCHANGED <<open, owner, service, call>>

\* Others send an ID, take one away, or close the channel.
Interfere ==
  /\ \/ open /\ ~QueueFull /\ UNCHANGED open /\ \E i \in Ids : channel' = Append(channel, i)
     \/ channel # <<>> /\ channel' = Tail(channel) /\ UNCHANGED open
     \/ open /\ open' = FALSE /\ UNCHANGED channel
  /\ UNCHANGED <<status, owner, service, call>>

\* Only the service that owns the channel sends to it, hence never two of them: one made
\* while another held the channel stays without it when that one is closed, and closing
\* it takes the channel from nobody (service.go:62-67, 73-88, 246-255).
OnlyOwnerSends ==
  [][\A s \in Services : service'[s].deliveries # service[s].deliveries => owner = s]_vars
==============================================================================
