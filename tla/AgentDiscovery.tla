--------------------------- MODULE AgentDiscovery ---------------------------
(***************************************************************************)
(* How a console page finds the agent it belongs to.  A launch listens on  *)
(* the first candidate port it can have (server/listen.go); a page opened  *)
(* from a file asks the candidate ports one after another and may read     *)
(* only answers that name its origin, which a launch gives to the token it *)
(* has drawn (httpapi/router.go); a page the agent has served asks where   *)
(* it came from (web/app.js).  Meanwhile launches start and stop, those of *)
(* other directories included, and other programs take and leave ports.    *)
(*                                                                         *)
(* Tokens are drawn at random: each launch is its own token.               *)
(***************************************************************************)
EXTENDS Naturals

CONSTANTS
  Launches,  \* bound: how often agents are started
  FirstPort, LastPort,
  Nobody     \* not a launch: no listener, or no token

CandidatePorts == FirstPort .. LastPort

\* A plausible slip: the page's loop stops one port early.
BugProbedPorts == FirstPort .. LastPort - 1

\* The ports of app.js, written out there a second time.
ProbedPorts == FirstPort .. LastPort

Other == "other program"

ASSUME DiscoveryAssumption ==
  /\ FirstPort \in Nat /\ LastPort \in Nat /\ FirstPort <= LastPort
  /\ {Nobody, Other} \cap Launches = {}

VARIABLES
  owner,   \* who listens on each port
  launch,  \* each launch: its phase, and the port its search has come to
  page,    \* the page: how it was opened, its token, its phase, and the port it asks
  read,    \* history: the launches whose answers the page has read
  missed   \* history: the page's launch was not listening at some time of the search,
           \* or did not answer in time
vars == <<owner, launch, page, read, missed>>

Listening(l) == \E p \in CandidatePorts : owner[p] = l

Init ==
  /\ owner \in [CandidatePorts -> {Nobody, Other}]
  /\ launch = [l \in Launches |-> [phase |-> "off", port |-> FirstPort]]
  /\ page = [kind |-> "file", token |-> Nobody, phase |-> "closed", port |-> FirstPort]
  /\ read = {}
  /\ missed = FALSE

------------------------------------------------------------------------------
\* startWithBuilder: the token is drawn, then the search begins.
Start(l) ==
  /\ launch[l].phase = "off"
  /\ launch' = [launch EXCEPT ![l].phase = "searching"]
  /\ UNCHANGED <<owner, page, read, missed>>

\* ListenFirstAvailable, one candidate.
Listen(l) ==
  /\ launch[l].phase = "searching" /\ launch[l].port \in CandidatePorts
  /\ IF owner[launch[l].port] = Nobody
     THEN /\ owner' = [owner EXCEPT ![launch[l].port] = l]
          /\ launch' = [launch EXCEPT ![l].phase = "listening"]
     ELSE /\ launch' = [launch EXCEPT ![l].port = @ + 1]
          /\ UNCHANGED owner
  /\ UNCHANGED <<page, read, missed>>

\* No candidate was available: the start fails.
NoPort(l) ==
  /\ launch[l].phase = "searching" /\ launch[l].port \notin CandidatePorts
  /\ launch' = [launch EXCEPT ![l].phase = "over"]
  /\ UNCHANGED <<owner, page, read, missed>>

\* The launch is stopped or dies.  A page that looks for it can miss it from now on.
Stop(l) ==
  /\ launch[l].phase \in {"searching", "listening"}
  /\ launch' = [launch EXCEPT ![l].phase = "over"]
  /\ owner' = [p \in CandidatePorts |-> IF owner[p] = l THEN Nobody ELSE owner[p]]
  /\ missed' = (missed \/ (page.token = l /\ page.phase = "looking"))
  /\ UNCHANGED <<page, read>>

\* Another program takes a port, or leaves it.
OtherProgram(p) ==
  /\ \/ owner[p] = Nobody /\ owner' = [owner EXCEPT ![p] = Other]
     \/ owner[p] = Other /\ owner' = [owner EXCEPT ![p] = Nobody]
  /\ UNCHANGED <<launch, page, read, missed>>

------------------------------------------------------------------------------
\* A plausible slip: any token will do.
BugEqualFileOriginToken(expected, provided) == provided # Nobody

\* equalFileOriginToken; a launch always has a token.
EqualFileOriginToken(expected, provided) == provided = expected

\* Whether the page may read what launch l answers: an answer from its own origin, or
\* one with the headers of corsForFileOrigin.
MayRead(l) == page.kind = "served" \/ EqualFileOriginToken(l, page.token)

\* The page is opened from the file, with the token printed by a launch that may be
\* over by now, or without; or it is loaded from a launch that listens.
Open ==
  /\ page.phase = "closed"
  /\ \/ \E token \in Launches \cup {Nobody} :
          /\ token # Nobody => launch[token].phase \in {"listening", "over"}
          /\ page' = [page EXCEPT !.token = token, !.phase = "looking"]
          /\ missed' = (token = Nobody \/ ~Listening(token))
     \/ \E p \in CandidatePorts :
          /\ owner[p] \in Launches
          /\ page' = [page EXCEPT !.kind = "served", !.phase = "looking", !.port = p]
          /\ UNCHANGED missed
  /\ UNCHANGED <<owner, launch, read>>

\* discoverOrigin goes on after a probe that failed.
NextPort ==
  page' = IF page.kind = "file" /\ page.port + 1 \in ProbedPorts
          THEN [page EXCEPT !.port = @ + 1]
          ELSE [page EXCEPT !.phase = "unconnected"]

\* health: an agent's answer that the page may read ends the search; any other answer,
\* or none because nobody listens, does not.
Probe ==
  /\ page.phase = "looking"
  /\ IF owner[page.port] \in Launches /\ MayRead(owner[page.port])
     THEN /\ page' = [page EXCEPT !.phase = "connected"]
          /\ read' = read \cup {owner[page.port]}
     ELSE NextPort /\ UNCHANGED read
  /\ UNCHANGED <<owner, launch, missed>>

\* A plausible slip: the probe waits until it is answered.
BugAbort == FALSE

\* health: after a second without an answer the probe is given up.
Abort ==
  /\ page.phase = "looking"
  /\ owner[page.port] # Nobody
  /\ NextPort
  /\ missed' = (missed \/ owner[page.port] = page.token)
  /\ UNCHANGED <<owner, launch, read>>

\* fetchJSON: a page from a file asks first whether its header may be sent; whoever
\* listens then answers, and whoever listens a step later gets the request.
Ask ==
  /\ page.phase = "connected" /\ owner[page.port] \in Launches /\ MayRead(owner[page.port])
  /\ page' = [page EXCEPT !.phase = "asked"]
  /\ UNCHANGED <<owner, launch, read, missed>>

Fetch ==
  /\ page.phase = "asked"
  /\ page' = [page EXCEPT !.phase = "connected"]
  /\ read' = read \cup ({owner[page.port]} \cap {l \in Launches : MayRead(l)})
  /\ UNCHANGED <<owner, launch, missed>>

------------------------------------------------------------------------------
Next ==
  \/ \E l \in Launches : Start(l) \/ Listen(l) \/ NoPort(l) \/ Stop(l)
  \/ \E p \in CandidatePorts : OtherProgram(p)
  \/ Open \/ Probe \/ Abort \/ Ask \/ Fetch

\* A port nobody listens on refuses, and the browser's timer fires.  Nothing is assumed
\* of who listens: a program may accept connections and never answer.
Spec ==
  /\ Init /\ [][Next]_vars
  /\ WF_vars(Abort \/ (Probe /\ owner[page.port] = Nobody))
------------------------------------------------------------------------------
\* A page from a file reads only the launch whose token it has, whatever other agents
\* and later launches come to listen on the ports it asks (router.go:110-132).
ReadsItsLaunch == page.kind = "file" => read \subseteq {page.token}

\* A page that gives up has not overlooked its launch: that launch was not listening all
\* the while, or did not answer within the second (app.js:44-50, config.go:40-46).
FoundIfThere == (page.kind = "file" /\ page.phase = "unconnected") => missed

\* The search comes to its end, among programs that accept and never answer
\* (app.js:36-43).
SearchEnds == (page.phase = "looking") ~> (page.phase # "looking")
==============================================================================
