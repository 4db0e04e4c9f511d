------------------------ MODULE AgentDiscoveryProofs ------------------------
(***************************************************************************)
(* Proofs about AgentDiscovery, for any launches and any range of ports.   *)
(***************************************************************************)
EXTENDS AgentDiscovery, TLAPS

TypeInv ==
  /\ owner \in [CandidatePorts -> Launches \cup {Nobody, Other}]
  /\ launch \in [Launches -> [phase : {"off", "searching", "listening", "over"}, port : Nat]]
  /\ page \in [kind : {"file", "served"}, token : Launches \cup {Nobody},
               phase : {"closed", "looking", "connected", "asked", "unconnected"},
               port : CandidatePorts]
  /\ read \subseteq Launches
  /\ missed \in BOOLEAN

\* Before it is opened the page has read nothing, and begins at the first port.
ClosedInv == page.phase = "closed" => page.kind = "file" /\ page.port = FirstPort /\ read = {}

\* While the page has not missed its launch, the launch listens on a port that the
\* search has not passed.
AheadInv ==
  (page.kind = "file" /\ page.phase = "looking" /\ ~missed) =>
    /\ page.token \in Launches
    /\ \E p \in page.port .. LastPort : owner[p] = page.token

Inv == TypeInv /\ ClosedInv /\ AheadInv /\ ReadsItsLaunch /\ FoundIfThere
------------------------------------------------------------------------------
LEMMA PortsAreNumbers ==
  /\ CandidatePorts \subseteq Nat /\ FirstPort \in CandidatePorts
  /\ \A p \in CandidatePorts : p .. LastPort \subseteq CandidatePorts
BY DiscoveryAssumption DEF CandidatePorts

\* The initial states satisfy the invariant.
LEMMA InitInv == Init => Inv
<1> SUFFICES ASSUME Init PROVE Inv
  OBVIOUS
<1>1. TypeInv
  BY PortsAreNumbers, DiscoveryAssumption DEF Init, TypeInv
<1>2. ClosedInv /\ AheadInv /\ ReadsItsLaunch /\ FoundIfThere
  BY DEF Init, ClosedInv, AheadInv, ReadsItsLaunch, FoundIfThere
<1> QED BY <1>1, <1>2 DEF Inv

\* A launch that starts, listens or fails to find a port takes nobody's port.
LEMMA LaunchStep ==
  ASSUME Inv, NEW l \in Launches, Start(l) \/ Listen(l) \/ NoPort(l)
  PROVE  Inv'
<1> USE DiscoveryAssumption DEF Inv
<1>1. UNCHANGED <<page, read, missed>>
  BY DEF Start, Listen, NoPort
<1>2. /\ owner' \in [CandidatePorts -> Launches \cup {Nobody, Other}]
      /\ \A p \in CandidatePorts : owner[p] # Nobody => owner'[p] = owner[p]
  BY DEF Start, Listen, NoPort, TypeInv
<1>3. launch' \in [Launches -> [phase : {"off", "searching", "listening", "over"}, port : Nat]]
  BY DEF Start, Listen, NoPort, TypeInv
<1>4. TypeInv'
  BY <1>1, <1>2, <1>3 DEF TypeInv
<1>5. AheadInv'
  BY <1>1, <1>2, PortsAreNumbers DEF AheadInv, TypeInv
<1> QED BY <1>1, <1>4, <1>5 DEF ClosedInv, ReadsItsLaunch, FoundIfThere

\* A launch that stops is missed by a page that looks for it.
LEMMA StopStep ==
  ASSUME Inv, NEW l \in Launches, Stop(l)
  PROVE  Inv'
<1> USE DEF Inv, Stop
<1>1. TypeInv'
  BY DEF TypeInv
<1>2. AheadInv'
  <2>1. \A p \in CandidatePorts : owner[p] # l => owner'[p] = owner[p]
    OBVIOUS
  <2> QED BY <2>1, PortsAreNumbers DEF AheadInv, TypeInv
<1> QED BY <1>1, <1>2 DEF ClosedInv, ReadsItsLaunch, FoundIfThere

\* Other programs take ports that nobody has and leave their own.
LEMMA OtherStep ==
  ASSUME Inv, NEW p \in CandidatePorts, OtherProgram(p)
  PROVE  Inv'
<1> USE DiscoveryAssumption DEF Inv, OtherProgram
<1>1. TypeInv'
  BY DEF TypeInv
<1>2. AheadInv'
  <2>1. \A q \in CandidatePorts : owner[q] \in Launches => owner'[q] = owner[q]
    BY DEF TypeInv
  <2> QED BY <2>1, PortsAreNumbers DEF AheadInv, TypeInv
<1> QED BY <1>1, <1>2 DEF ClosedInv, ReadsItsLaunch, FoundIfThere

LEMMA OpenStep ==
  ASSUME Inv, Open
  PROVE  Inv'
<1> USE DiscoveryAssumption DEF Inv
<1>1. page.phase = "closed" /\ UNCHANGED <<owner, launch, read>>
      /\ page.kind = "file" /\ page.port = FirstPort /\ read = {}
  BY DEF Open, ClosedInv
<1>2. CASE \E token \in Launches \cup {Nobody} :
             /\ page' = [page EXCEPT !.token = token, !.phase = "looking"]
             /\ missed' = (token = Nobody \/ ~Listening(token))
  <2>1. TypeInv'
    BY <1>1, <1>2 DEF TypeInv
  <2>2. AheadInv'
    BY <1>1, <1>2 DEF AheadInv, TypeInv, Listening, CandidatePorts
  <2> QED BY <1>1, <1>2, <2>1, <2>2 DEF ClosedInv, ReadsItsLaunch, FoundIfThere, TypeInv
<1>3. CASE \E p \in CandidatePorts :
             /\ page' = [page EXCEPT !.kind = "served", !.phase = "looking", !.port = p]
             /\ UNCHANGED missed
  BY <1>1, <1>3 DEF TypeInv, ClosedInv, AheadInv, ReadsItsLaunch, FoundIfThere
<1> QED BY <1>2, <1>3 DEF Open

\* A probe that fails goes on to the next port.  The launch was not behind the one
\* that failed, unless it did not answer in time.
LEMMA NextPortStep ==
  ASSUME Inv, page.phase = "looking", NextPort, UNCHANGED <<owner, launch, read>>,
         missed' \in BOOLEAN, missed => missed',
         (page.kind = "file" /\ ~missed') => owner[page.port] # page.token
  PROVE  Inv'
<1> USE DiscoveryAssumption DEF Inv
<1>1. page.port \in Nat /\ page.port + 1 > page.port /\ page.port <= LastPort
  BY PortsAreNumbers DEF TypeInv, CandidatePorts
<1>2. CASE page.kind = "file" /\ page.port + 1 \in ProbedPorts
           /\ page' = [page EXCEPT !.port = @ + 1]
  <2>1. TypeInv'
    BY <1>2 DEF TypeInv, CandidatePorts, ProbedPorts
  <2>2. AheadInv'
    <3>1. SUFFICES ASSUME ~missed'
                   PROVE  page.token \in Launches
                          /\ \E p \in page.port + 1 .. LastPort : owner[p] = page.token
      BY <1>2 DEF AheadInv, TypeInv
    <3>2. page.token \in Launches /\ \E p \in page.port .. LastPort : owner[p] = page.token
      BY <1>2, <3>1 DEF AheadInv
    <3>3. PICK p \in page.port .. LastPort : owner[p] = page.token
      BY <3>2
    <3>4. p # page.port
      BY <1>2, <3>1, <3>3
    <3>5. p \in page.port + 1 .. LastPort
      BY <1>1, <3>4
    <3> QED BY <3>2, <3>3, <3>5
  <2> QED BY <1>2, <2>1, <2>2 DEF ClosedInv, ReadsItsLaunch, FoundIfThere, TypeInv
<1>3. CASE ~(page.kind = "file" /\ page.port + 1 \in ProbedPorts)
           /\ page' = [page EXCEPT !.phase = "unconnected"]
  <2>1. TypeInv'
    BY <1>3 DEF TypeInv
  <2>2. ASSUME page.kind = "file", ~missed' PROVE FALSE
    <3>1. page.port = LastPort
      BY <1>1, <1>3, <2>2, PortsAreNumbers DEF TypeInv, ProbedPorts, CandidatePorts
    <3>2. \E p \in page.port .. LastPort : owner[p] = page.token
      BY <2>2 DEF AheadInv
    <3>3. owner[page.port] = page.token
      BY <1>1, <3>1, <3>2
    <3> QED BY <2>2, <3>3
  <2> QED BY <1>3, <2>1, <2>2 DEF ClosedInv, AheadInv, ReadsItsLaunch, FoundIfThere, TypeInv
<1> QED BY <1>2, <1>3 DEF NextPort

\* A page from a file reads an answer only if it has the token of the launch.
LEMMA ProbeStep ==
  ASSUME Inv, Probe
  PROVE  Inv'
<1> USE DEF Inv
<1>1. page.phase = "looking" /\ UNCHANGED <<owner, launch, missed>> /\ missed \in BOOLEAN
  BY DEF Probe, TypeInv
<1>2. CASE owner[page.port] \in Launches /\ MayRead(owner[page.port])
           /\ page' = [page EXCEPT !.phase = "connected"]
           /\ read' = read \cup {owner[page.port]}
  BY <1>1, <1>2
     DEF TypeInv, ClosedInv, AheadInv, ReadsItsLaunch, FoundIfThere, MayRead, EqualFileOriginToken
<1>3. CASE ~(owner[page.port] \in Launches /\ MayRead(owner[page.port])) /\ NextPort /\ UNCHANGED read
  <2>1. (page.kind = "file" /\ ~missed') => owner[page.port] # page.token
    BY <1>1, <1>3 DEF AheadInv, MayRead, EqualFileOriginToken
  <2> QED BY <1>1, <1>3, <2>1, NextPortStep
<1> QED BY <1>2, <1>3 DEF Probe

LEMMA AbortStep ==
  ASSUME Inv, Abort
  PROVE  Inv'
BY NextPortStep DEF Inv, TypeInv, Abort

\* After the search the same holds of every answer.
LEMMA FetchStep ==
  ASSUME Inv, Ask \/ Fetch
  PROVE  Inv'
BY DEF Inv, Ask, Fetch, TypeInv, ClosedInv, AheadInv, ReadsItsLaunch, FoundIfThere, MayRead,
       EqualFileOriginToken

LEMMA NextInv == Inv /\ [Next]_vars => Inv'
<1> SUFFICES ASSUME Inv, [Next]_vars PROVE Inv'
  OBVIOUS
<1>1. CASE UNCHANGED vars
  BY <1>1 DEF vars, Inv, TypeInv, ClosedInv, AheadInv, ReadsItsLaunch, FoundIfThere
<1> QED BY <1>1, LaunchStep, StopStep, OtherStep, OpenStep, ProbeStep, AbortStep, FetchStep DEF Next

LEMMA Invariance == Spec => []Inv
BY InitInv, NextInv, PTL DEF Spec
------------------------------------------------------------------------------
\* A page from a file reads only the launch whose token it has, over any number of
\* launches and other programs that come and go on the ports it asks.
THEOREM OnlyItsLaunchIsRead == Spec => []ReadsItsLaunch
<1>1. Inv => ReadsItsLaunch
  BY DEF Inv
<1> QED BY <1>1, Invariance, PTL

\* A page that gives up has not overlooked its launch, whatever the range of ports.
THEOREM LaunchIsFound == Spec => []FoundIfThere
<1>1. Inv => FoundIfThere
  BY DEF Inv
<1> QED BY <1>1, Invariance, PTL
==============================================================================
