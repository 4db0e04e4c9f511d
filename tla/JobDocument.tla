----------------------------- MODULE JobDocument ----------------------------
(***************************************************************************)
(* What becomes of a request's content: jobs/validate.go admits and        *)
(* normalizes it, the store keeps it, and a renderer that trusts nothing   *)
(* (render/balloon.go, source.go, pdf.go) decodes it again and prints it.  *)
(*                                                                         *)
(* A text is a core that no trimming changes and blanks around it; a blank *)
(* text has the core "".  Of the optional fields there is one, room.       *)
(***************************************************************************)
EXTENDS Naturals

CONSTANTS MinSourceBytes, MaxSourceBytes

Texts(cores) == [core : cores, blanks : 0 .. 1]
NoText == [core |-> "", blanks |-> 0]

BalloonFields == {"team_name", "problem_id", "solved_at", "room"}
SourceFields == {"language", "source_code", "room"}

Trim(text) == [text EXCEPT !.blanks = 0]
Blank(text) == text.core = ""

\* len: the cores of the sources are "five" and "most" bytes long, the others six.
Bytes(text) == text.blanks + (CASE text.core = "" -> 0
                                [] text.core = "five" -> MinSourceBytes - 1
                                [] text.core = "most" -> MaxSourceBytes
                                [] OTHER -> MinSourceBytes)

------------------------------------------------------------------------------
\* decodePayload: one JSON object that has no other fields than the target.
Decodes(payload, fields) == payload.shape = "object" /\ DOMAIN payload.field \subseteq fields

\* decodeRenderPayload, the renderer's copy of it.
DecodesRender(payload, fields) ==
  payload.shape = "object" /\ DOMAIN payload.field \subseteq fields

\* What a decoder makes of an object it takes.  A field that is not there is empty.
Decoded(payload, fields) ==
  [f \in fields |-> IF f \in DOMAIN payload.field THEN payload.field[f] ELSE NoText]

Encoded(field) == [shape |-> "object", field |-> field]

Languages == {"cpp", "go", "python", "java"}

\* time.Parse of RFC3339; a comma before the fractional seconds is refused apart.
IsTime(text) == text.core = "time"

\* normalizeBalloonPayload: every field is trimmed.
NormalBalloon(payload) ==
  LET field == Decoded(payload, BalloonFields)
  IN  [f \in BalloonFields |-> Trim(field[f])]

BalloonAdmitted(payload) ==
  LET normal == NormalBalloon(payload)
  IN  /\ Decodes(payload, BalloonFields)
      /\ ~Blank(normal["team_name"]) /\ ~Blank(normal["problem_id"])
      /\ IsTime(normal["solved_at"])

\* A plausible slip: the source is trimmed with the rest.
BugNormalSource(payload) ==
  LET field == Decoded(payload, SourceFields)
  IN  [f \in SourceFields |-> Trim(field[f])]

\* normalizeSourceCodePayload: every field is trimmed but the source.
NormalSource(payload) ==
  LET field == Decoded(payload, SourceFields)
  IN  [f \in SourceFields |-> IF f = "source_code" THEN field[f] ELSE Trim(field[f])]

SourceAdmitted(payload) ==
  LET normal == NormalSource(payload)
  IN  /\ Decodes(payload, SourceFields)
      /\ normal["language"].core \in Languages
      /\ ~Blank(normal["source_code"])
      /\ Bytes(normal["source_code"]) \in MinSourceBytes .. MaxSourceBytes

\* NormalizeCreateRequest: whether a request is admitted, and what is kept of it.
Admitted(request) ==
  /\ ~Blank(request.printer)
  /\ CASE request.type.core = "balloon_ticket" -> BalloonAdmitted(request.payload)
       [] request.type.core = "source_code" -> SourceAdmitted(request.payload)
       [] OTHER -> FALSE

Kept(request) ==
  [type |-> request.type.core, printer |-> request.printer.core,
   payload |-> Encoded(IF request.type.core = "balloon_ticket" THEN NormalBalloon(request.payload)
                       ELSE NormalSource(request.payload))]

------------------------------------------------------------------------------
\* displayOrPlaceholder, and escape in printOptionsForJob.
Display(text) == IF Blank(text) THEN "not provided" ELSE text.core

\* highlightSource has a lexer for these.
Lexers == {"cpp", "go", "python", "java"}

\* RenderBalloonHTML and RenderSourceHTML get this far with a job.
Renders(job) ==
  CASE job.type = "balloon_ticket" -> DecodesRender(job.payload, BalloonFields)
    [] job.type = "source_code" ->
         /\ DecodesRender(job.payload, SourceFields)
         /\ Decoded(job.payload, SourceFields)["language"].core \in Lexers
    [] OTHER -> FALSE

\* The document: the fields shown, in the heading of every page too, and the source,
\* blanks included.
Document(job) ==
  IF job.type = "balloon_ticket"
  THEN LET field == Decoded(job.payload, BalloonFields)
       IN  [shown |-> [f \in BalloonFields |-> Display(field[f])], source |-> NoText]
  ELSE LET field == Decoded(job.payload, SourceFields)
       IN  [shown |-> [room |-> Display(field["room"])], source |-> field["source_code"]]

------------------------------------------------------------------------------
\* What a client can send: fields left out, unknown, blank or with blanks around them,
\* payloads that are no single object.
Payloads ==
  [shape : {"nothing", "no object", "two values"}, field : {<<>>}] \cup
  [shape : {"object"},
   field : UNION {
     [{"team_name", "problem_id"} -> Texts({"", "text"})],
     [BalloonFields -> Texts({"", "text", "time"})],
     [{"language", "source_code"} -> Texts({"", "go", "text", "five", "most"})],
     [SourceFields -> Texts({"", "go", "five"})],
     [SourceFields \cup BalloonFields -> {[core |-> "go", blanks |-> 0]}]}]

Requests ==
  [type : Texts({"", "balloon_ticket", "source_code"}), printer : Texts({"", "text"}),
   payload : Payloads]

\* What a client says of a field, if anything.
Sent(request, f) == Decoded(request.payload, BalloonFields \cup SourceFields)[f]

\* A job renders, and shows what the client sent: each field without the blanks around
\* it, and the source as it is, blanks included.
Faithful(job, request) ==
  /\ Renders(job)
  /\ \A f \in DOMAIN Document(job).shown : Document(job).shown[f] = Display(Sent(request, f))
  /\ job.type = "source_code" => Document(job).source = Sent(request, "source_code")

AdmissionIsFaithful ==
  \A request \in {r \in Requests : Admitted(r)} : Faithful(Kept(request), request)
==============================================================================
