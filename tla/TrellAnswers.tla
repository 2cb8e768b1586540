---------------------------- MODULE TrellAnswers ----------------------------
(***************************************************************************)
(* What a job answers to a message of mod_trell, and what mod_trell makes  *)
(* of the bytes of an answer.                                              *)
(***************************************************************************)
EXTENDS Integers, Sequences, FiniteSets

CONSTANTS
    KeysOf,     \* the keys of a list of viewers, as boost::split returns them
    Viewer,     \* the keys of the viewers of a job
    Header,     \* sizeof(tinia_msg_image_t)
    Matrices,   \* two matrices of sixteen floats
    JobBuffer,  \* the size of a job's message buffer
    PartBytes   \* the size of the payload in a job's segment

Pad(n) == 4 * ((n + 3) \div 4)
Colour(q) == 3 * q.width * q.height

\* The width of the depth image is taken from depth_h as well.
Depth(q) == 3 * q.depthH * q.depthH

Keys(q) == KeysOf[q.keys]

\* How far the buffer advances for a viewer, and the size that is announced.
Advance(q) ==
    IF q.format = "DEPTH" THEN Pad(Colour(q)) + Pad(Depth(q)) + Matrices
                          ELSE Pad(Colour(q))
DataSize(q) == Len(Keys(q)) * IF q.format = "DEPTH" THEN Advance(q) ELSE Colour(q)
Required(q) ==
    Len(Keys(q)) * IF q.format = "DEPTH"
                   THEN Pad(Colour(q)) + 4 * q.width * q.height + Matrices
                   ELSE Colour(q)

Error == [type |-> "ERROR"]

Image(viewer, q, edits) ==
    [viewer |-> viewer, width |-> q.width, height |-> q.height, edits |-> edits]

\* Every viewer is rendered after the other, from the model as it is: edits
\* are those that have been applied to it.  Negative sizes become huge.
GetSnapshot(q, edits) ==
    IF \/ Required(q) < 0 \/ JobBuffer <= Required(q) + Header
       \/ q.width < 1 \/ q.height < 1
       \/ \E i \in DOMAIN Keys(q) : Keys(q)[i] \notin Viewer
       \/ Len(Keys(q)) * Advance(q) > DataSize(q)
    THEN Error
    ELSE [type |-> "IMAGE", bytes |-> DataSize(q),
          images |-> [i \in DOMAIN Keys(q) |-> Image(Keys(q)[i], q, edits)]]

\* A browser that has revision r has seen r edits.
GetPolicyUpdate(q, edits, count) ==
    IF count > q.revision THEN [type |-> "XML", edits |-> edits] ELSE [type |-> "OK"]

\* XMLHandler::updateState catches what the parser throws and returns true: an
\* update is acknowledged whatever has become of its document.
UpdateState == [type |-> "OK"]

MasterRpc(wellFormed) ==
    IF wellFormed THEN [type |-> "XML", edits |-> {}] ELSE Error

Handle(q, edits, count, wellFormed) ==
    CASE q.type = "SNAPSHOT"   -> GetSnapshot(q, edits)
      [] q.type = "POLICY"     -> GetPolicyUpdate(q, edits, count)
      [] q.type = "STATE"      -> UpdateState
      [] q.type = "XML"        -> MasterRpc(wellFormed)
      [] q.type = "RENDERLIST" -> [type |-> "XML", edits |-> edits]
      [] q.type = "SCRIPT"     -> [type |-> "SCRIPT"]

\* The schema filter in front of pass_query: what it finds is overwritten by
\* the result of destroying its brigade.
ValidateXml(wellFormed) == wellFormed
FilterPasses(wellFormed) ==
    LET valid == ValidateXml(wellFormed)
        destroyed == TRUE
    IN  destroyed

-----------------------------------------------------------------------------

Empty == [kind |-> "empty"]

\* The consumers: rv is 0, -1, or positive, and what has been passed on.
PassReply(m, longpolling) ==
    CASE m.type = "OK"     -> [rv |-> IF longpolling THEN 1 ELSE 0, body |-> Empty]
      [] m.type = "XML"    -> [rv |-> 0, body |-> [kind |-> "model", edits |-> m.edits]]
      [] m.type = "SCRIPT" -> [rv |-> 0, body |-> [kind |-> "script"]]
      [] OTHER             -> [rv |-> -1, body |-> Empty]

\* An image answer takes several parts when it does not fit into the payload.
Parts(m) == (Header + m.bytes + PartBytes - 1) \div PartBytes

\* num_of_keys counts commas, strtok skips empty keys: its n-th token is the
\* n-th key that is not empty.
NumOfKeys(q) == Len(Keys(q))
Tokens(q) ==
    LET named == {i \in DOMAIN Keys(q) : Keys(q)[i] # ""}
        upTo(i) == {j \in named : j <= i}
    IN  [n \in 1 .. Cardinality(named) |->
            Keys(q)[CHOOSE i \in named : Cardinality(upTo(i)) = n]]

\* The first part of an image answer; a request that does not ask for base64
\* is answered with HTTP_INTERNAL_SERVER_ERROR, which counts as positive.
FirstPart(q, m) ==
    CASE ~q.base64 -> 500
      [] q.base64 /\ (Keys(q)[1] = "" \/ m.type # "IMAGE") -> -1
      [] OTHER -> 0

\* The sizes are variables of the call that got the last part, and only the
\* call for the first part sets them.
BytesExpected(q, m, numOfKeys) == IF Parts(m) = 1 THEN numOfKeys * Advance(q) ELSE 0

\* What sendrecv returns when the consumer has returned rv and nobody waits
\* for a notification, and the code the handlers make of it.
SendRecv(rv) == IF rv > 0 THEN 0 ELSE rv
CodeOf(rv) == CASE rv = 0 -> 200 [] rv = -1 -> 408 [] OTHER -> 500

\* The limits of a snapshot; the height has no lower one.
SizeIsRefused(d) == d.width < 1 \/ d.width > 2048 \/ d.height > 2048
=============================================================================
