------------------------------ MODULE TrellUrl ------------------------------
(***************************************************************************)
(* What mod_trell makes of the path and the arguments of a request, or the *)
(* HTTP code with which it refuses them.                                   *)
(*                                                                         *)
(* A path is the sequence of its tokens, arguments are a sequence of pairs *)
(* of a key and a text.                                                    *)
(***************************************************************************)
EXTENDS Integers, Sequences

CONSTANTS
    LegalId,    \* the tokens of letters, digits and '_' that are short enough
    TooLong,    \* the texts that are longer than the buffers for them
    NumberOf,   \* the number a text stands for, for those that are numbers
    IntMin, IntMax  \* the range of an int

OK == 200
BadRequest == 400
NotFound == 404

Components == {"mod", "master", "job"}

\* A later argument with the same key replaces an earlier one.
TokenizeArgs(args) ==
    [key \in {args[i][1] : i \in DOMAIN args} |->
        args[CHOOSE i \in DOMAIN args :
                /\ args[i][1] = key
                /\ \A j \in DOMAIN args : args[j][1] = key => j <= i][2]]

CheckId(path, i) == i \in DOMAIN path /\ path[i] \in LegalId

CheckText(form, key) ==
    key \in DOMAIN form /\ form[key] # "" /\ form[key] \notin TooLong

\* The text is read as a long and stored in an int.
Atoi(form, key) ==
    IF key \in DOMAIN form
    THEN ((NumberOf[form[key]] - IntMin) % (IntMax - IntMin + 1)) + IntMin
    ELSE 0

CheckNumber(form, key, required) ==
    IF key \in DOMAIN form THEN form[key] \in DOMAIN NumberOf ELSE ~required

-----------------------------------------------------------------------------

\* The texts and the numbers a request cannot do without.
Snapshot == {"key", "viewer_key_list", "timestamp", "snaptype"}

NeedsTexts ==
    [snapshotPng |-> {"key"}, snapshotTxt |-> Snapshot,
     jpgSnapshot |-> Snapshot \cup {"jpeg_quality"},
     snapshotBundle |-> Snapshot, getRenderList |-> {"key", "timestamp"}]

NeedsNumbers ==
    LET size == {"width", "height"} IN
    [snapshotPng |-> size, snapshotTxt |-> size,
     jpgSnapshot |-> size \cup {"jpeg_quality"},
     snapshotBundle |-> size \cup {"depth_w", "depth_h"}, getRenderList |-> {}]

\* The requests by their last token, with the kind of request, the pixel
\* format and m_base64 that go with it; any other token begins a static path.
Kind(name, request, format, base64) ==
    [name |-> name, request |-> request, format |-> format, base64 |-> base64]

Named ==
    [t \in {"snapshot.png", "snapshot.txt", "jpg_snapshot.txt",
            "snapshot_bundle.txt", "getRenderList.xml"} |->
        CASE t = "snapshot.png"        -> Kind("snapshotPng", "PNG", "RGB", FALSE)
          [] t = "snapshot.txt"        -> Kind("snapshotTxt", "PNG", "RGB", TRUE)
          [] t = "jpg_snapshot.txt"    -> Kind("jpgSnapshot", "PNG", "JPG", TRUE)
          [] t = "snapshot_bundle.txt" -> Kind("snapshotBundle", "PNG", "DEPTH", TRUE)
          [] t = "getRenderList.xml"   -> Kind("getRenderList", "RENDERLIST", "NONE", FALSE)]

Refused(code) == [code |-> code]

Blank(component, job) ==
    [code |-> OK, component |-> component, job |-> job, request |-> "NONE",
     action |-> "NONE", format |-> "NONE", base64 |-> FALSE, keys |-> "",
     width |-> 0, height |-> 0, depthW |-> 0, depthH |-> 0, revision |-> 0,
     path |-> <<>>]

DecodeNamed(d, kind, form) ==
    IF /\ \A key \in NeedsTexts[kind.name] : CheckText(form, key)
       /\ \A key \in NeedsNumbers[kind.name] : CheckNumber(form, key, TRUE)
    THEN [d EXCEPT !.request = kind.request, !.format = kind.format,
                   !.base64 = kind.base64,
                   !.keys = IF "viewer_key_list" \in NeedsTexts[kind.name]
                            THEN form["viewer_key_list"] ELSE "",
                   !.width = Atoi(form, "width"), !.height = Atoi(form, "height"),
                   !.depthW = IF "depth_w" \in NeedsNumbers[kind.name]
                              THEN Atoi(form, "depth_w") ELSE 0,
                   !.depthH = IF "depth_h" \in NeedsNumbers[kind.name]
                              THEN Atoi(form, "depth_h") ELSE 0]
    ELSE Refused(BadRequest)

DecodeRpc(d, form) ==
    IF d.component # "mod" THEN [d EXCEPT !.request = "RPC"]
    ELSE IF "action" \in DOMAIN form /\ form["action"] = "restart_master"
    THEN [d EXCEPT !.request = "RPC", !.action = "RESTART"]
    ELSE Refused(BadRequest)

DecodeRequest(d, path, form) ==
    LET token == Head(path) IN
    CASE token = "rpc.xml" -> DecodeRpc(d, form)
      [] token = "getExposedModelUpdate.xml" ->
            IF CheckNumber(form, "revision", FALSE)
            THEN [d EXCEPT !.request = "POLICY", !.revision = Atoi(form, "revision")]
            ELSE Refused(BadRequest)
      [] token = "updateState.xml" -> [d EXCEPT !.request = "STATE"]
      [] token = "getScript.js" -> [d EXCEPT !.request = "SCRIPT"]
      [] token \in DOMAIN Named -> DecodeNamed(d, Named[token], form)
      [] OTHER -> [d EXCEPT !.request = "FILE", !.path = path]

\* Tokens in front of the component are skipped.  Only a job has an id and a
\* session.
DecodePathInfo(path, args) ==
    LET found == {i \in DOMAIN path : path[i] \in Components}
        o     == CHOOSE i \in found : \A j \in found : i <= j
        job   == path[o] = "job"
        r     == IF job THEN o + 3 ELSE o + 1
        ids   == CheckId(path, o + 1) /\ CheckId(path, o + 2)
    IN  IF found = {} THEN Refused(NotFound)
        ELSE IF (job /\ ~ids) \/ r > Len(path) THEN Refused(BadRequest)
        ELSE DecodeRequest(Blank(path[o], IF job THEN path[o + 1] ELSE ""),
                           SubSeq(path, r, Len(path)), TokenizeArgs(args))
=============================================================================
