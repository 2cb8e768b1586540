----------------------------- MODULE ModelSync ------------------------------
(***************************************************************************)
(* How the browsers' copies of a job's model follow the model:             *)
(* XMLHandler and IPCJobController on the side of the job (src/modelxml,   *)
(* src/trell), ExposedModelReceiver, ExposedModelParser and                *)
(* ExposedModelSender on the side of the browser (js/model).               *)
(*                                                                         *)
(* A browser polls with the revision it has and gets every element stamped *)
(* since; its user's edits go to the job in POSTs, one at a time.  The job *)
(* answers one request at a time, on the thread of the mainloop, and its   *)
(* own code changes the model: on that thread between two requests, or,    *)
(* if WorkersWrite, on threads of its own at any time.  A browser runs one *)
(* callback at a time, so each callback is one step.                       *)
(*                                                                         *)
(* How a request travels is the business of IpcMessenger and LongPoll.     *)
(* Here it arrives, or fails; a POST that fails was executed or never will *)
(* be.                                                                     *)
(***************************************************************************)
EXTENDS ExposedModel

CONSTANTS Browser,
          None,         \* no such element; not in the document
          Blank,        \* what the parser gives a new element: 0, or its
                        \* first legal value
          EditKeys,     \* EditKeys[b]: what the GUI of b lets its user edit
          JobKeys,      \* what the code of the job changes,
          JobOps,       \* and by which operations
          WorkersWrite, \* does the job have threads that change the model?
          MaxWrites, MaxEdits, MaxFails   \* bounds, each for all actors

ASSUME ModelSyncAssumption ==
    /\ None \notin Value /\ Blank \notin Value /\ None # Blank
    /\ None \notin Browser
    /\ EditKeys \in [Browser -> SUBSET Key]
    /\ JobKeys \subseteq Key
    /\ JobOps \subseteq {"update", "constrain", "remove", "add"}
    /\ WorkersWrite \in BOOLEAN
    /\ MaxWrites \in Nat /\ MaxEdits \in Nat /\ MaxFails \in Nat

VARIABLES
    copy, brev,         \* model.ExposedModel: _elements, _revision
    parsing,            \* _parsingUpdate: between updateReceived, updateParsed
    poll, answer,       \* the long poll, and what the job has put in its answer
    keys, pendingXML,   \* _keys, _pendingXML
    post, xml, retry,   \* the POST, its document, the timers of _updateError
    srv, serving,       \* the mainloop: how far it is with whose answer
    writes, edits, fails

poller    == <<copy, brev, parsing, poll, answer>>
sender    == <<keys, pendingXML, post, xml, retry>>
mainloop  == <<srv, serving>>
bounds    == <<writes, edits, fails>>
vars == <<model, poller, sender, mainloop, bounds>>

Document == [Key -> Value \cup {None}]
NoDocument == [k \in Key |-> None]
KeysOf(doc) == {k \in Key : doc[k] # None}

NoAnswer == [schema |-> {}, state |-> NoDocument, rev |-> 0]

Init ==
    /\ ModelInit
    /\ copy = [b \in Browser |-> NoDocument]
    /\ brev = [b \in Browser |-> 0]
    /\ parsing = [b \in Browser |-> FALSE]
    /\ poll = [b \in Browser |-> "none"]
    /\ answer = [b \in Browser |-> NoAnswer]
    /\ keys = [b \in Browser |-> {}]
    /\ pendingXML = [b \in Browser |-> FALSE]
    /\ post = [b \in Browser |-> "none"]
    /\ xml = [b \in Browser |-> NoDocument]
    /\ retry = [b \in Browser |-> 0]
    /\ srv = "idle" /\ serving = None
    /\ writes = 0 /\ edits = 0 /\ fails = 0

-----------------------------------------------------------------------------
(* The job.                                                                *)

\* MUTANT of ServerReadsSchema: the schema is sent with the first answer only.
ServerReadsSchemaOnce(b) ==
    /\ srv = "idle" /\ poll[b] = "asked"
    /\ srv' = "schema" /\ serving' = b
    /\ answer' = [answer EXCEPT ![b].schema =
          IF brev[b] = 0 THEN FullStateSchema ELSE {}]
    /\ UNCHANGED <<model, copy, brev, parsing, poll, sender, bounds>>

\* getExposedModelUpdate takes m_selfMutex three times: for the schema, ...
ServerReadsSchema(b) ==
    /\ srv = "idle" /\ poll[b] = "asked"
    /\ srv' = "schema" /\ serving' = b
    /\ answer' = [answer EXCEPT ![b].schema = FullStateSchema]
    /\ UNCHANGED <<model, copy, brev, parsing, poll, sender, bounds>>

\* ... for the elements the browser needs (if there are none, the poll stays
\* parked until it is notified or times out), ...
ServerReadsState(b) ==
    LET delta == StateUpdate(brev[b])
    IN  /\ srv = "schema" /\ serving = b
        /\ \/ /\ delta # {}
              /\ srv' = "state"
              /\ answer' = [answer EXCEPT ![b].state =
                    [k \in Key |-> IF k \in delta THEN CurrentValues[k]
                                                  ELSE None]]
              /\ UNCHANGED serving
           \/ /\ delta = {}
              /\ srv' = "idle" /\ serving' = None
              /\ answer' = [answer EXCEPT ![b] = NoAnswer]
        /\ UNCHANGED <<model, copy, brev, parsing, poll, sender, bounds>>

\* ... and for the revision.
ServerReadsRevision(b) ==
    /\ srv = "state" /\ serving = b
    /\ answer' = [answer EXCEPT ![b].rev = revision]
    /\ poll' = [poll EXCEPT ![b] = "answered"]
    /\ srv' = "idle" /\ serving' = None
    /\ UNCHANGED <<model, copy, brev, parsing, sender, bounds>>

\* updateState, under one ExposedModelLock.  A key that is not in the model, or
\* a value that its element refuses, ends the document there: the exception is
\* caught in XMLHandler, and the reply is OK all the same.
ServerUpdates(b) ==
    LET doc == KeysOf(xml[b])
    IN  /\ srv = "idle" /\ post[b] = "sent"
        /\ \E ks \in SUBSET doc :
              /\ \/ ks = doc
                 \/ ~(doc \subseteq Present)
                 \/ Refused(ks, xml[b]) # {}
              /\ UpdateFromDocument(ks, xml[b])
        /\ post' = [post EXCEPT ![b] = "ok"]
        /\ UNCHANGED <<poller, keys, pendingXML, xml, retry, mainloop, bounds>>

\* The code of the job: a listener, Job::periodic, or a worker.
JobWrites ==
    /\ WorkersWrite \/ srv = "idle"
    /\ writes < MaxWrites
    /\ writes' = writes + 1
    /\ \E k \in JobKeys, v \in Value :
          \/ "update" \in JobOps /\ UpdateElement(k, v)
          \/ "constrain" \in JobOps /\ \E g \in Ranges[k] : UpdateConstraints(k, v, g)
          \/ "remove" \in JobOps /\ RemoveElement(k)
          \/ "add" \in JobOps /\ \E g \in Ranges[k] : AddElement(k, v, g)
    /\ UNCHANGED <<poller, sender, mainloop, edits, fails>>

-----------------------------------------------------------------------------
(* The browser: ExposedModelReceiver and the parser.                       *)

Poll(b) ==
    /\ poll[b] = "none"
    /\ poll' = [poll EXCEPT ![b] = "asked"]
    /\ UNCHANGED <<model, copy, brev, parsing, answer, sender, mainloop,
                   bounds>>

PollFails(b) ==
    /\ poll[b] \in {"asked", "answered"} /\ serving # b
    /\ fails < MaxFails
    /\ fails' = fails + 1
    /\ poll' = [poll EXCEPT ![b] = "none"]
    /\ answer' = [answer EXCEPT ![b] = NoAnswer]
    /\ UNCHANGED <<model, copy, brev, parsing, sender, mainloop, writes, edits>>

\* MUTANT of Parsed: nobody asks the accepter.
ParsedUnasked(b, ks) ==
    [k \in Key |->
        IF k \in ks THEN answer[b].state[k]
        ELSE IF copy[b][k] = None /\ k \in answer[b].schema THEN Blank
        ELSE copy[b][k]]

\* The parser adds what is new in the schema, then takes the values, except of
\* the keys that the accepter refuses, ks being the keys it gets to.
Parsed(b, ks) ==
    [k \in Key |->
        IF k \in ks \ keys[b] THEN answer[b].state[k]
        ELSE IF copy[b][k] = None /\ k \in answer[b].schema THEN Blank
        ELSE copy[b][k]]

\* MUTANT of HandleUpdate: the revision is set although the parser threw.
HandleUpdateAlwaysSetsRevision(b) ==
    LET delta   == KeysOf(answer[b].state)
        unknown == delta \ (KeysOf(copy[b]) \cup answer[b].schema)
    IN  /\ poll[b] = "answered"
        /\ poll' = [poll EXCEPT ![b] = "none"]
        /\ answer' = [answer EXCEPT ![b] = NoAnswer]
        /\ copy' = [copy EXCEPT ![b] = Parsed(b, delta \ unknown)]
        /\ brev' = [brev EXCEPT ![b] = answer[b].rev]
        /\ parsing' = [parsing EXCEPT ![b] = unknown # {}]
        /\ UNCHANGED <<model, sender, mainloop, bounds>>

\* A value of a key it does not know makes the parser throw: it sets no
\* revision, and nobody publishes updateParsed.
HandleUpdate(b) ==
    LET delta   == KeysOf(answer[b].state)
        unknown == delta \ (KeysOf(copy[b]) \cup answer[b].schema)
    IN  /\ poll[b] = "answered"
        /\ poll' = [poll EXCEPT ![b] = "none"]
        /\ answer' = [answer EXCEPT ![b] = NoAnswer]
        /\ \/ /\ unknown = {}
              /\ copy' = [copy EXCEPT ![b] = Parsed(b, delta)]
              /\ brev' = [brev EXCEPT ![b] = answer[b].rev]
              /\ parsing' = [parsing EXCEPT ![b] = FALSE]
           \/ /\ unknown # {}
              /\ \E ks \in SUBSET (delta \ unknown) :
                    copy' = [copy EXCEPT ![b] = Parsed(b, ks)]
              /\ parsing' = [parsing EXCEPT ![b] = TRUE]
              /\ UNCHANGED brev
        /\ UNCHANGED <<model, sender, mainloop, bounds>>

-----------------------------------------------------------------------------
(* The browser: ExposedModelSender.                                        *)

\* buildXML(_makeKeys()): the present values of the keys ks.
Snapshot(c, ks) == [k \in Key |-> IF k \in ks THEN c[k] ELSE None]

\* _send
Send(b, doc) ==
    /\ post' = [post EXCEPT ![b] = "sent"]
    /\ xml' = [xml EXCEPT ![b] = doc]

\* _update, once it has marked its key: ks are the keys marked, c the copy.
StartUpdate(b, c, ks) ==
    \/ /\ post[b] # "none"
       /\ pendingXML' = [pendingXML EXCEPT ![b] = TRUE]
       /\ UNCHANGED <<post, xml>>
    \/ /\ post[b] = "none"
       /\ Send(b, Snapshot(c, ks))
       /\ UNCHANGED pendingXML

\* The user changes an element; the sender listens to the model.
Edit(b, k, v) ==
    LET c  == [copy[b] EXCEPT ![k] = v]
        ks == keys[b] \cup {k}
    IN  /\ edits < MaxEdits
        /\ copy[b][k] \notin {None, v}
        /\ edits' = edits + 1
        /\ copy' = [copy EXCEPT ![b] = c]
        /\ \/ /\ parsing[b]
              /\ UNCHANGED <<keys, pendingXML, post, xml>>
           \/ /\ ~parsing[b]
              /\ keys' = [keys EXCEPT ![b] = ks]
              /\ StartUpdate(b, c, ks)
        /\ UNCHANGED <<model, brev, parsing, poll, answer, retry, mainloop,
                       writes, fails>>

\* The timer of _updateError: _update with no key.
Retry(b) ==
    /\ retry[b] > 0
    /\ retry' = [retry EXCEPT ![b] = @ - 1]
    /\ \/ parsing[b] /\ UNCHANGED <<pendingXML, post, xml>>
       \/ ~parsing[b] /\ StartUpdate(b, copy[b], keys[b])
    /\ UNCHANGED <<model, poller, keys, mainloop, bounds>>

\* MUTANT of PostDone: _pendingXML is not looked at.
PostDoneForgets(b) ==
    /\ post[b] = "ok"
    /\ keys' = [keys EXCEPT ![b] = {}]
    /\ post' = [post EXCEPT ![b] = "none"]
    /\ UNCHANGED <<model, poller, pendingXML, xml, retry, mainloop, bounds>>

\* _updateComplete
PostDone(b) ==
    /\ post[b] = "ok"
    /\ \/ /\ pendingXML[b]
          /\ pendingXML' = [pendingXML EXCEPT ![b] = FALSE]
          /\ Send(b, Snapshot(copy[b], keys[b]))
          /\ UNCHANGED keys
       \/ /\ ~pendingXML[b]
          /\ keys' = [keys EXCEPT ![b] = {}]
          /\ post' = [post EXCEPT ![b] = "none"]
          /\ UNCHANGED <<pendingXML, xml>>
    /\ UNCHANGED <<model, poller, retry, mainloop, bounds>>

\* The request is lost, or its answer.
PostFails(b) ==
    /\ post[b] \in {"sent", "ok"}
    /\ fails < MaxFails
    /\ fails' = fails + 1
    /\ post' = [post EXCEPT ![b] = "failed"]
    /\ UNCHANGED <<model, poller, keys, pendingXML, xml, retry, mainloop,
                   writes, edits>>

\* MUTANT of PostError: no second attempt.
PostErrorGivesUp(b) ==
    /\ post[b] = "failed"
    /\ post' = [post EXCEPT ![b] = "none"]
    /\ UNCHANGED <<model, poller, keys, pendingXML, xml, retry, mainloop,
                   bounds>>

\* _updateError
PostError(b) ==
    /\ post[b] = "failed"
    /\ post' = [post EXCEPT ![b] = "none"]
    /\ retry' = [retry EXCEPT ![b] = @ + 1]
    /\ UNCHANGED <<model, poller, keys, pendingXML, xml, mainloop, bounds>>

-----------------------------------------------------------------------------

ServerNext(b) == \/ ServerReadsSchema(b) \/ ServerReadsState(b)
                 \/ ServerReadsRevision(b) \/ ServerUpdates(b)

BrowserNext(b) ==
    \/ Poll(b) \/ PollFails(b) \/ HandleUpdate(b)
    \/ \E k \in EditKeys[b], v \in Value : Edit(b, k, v)
    \/ Retry(b) \/ PostDone(b) \/ PostFails(b) \/ PostError(b)

Next == JobWrites \/ \E b \in Browser : ServerNext(b) \/ BrowserNext(b)

Spec == Init /\ [][Next]_vars

\* The mainloop finishes the answer it has begun and comes round to every
\* request; a browser runs the callbacks and timers that are due.
Fairness ==
    \A b \in Browser :
        /\ WF_vars(ServerReadsState(b)) /\ WF_vars(ServerReadsRevision(b))
        /\ SF_vars(ServerReadsSchema(b)) /\ SF_vars(ServerUpdates(b))
        /\ WF_vars(Poll(b)) /\ WF_vars(HandleUpdate(b))
        /\ WF_vars(Retry(b)) /\ WF_vars(PostDone(b)) /\ WF_vars(PostError(b))

FairSpec == Spec /\ Fairness

-----------------------------------------------------------------------------
(* Properties.                                                             *)

\* A document of either side has values of the model only, never the parser's
\* placeholder.
TypeOK ==
    /\ elements \in [Key -> Element] /\ revision \in Nat
    /\ \A k \in Key : elements[k].legal \in Ranges[k]
    /\ copy \in [Browser -> [Key -> Value \cup {Blank, None}]]
    /\ brev \in [Browser -> Nat]
    /\ parsing \in [Browser -> BOOLEAN]
    /\ poll \in [Browser -> {"none", "asked", "answered"}]
    /\ answer \in [Browser -> [schema : SUBSET Key, state : Document,
                              rev : Nat]]
    /\ keys \in [Browser -> SUBSET Key]
    /\ pendingXML \in [Browser -> BOOLEAN]
    /\ post \in [Browser -> {"none", "sent", "ok", "failed"}]
    /\ xml \in [Browser -> Document] /\ retry \in [Browser -> Nat]
    /\ srv \in {"idle", "schema", "state"} /\ serving \in Browser \cup {None}
    /\ writes \in Nat /\ edits \in Nat /\ fails \in Nat

\* Where a browser shows another value than the model has, the next poll will
\* bring the value (it is stamped late enough for the revision the browser
\* asks with), or the value is the user's own and still on its way.
NothingMissed ==
    \A b \in Browser : \A k \in Present \ keys[b] :
        copy[b][k] # elements[k].value => elements[k].rev >= brev[b]

\* What is in flight is what the user sees, unless the sender has noted that
\* it must send once more.
InFlightIsCurrent ==
    \A b \in Browser : post[b] # "none" /\ ~pendingXML[b] =>
        xml[b] = Snapshot(copy[b], keys[b])

\* An edit that is not acknowledged has a POST or a timer to carry it: the
\* sender never sits on it until the user's next edit.
EditsAreOnTheirWay ==
    \A b \in Browser : keys[b] # {} => post[b] # "none" \/ retry[b] > 0

\* The job never sends the value of an element that the browser has not been
\* told of: the parser's own assertion.
UpdatesParse ==
    \A b \in Browser : poll[b] = "answered" =>
        KeysOf(answer[b].state) \subseteq KeysOf(copy[b]) \cup answer[b].schema

\* A POST that is answered OK has put every value of its document in the model,
\* or has met what ends a document: an element that the job has removed, or one
\* that refuses the value.  What comes after that one is dropped, and answered OK
\* all the same; but the element that refused is stamped, so that its value goes
\* to every browser, the sender's too.
AckedIsApplied ==
    [][\A b \in Browser : post[b] = "sent" /\ post'[b] = "ok" =>
          \/ \A k \in KeysOf(xml[b]) :
                k \in Present /\ elements'[k].value = xml[b][k]
          \/ ~(KeysOf(xml[b]) \subseteq Present)
          \/ \E k \in KeysOf(xml[b]) : /\ xml[b][k] \notin elements[k].legal
                                       /\ elements'[k].rev >= revision]_vars

\* The stamps of the model are distinct and in the past, and no browser has a
\* revision that the model has not reached: what is stamped from now on will
\* be sent to everyone.
StampsAreFresh ==
    /\ \A k \in Present : elements[k].rev < revision
    /\ \A k, l \in Present : elements[k].rev = elements[l].rev => k = l
    /\ \A b \in Browser : brev[b] <= revision

InStep == \A b \in Browser, k \in Present : copy[b][k] = elements[k].value

\* When job and users stop changing things, every browser ends up with the
\* model, and stays there.
Converges == <>[]InStep

\* A browser whose parser threw takes an update again, and so lets its user's
\* edits through again, unless the job removes elements: then there may be
\* nothing new that would be sent to it.
ParserRecovers ==
    \A b \in Browser : parsing[b] ~> ~parsing[b] \/ Present # Key
=============================================================================
