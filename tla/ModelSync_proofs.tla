-------------------------- MODULE ModelSync_proofs --------------------------
(***************************************************************************)
(* What the protocol between the job and its browsers guarantees, for any  *)
(* number of browsers, keys and values: to whomever writes; if no thread   *)
(* but the mainloop's adds elements; and if the model is changed on the    *)
(* mainloop's thread only, and each element by one party only.             *)
(***************************************************************************)
EXTENDS ModelSync, FiniteSetTheorems, TLAPS

-----------------------------------------------------------------------------
(* Types.                                                                  *)

\* What the sender is going to send has been entered by the user.
Entered == \A b \in Browser : \A k \in keys[b] : copy[b][k] \in Value

TInv == TypeOK /\ Entered

LEMMA DocumentSize ==
    ASSUME NEW ks, ks \subseteq Key
    PROVE  IsFiniteSet(ks) /\ Cardinality(ks) \in Nat
BY FS_Subset, FS_CardinalityType, ExposedModelAssumption

LEMMA ModelInitType ==
    ASSUME ModelInit
    PROVE  /\ elements \in [Key -> Element] /\ revision \in Nat
           /\ \A k \in Key : elements[k].legal \in Ranges[k]
           /\ \A k \in Present : elements[k].rev < revision
<1>1. Cardinality(AtStart) \in Nat
  BY DocumentSize, ExposedModelAssumption
<1> QED
  BY <1>1 DEF ModelInit, Element, Present

LEMMA SnapshotType ==
    ASSUME NEW c \in [Key -> Value \cup {Blank, None}],
           NEW ks \in SUBSET Key, \A k \in ks : c[k] \in Value
    PROVE  Snapshot(c, ks) \in Document /\ KeysOf(Snapshot(c, ks)) = ks
BY ModelSyncAssumption DEF Snapshot, Document, KeysOf

\* An element that is reached by a document, whether it takes the value or not.
LEMMA Restamp ==
    ASSUME NEW e, e \in Element, NEW x, x \in Nat, NEW v, v \in Value
    PROVE  /\ [e EXCEPT !.value = v, !.rev = x] \in Element
           /\ [e EXCEPT !.value = v, !.rev = x].rev = x
           /\ [e EXCEPT !.value = v, !.rev = x].value = v
           /\ [e EXCEPT !.value = v, !.rev = x].present = e.present
           /\ [e EXCEPT !.value = v, !.rev = x].legal = e.legal
<1>1. [e EXCEPT !.value = v] \in Element
  BY DEF Element
<1> QED
  BY <1>1 DEF Element

\* The elements of a document get stamps that were not used before, one each, and
\* the values, unless they refuse them.
LEMMA UpdateFromDocumentType ==
    ASSUME elements \in [Key -> Element], revision \in Nat,
           NEW doc \in Document, NEW ks \in SUBSET KeysOf(doc),
           UpdateFromDocument(ks, doc)
    PROVE  /\ elements' \in [Key -> Element] /\ revision' \in Nat
           /\ revision' >= revision /\ ks \subseteq Present
           /\ \A k \in ks : /\ elements'[k].rev >= revision
                            /\ elements'[k].rev < revision'
           /\ \A k, l \in ks : elements'[k].rev = elements'[l].rev => k = l
           /\ \A k \in ks \ Refused(ks, doc) : elements'[k].value = doc[k]
           /\ \A k \in Key \ ks : elements'[k] = elements[k]
           /\ \A k \in Key : elements'[k].legal = elements[k].legal
           /\ Present' = Present
<1>1. ks \subseteq Key /\ Cardinality(ks) \in Nat
  BY DocumentSize DEF KeysOf
<1>2. PICK r \in [ks -> revision .. (revision + Cardinality(ks) - 1)] :
        /\ \A k, l \in ks : r[k] = r[l] => k = l
        /\ elements' = [k \in Key |->
              IF k \in ks THEN [elements[k] EXCEPT !.value = Taken(k, ks, doc),
                                                   !.rev = r[k]]
              ELSE elements[k]]
  BY DEF UpdateFromDocument
<1>3. revision' = revision + Cardinality(ks) /\ ks \subseteq Present
  BY DEF UpdateFromDocument
<1>4. \A k \in ks : /\ r[k] \in Nat /\ r[k] >= revision /\ r[k] < revision'
                    /\ doc[k] \in Value
  BY <1>1, <1>3 DEF KeysOf, Document
<1>5. ASSUME NEW k \in ks
      PROVE  /\ elements'[k] \in Element /\ elements'[k].rev = r[k]
             /\ elements'[k].present = elements[k].present
             /\ elements'[k].legal = elements[k].legal
             /\ k \notin Refused(ks, doc) => elements'[k].value = doc[k]
  <2>1. elements'[k] = [elements[k] EXCEPT !.value = Taken(k, ks, doc),
                                           !.rev = r[k]]
    BY <1>1, <1>2
  <2>2. elements[k] \in Element /\ r[k] \in Nat
    BY <1>1, <1>4
  <2>3. /\ Taken(k, ks, doc) \in Value
        /\ k \notin Refused(ks, doc) => Taken(k, ks, doc) = doc[k]
    BY <1>4, <2>2 DEF Taken, Element
  <2> DEFINE e == elements[k]
             v == Taken(k, ks, doc)
             x == r[k]
  <2>4. e \in Element /\ x \in Nat /\ v \in Value
    BY <2>2, <2>3
  <2> HIDE DEF e, v, x
  <2>5. /\ [e EXCEPT !.value = v, !.rev = x] \in Element
        /\ [e EXCEPT !.value = v, !.rev = x].rev = x
        /\ [e EXCEPT !.value = v, !.rev = x].value = v
        /\ [e EXCEPT !.value = v, !.rev = x].present = e.present
        /\ [e EXCEPT !.value = v, !.rev = x].legal = e.legal
    BY <2>4, Restamp
  <2>6. elements'[k] = [e EXCEPT !.value = v, !.rev = x]
    BY <2>1 DEF e, v, x
  <2> QED
    BY <2>3, <2>5, <2>6 DEF e, v, x
<1>6. /\ \A k \in Key \ ks : elements'[k] = elements[k]
      /\ DOMAIN elements' = Key /\ elements' = [k \in Key |-> elements'[k]]
  BY <1>2
<1>7. elements' \in [Key -> Element]
  BY <1>5, <1>6
<1>8. Present' = Present
  BY <1>1, <1>5, <1>6 DEF Present
<1>9. revision' \in Nat /\ revision' >= revision
  BY <1>1, <1>3
<1>10. \A k, l \in ks : elements'[k].rev = elements'[l].rev => k = l
  <2> SUFFICES ASSUME NEW k \in ks, NEW l \in ks,
                      elements'[k].rev = elements'[l].rev
               PROVE  k = l
    OBVIOUS
  <2>1. r[k] = r[l]
    BY <1>5
  <2> QED
    BY <1>2, <2>1
<1>11. \A k \in ks : elements'[k].rev >= revision /\ elements'[k].rev < revision'
  BY <1>4, <1>5
<1> QED
  BY <1>3, <1>5, <1>6, <1>7, <1>8, <1>9, <1>10, <1>11

\* Some operation of the job on some element.
LEMMA SomeWrite ==
    ASSUME JobWrites
    PROVE  \E k \in JobKeys, v \in Value :
              \/ "update" \in JobOps /\ UpdateElement(k, v)
              \/ "remove" \in JobOps /\ RemoveElement(k)
              \/ \E g \in Ranges[k] :
                    \/ "constrain" \in JobOps /\ UpdateConstraints(k, v, g)
                    \/ "add" \in JobOps /\ AddElement(k, v, g)
BY DEF JobWrites

LEMMA RangeType ==
    ASSUME NEW k \in Key, NEW g \in Ranges[k] PROVE g \in SUBSET Value
BY ExposedModelAssumption

LEMMA JobWritesType ==
    ASSUME TypeOK, JobWrites
    PROVE  /\ elements' \in [Key -> Element] /\ revision' \in Nat
           /\ \A l \in Key : elements'[l].legal \in Ranges[l]
<1>0. /\ elements \in [Key -> Element] /\ revision \in Nat
      /\ \A l \in Key : elements[l].legal \in Ranges[l]
  BY DEF TypeOK
<1>1. PICK k \in Key, v \in Value :
        \/ UpdateElement(k, v) \/ RemoveElement(k)
        \/ \E g \in Ranges[k] : UpdateConstraints(k, v, g) \/ AddElement(k, v, g)
  BY SomeWrite, ModelSyncAssumption
<1>2. CASE UpdateElement(k, v)
  <2>1. elements' = [elements EXCEPT ![k] =
            [elements[k] EXCEPT !.value = v, !.rev = revision]]
    BY <1>2 DEF TypeOK, UpdateElement
  <2>2. /\ [elements[k] EXCEPT !.value = v, !.rev = revision] \in Element
        /\ [elements[k] EXCEPT !.value = v, !.rev = revision].legal
              = elements[k].legal
    <3>1. elements[k] \in Element /\ revision \in Nat
      BY DEF TypeOK
    <3>2. [elements[k] EXCEPT !.value = v] \in Element
      BY <3>1 DEF Element
    <3> QED
      BY <3>1, <3>2 DEF Element
  <2> QED
    BY <1>0, <1>2, <2>1, <2>2 DEF UpdateElement
<1>3. ASSUME NEW g \in Ranges[k], UpdateConstraints(k, v, g)
      PROVE  /\ elements' \in [Key -> Element] /\ revision' \in Nat
             /\ \A l \in Key : elements'[l].legal \in Ranges[l]
  <2>1. elements' = [elements EXCEPT ![k] =
            [elements[k] EXCEPT !.value = v, !.legal = g]]
    BY <1>0, <1>3 DEF UpdateConstraints
  <2>2. /\ [elements[k] EXCEPT !.value = v, !.legal = g] \in Element
        /\ [elements[k] EXCEPT !.value = v, !.legal = g].legal = g
    <3>1. elements[k] \in Element /\ g \in SUBSET Value
      BY <1>0, RangeType
    <3>2. [elements[k] EXCEPT !.value = v] \in Element
      BY <3>1 DEF Element
    <3> QED
      BY <3>1, <3>2 DEF Element
  <2> QED
    BY <1>0, <1>3, <2>1, <2>2 DEF UpdateConstraints
<1>4. CASE RemoveElement(k)
  BY <1>0, <1>4 DEF RemoveElement, Element
<1>5. ASSUME NEW g \in Ranges[k], AddElement(k, v, g)
      PROVE  /\ elements' \in [Key -> Element] /\ revision' \in Nat
             /\ \A l \in Key : elements'[l].legal \in Ranges[l]
  <2>1. g \in SUBSET Value
    BY RangeType
  <2> QED
    BY <1>0, <1>5, <2>1 DEF AddElement, Element
<1> QED
  BY <1>1, <1>2, <1>3, <1>4, <1>5

LEMMA InitTInv == ASSUME Init PROVE TInv
<1>1. NoDocument \in Document /\ NoDocument \in [Key -> Value \cup {Blank, None}]
  BY DEF NoDocument, Document
<1>2. NoAnswer \in [schema : SUBSET Key, state : Document, rev : Nat]
  BY <1>1 DEF NoAnswer
<1> QED
  BY <1>1, <1>2, ModelInitType DEF Init, TInv, TypeOK, Entered

LEMMA ServerStepTInv ==
    ASSUME TInv, NEW b \in Browser, ServerNext(b)
    PROVE  TInv'
<1>1. CASE ServerReadsSchema(b)
  BY <1>1 DEF TInv, TypeOK, Entered, ServerReadsSchema, FullStateSchema, Present,
     model, sender, bounds
<1>2. CASE ServerReadsState(b)
  <2>1. NoDocument \in Document
    BY DEF NoDocument, Document
  <2>2. NoAnswer \in [schema : SUBSET Key, state : Document, rev : Nat]
    BY <2>1 DEF NoAnswer
  <2>3. CurrentValues \in [Key -> Value]
    BY DEF TInv, TypeOK, CurrentValues, Element
  <2> DEFINE sent == [k \in Key |-> IF k \in StateUpdate(brev[b])
                                     THEN CurrentValues[k] ELSE None]
  <2>5. sent \in Document
    BY <2>3 DEF Document
  <2>6. \/ answer' = [answer EXCEPT ![b] = NoAnswer]
        \/ answer' = [answer EXCEPT ![b].state = sent]
    BY <1>2 DEF ServerReadsState
  <2>4. answer' \in [Browser -> [schema : SUBSET Key, state : Document,
                                 rev : Nat]]
    <3> HIDE DEF sent
    <3>1. CASE answer' = [answer EXCEPT ![b] = NoAnswer]
      BY <2>2, <3>1 DEF TInv, TypeOK
    <3>2. CASE answer' = [answer EXCEPT ![b].state = sent]
      <4>1. answer' = [answer EXCEPT ![b] = [answer[b] EXCEPT !.state = sent]]
        BY <3>2
      <4>2. [answer[b] EXCEPT !.state = sent]
              \in [schema : SUBSET Key, state : Document, rev : Nat]
        BY <2>5 DEF TInv, TypeOK
      <4> QED
        BY <4>1, <4>2 DEF TInv, TypeOK
    <3> QED
      BY <2>6, <3>1, <3>2
  <2> QED
    BY <1>2, <2>4 DEF TInv, TypeOK, Entered, ServerReadsState, model, sender,
       bounds
<1>3. CASE ServerReadsRevision(b)
  BY <1>3 DEF TInv, TypeOK, Entered, ServerReadsRevision, model, sender, bounds
<1>4. CASE ServerUpdates(b)
  <2>1. PICK ks \in SUBSET KeysOf(xml[b]) : UpdateFromDocument(ks, xml[b])
    BY <1>4 DEF ServerUpdates
  <2>2. /\ elements' \in [Key -> Element] /\ revision' \in Nat
        /\ \A k \in Key : elements'[k].legal \in Ranges[k]
    BY <2>1, UpdateFromDocumentType DEF TInv, TypeOK
  <2> QED
    BY <1>4, <2>2 DEF TInv, TypeOK, Entered, ServerUpdates, poller, mainloop,
       bounds
<1> QED
  BY <1>1, <1>2, <1>3, <1>4 DEF ServerNext

LEMMA ParsedType ==
    ASSUME TInv, NEW b \in Browser,
           NEW ks \in SUBSET KeysOf(answer[b].state)
    PROVE  /\ Parsed(b, ks) \in [Key -> Value \cup {Blank, None}]
           /\ \A k \in keys[b] : Parsed(b, ks)[k] = copy[b][k]
           /\ \A k \in Key \ (ks \cup answer[b].schema) :
                 Parsed(b, ks)[k] = copy[b][k]
<1>1. answer[b].state \in Document /\ copy[b] \in [Key -> Value \cup {Blank, None}]
  BY DEF TInv, TypeOK
<1>2. \A k \in keys[b] : copy[b][k] # None /\ k \in Key
  BY ModelSyncAssumption DEF TInv, TypeOK, Entered
<1> QED
  BY <1>1, <1>2 DEF Parsed, KeysOf, Document

\* _update keeps the types, given a copy and keys that the user has entered.
LEMMA StartUpdateType ==
    ASSUME TInv, NEW b \in Browser,
           NEW c \in [Key -> Value \cup {Blank, None}],
           NEW ks \in SUBSET Key, \A k \in ks : c[k] \in Value,
           StartUpdate(b, c, ks)
    PROVE  /\ pendingXML' \in [Browser -> BOOLEAN]
           /\ post' \in [Browser -> {"none", "sent", "ok", "failed"}]
           /\ xml' \in [Browser -> Document]
<1>1. Snapshot(c, ks) \in Document
  BY SnapshotType
<1>2. pendingXML' \in {pendingXML, [pendingXML EXCEPT ![b] = TRUE]}
  BY DEF StartUpdate
<1>3. post' \in {post, [post EXCEPT ![b] = "sent"]}
  BY DEF StartUpdate, Send
<1>4. xml' \in {xml, [xml EXCEPT ![b] = Snapshot(c, ks)]}
  BY DEF StartUpdate, Send
<1>5. pendingXML' \in [Browser -> BOOLEAN]
  BY <1>2 DEF TInv, TypeOK
<1>6. post' \in [Browser -> {"none", "sent", "ok", "failed"}]
  BY <1>3 DEF TInv, TypeOK
<1>7. xml' \in [Browser -> Document]
  BY <1>1, <1>4 DEF TInv, TypeOK
<1> QED
  BY <1>5, <1>6, <1>7

LEMMA BrowserStepTInv ==
    ASSUME TInv, NEW b \in Browser, BrowserNext(b)
    PROVE  TInv'
<1> USE DEF TInv
<1>0. NoAnswer \in [schema : SUBSET Key, state : Document, rev : Nat]
  BY DEF NoAnswer, NoDocument, Document
<1>1. CASE Poll(b)
  BY <1>1 DEF TypeOK, Entered, Poll, model, sender, mainloop, bounds
<1>2. CASE PollFails(b)
  BY <1>0, <1>2 DEF TypeOK, Entered, PollFails, model, sender, mainloop
<1>3. CASE HandleUpdate(b)
  <2>1. PICK ks \in SUBSET KeysOf(answer[b].state) :
          copy' = [copy EXCEPT ![b] = Parsed(b, ks)]
    BY <1>3 DEF HandleUpdate
  <2>2. copy' \in [Browser -> [Key -> Value \cup {Blank, None}]]
    BY <2>1, ParsedType DEF TypeOK
  <2>3. Entered'
    BY <1>3, <2>1, ParsedType DEF HandleUpdate, TypeOK, Entered, sender
  <2> QED
    BY <1>0, <1>3, <2>2, <2>3 DEF HandleUpdate, TypeOK, model, sender, mainloop,
       bounds
<1>4. ASSUME NEW k \in EditKeys[b], NEW v \in Value, Edit(b, k, v)
      PROVE  TInv'
  <2> DEFINE c == [copy[b] EXCEPT ![k] = v]
             ks == keys[b] \cup {k}
  <2>1. k \in Key
    BY ModelSyncAssumption
  <2>2. /\ c \in [Key -> Value \cup {Blank, None}] /\ ks \in SUBSET Key
        /\ \A l \in ks : c[l] \in Value
    BY <2>1 DEF TypeOK, Entered
  <2>3. /\ copy' = [copy EXCEPT ![b] = c]
        /\ keys' \in {keys, [keys EXCEPT ![b] = ks]}
        /\ edits' \in Nat
    BY <1>4 DEF Edit, TypeOK
  <2>4. /\ pendingXML' \in [Browser -> BOOLEAN]
        /\ post' \in [Browser -> {"none", "sent", "ok", "failed"}]
        /\ xml' \in [Browser -> Document]
    BY <1>4, <2>2, StartUpdateType DEF Edit, TypeOK
  <2>5. /\ copy' \in [Browser -> [Key -> Value \cup {Blank, None}]]
        /\ keys' \in [Browser -> SUBSET Key]
    <3> HIDE DEF c, ks
    <3> QED
      BY <2>2, <2>3 DEF TypeOK
  <2>6. Entered'
    BY <2>2, <2>3 DEF TypeOK, Entered
  <2> QED
    BY <1>4, <2>3, <2>4, <2>5, <2>6 DEF Edit, TypeOK, model, mainloop
<1>5. CASE Retry(b)
  <2>1. /\ pendingXML' \in [Browser -> BOOLEAN]
        /\ post' \in [Browser -> {"none", "sent", "ok", "failed"}]
        /\ xml' \in [Browser -> Document]
    BY <1>5, StartUpdateType DEF Retry, TypeOK, Entered
  <2>2. retry' \in [Browser -> Nat]
    BY <1>5 DEF Retry, TypeOK
  <2>3. Entered'
    BY <1>5 DEF Retry, Entered, poller
  <2> QED
    BY <1>5, <2>1, <2>2, <2>3 DEF Retry, TypeOK, model, poller, mainloop, bounds
<1>6. CASE PostDone(b)
  <2>1. Snapshot(copy[b], keys[b]) \in Document
    BY SnapshotType DEF TypeOK, Entered
  <2>2. /\ keys' \in [Browser -> SUBSET Key] /\ pendingXML' \in [Browser -> BOOLEAN]
        /\ post' \in [Browser -> {"none", "sent", "ok", "failed"}]
        /\ xml' \in [Browser -> Document]
    <3>1. /\ keys' \in {keys, [keys EXCEPT ![b] = {}]}
          /\ pendingXML' \in {pendingXML, [pendingXML EXCEPT ![b] = FALSE]}
          /\ post' \in {[post EXCEPT ![b] = "sent"], [post EXCEPT ![b] = "none"]}
          /\ xml' \in {xml, [xml EXCEPT ![b] = Snapshot(copy[b], keys[b])]}
      BY <1>6 DEF PostDone, Send
    <3>2. keys' \in [Browser -> SUBSET Key]
      BY <3>1 DEF TypeOK
    <3>3. pendingXML' \in [Browser -> BOOLEAN]
      BY <3>1 DEF TypeOK
    <3>4. post' \in [Browser -> {"none", "sent", "ok", "failed"}]
      BY <3>1 DEF TypeOK
    <3>5. xml' \in [Browser -> Document]
      BY <2>1, <3>1 DEF TypeOK
    <3> QED
      BY <3>2, <3>3, <3>4, <3>5
  <2>3. Entered'
    BY <1>6 DEF PostDone, TypeOK, Entered, poller
  <2> QED
    BY <1>6, <2>2, <2>3 DEF PostDone, TypeOK, model, poller, mainloop, bounds
<1>7. CASE PostFails(b)
  BY <1>7 DEF PostFails, TypeOK, Entered, model, poller, mainloop
<1>8. CASE PostError(b)
  BY <1>8 DEF PostError, TypeOK, Entered, model, poller, mainloop, bounds
<1> QED
  BY <1>1, <1>2, <1>3, <1>4, <1>5, <1>6, <1>7, <1>8 DEF BrowserNext

LEMMA StepTInv == ASSUME TInv, [Next]_vars PROVE TInv'
<1>1. CASE JobWrites
  BY <1>1, JobWritesType DEF TInv, TypeOK, Entered, JobWrites, poller, sender,
     mainloop
<1>2. CASE UNCHANGED vars
  BY <1>2 DEF TInv, TypeOK, Entered, vars, model, poller, sender, mainloop, bounds
<1> QED
  BY <1>1, <1>2, ServerStepTInv, BrowserStepTInv DEF Next

\* Typing; in particular no document ever carries the parser's placeholder.
THEOREM TypeCorrect == Spec => []TypeOK
<1>1. TInv => TypeOK
  BY DEF TInv
<1> QED
  BY <1>1, InitTInv, StepTInv, PTL DEF Spec

-----------------------------------------------------------------------------
(* Stamps, whoever writes.                                                 *)

Distinct == \A k, l \in Present : elements[k].rev = elements[l].rev => k = l

\* Every stamp is in the past.
Stamped == \A k \in Present : elements[k].rev < revision

\* Neither a browser nor an answer to it is ahead of the model.
Behind ==
    \A b \in Browser : /\ brev[b] <= revision
                       /\ answer[b].rev <= revision

SInv == TInv /\ Distinct /\ Stamped /\ Behind

\* A stamp of its own for each changed element, and no revision taken back.
Restamped ==
    /\ revision' >= revision
    /\ \A k \in Present' :
          \/ k \in Present /\ elements'[k].rev = elements[k].rev
          \/ elements'[k].rev >= revision /\ elements'[k].rev < revision'
    /\ \A k, l \in Present' :
          elements'[k].rev = elements'[l].rev /\ elements'[k].rev >= revision
              => k = l

LEMMA RestampedKeeps ==
    ASSUME SInv, TInv', Restamped
    PROVE  Distinct' /\ Stamped'
<1>1. \A k \in Present : elements[k].rev < revision /\ elements[k].rev \in Nat
  BY DEF SInv, Stamped, TInv, TypeOK, Present, Element
<1>2. \A k \in Present' : elements'[k].rev \in Nat
  BY DEF TInv, TypeOK, Present, Element
<1>3. revision \in Nat /\ revision' \in Nat
  BY DEF SInv, TInv, TypeOK
<1>4. Stamped'
  BY <1>1, <1>2, <1>3 DEF Stamped, Restamped
<1>5. ASSUME NEW k \in Present', NEW l \in Present',
             elements'[k].rev = elements'[l].rev
      PROVE  k = l
  <2>1. CASE elements'[k].rev >= revision
    BY <1>5, <2>1 DEF Restamped
  <2>2. CASE elements'[k].rev < revision
    <3>1. k \in Present /\ elements'[k].rev = elements[k].rev
      BY <1>2, <1>3, <2>2 DEF Restamped
    <3>2. l \in Present /\ elements'[l].rev = elements[l].rev
      BY <1>2, <1>3, <1>5, <2>2 DEF Restamped
    <3> QED
      BY <1>5, <3>1, <3>2 DEF SInv, Distinct
  <2> QED
    BY <1>2, <1>3, <2>1, <2>2
<1> QED
  BY <1>4, <1>5 DEF Distinct

LEMMA JobWritesRestamps == ASSUME SInv, JobWrites PROVE Restamped
<1>1. PICK k \in Key, v \in Value :
        \/ UpdateElement(k, v) \/ RemoveElement(k)
        \/ \E g \in Ranges[k] : UpdateConstraints(k, v, g) \/ AddElement(k, v, g)
  BY SomeWrite, ModelSyncAssumption
<1>2. /\ elements \in [Key -> Element] /\ revision \in Nat
      /\ \A l \in Present : elements[l].rev \in Nat /\ elements[l].rev < revision
  BY DEF SInv, TInv, TypeOK, Stamped, Element, Present
<1>3. \A l \in Key \ {k} : elements'[l] = elements[l]
  BY <1>1, <1>2 DEF UpdateElement, UpdateConstraints, RemoveElement, AddElement
<1>4. CASE UpdateElement(k, v) \/ \E g \in Ranges[k] : AddElement(k, v, g)
  <2>1. elements'[k].rev = revision /\ revision' = revision + 1
    BY <1>2, <1>4 DEF UpdateElement, AddElement, Element
  <2>2. \A l \in Present' : l = k \/ (l \in Present /\ elements'[l] = elements[l])
    BY <1>3 DEF Present
  <2>3. \A l \in Present' : \/ l \in Present /\ elements'[l].rev = elements[l].rev
                            \/ /\ elements'[l].rev >= revision
                               /\ elements'[l].rev < revision'
    BY <1>2, <2>1, <2>2
  <2>4. \A l \in Present' : elements'[l].rev >= revision => l = k
    BY <1>2, <2>2
  <2>5. revision' >= revision
    BY <1>2, <2>1
  <2> QED
    BY <2>3, <2>4, <2>5 DEF Restamped
<1>5. CASE RemoveElement(k) \/ \E g \in Ranges[k] : UpdateConstraints(k, v, g)
  <2>1. /\ elements'[k].rev = elements[k].rev
        /\ elements'[k].present => elements[k].present
        /\ revision' = revision
    BY <1>2, <1>5 DEF UpdateConstraints, RemoveElement, Element
  <2>2. \A l \in Present' :
          l \in Present /\ elements'[l].rev = elements[l].rev
    BY <1>3, <2>1 DEF Present
  <2>3. \A l \in Present' : ~(elements'[l].rev >= revision)
    BY <1>2, <2>2
  <2>4. revision' >= revision
    BY <1>2, <2>1
  <2> QED
    BY <2>2, <2>3, <2>4 DEF Restamped
<1> QED
  BY <1>1, <1>4, <1>5

LEMMA DocumentRestamps ==
    ASSUME SInv, NEW doc \in Document, NEW ks \in SUBSET KeysOf(doc),
           UpdateFromDocument(ks, doc)
    PROVE  Restamped
<1>1. elements \in [Key -> Element] /\ revision \in Nat
  BY DEF SInv, TInv, TypeOK
<1>2. /\ revision' >= revision /\ Present' = Present /\ ks \subseteq Present
      /\ \A k \in ks : /\ elements'[k].rev >= revision
                       /\ elements'[k].rev < revision'
      /\ \A k, l \in ks : elements'[k].rev = elements'[l].rev => k = l
      /\ \A k \in Key \ ks : elements'[k] = elements[k]
  BY <1>1, UpdateFromDocumentType
<1>3. \A k \in Present' \ ks : k \in Present /\ elements'[k] = elements[k]
  BY <1>2 DEF Present
<1>4. \A k \in Present : elements[k].rev < revision /\ elements[k].rev \in Nat
  BY <1>1 DEF SInv, Stamped, Present, Element
<1>5. \A k \in Present' : elements'[k].rev >= revision => k \in ks
  BY <1>1, <1>3, <1>4
<1>6. \A k, l \in Present' :
        elements'[k].rev = elements'[l].rev /\ elements'[k].rev >= revision
            => k = l
  BY <1>2, <1>5
<1>7. \A k \in Present' :
        \/ k \in Present /\ elements'[k].rev = elements[k].rev
        \/ elements'[k].rev >= revision /\ elements'[k].rev < revision'
  BY <1>2, <1>3
<1> QED
  BY <1>2, <1>6, <1>7 DEF Restamped

LEMMA ModelStepStamps ==
    ASSUME SInv, [Next]_vars, TInv'
    PROVE  Distinct' /\ Stamped' /\ revision' >= revision
<1>1. CASE UNCHANGED <<elements, revision>>
  BY <1>1 DEF SInv, Distinct, Stamped, Present, TInv, TypeOK
<1>2. CASE JobWrites
  BY <1>2, JobWritesRestamps, RestampedKeeps DEF Restamped
<1>3. ASSUME NEW b \in Browser, ServerUpdates(b)
      PROVE  Distinct' /\ Stamped' /\ revision' >= revision
  <2>1. PICK ks \in SUBSET KeysOf(xml[b]) : UpdateFromDocument(ks, xml[b])
    BY <1>3 DEF ServerUpdates
  <2>2. xml[b] \in Document
    BY DEF SInv, TInv, TypeOK
  <2> QED
    BY <2>1, <2>2, DocumentRestamps, RestampedKeeps DEF Restamped
<1> QED
  BY <1>1, <1>2, <1>3 DEF Next, ServerNext, BrowserNext, ServerReadsSchema,
     ServerReadsState, ServerReadsRevision, Poll, PollFails, HandleUpdate, Edit,
     Retry, PostDone, PostFails, PostError, vars, model

LEMMA StepBehind ==
    ASSUME SInv, [Next]_vars, TInv', revision' >= revision
    PROVE  Behind'
<1>1. \A b \in Browser : /\ brev[b] \in Nat /\ answer[b].rev \in Nat
                         /\ brev[b] <= revision /\ answer[b].rev <= revision
  BY DEF SInv, TInv, TypeOK, Behind
<1>2. revision \in Nat /\ revision' \in Nat
  BY DEF SInv, TInv, TypeOK
<1>3. \A b \in Browser :
        /\ brev'[b] \in {brev[b], answer[b].rev}
        /\ answer'[b].rev \in {answer[b].rev, 0, revision}
  <2>1. CASE JobWrites \/ UNCHANGED vars
    BY <2>1 DEF JobWrites, vars, poller
  <2>2. ASSUME NEW c \in Browser, ServerNext(c)
        PROVE  /\ UNCHANGED brev
               /\ \A b \in Browser :
                     answer'[b].rev \in {answer[b].rev, 0, revision}
    <3>1. CASE ServerUpdates(c)
      BY <3>1 DEF ServerUpdates, poller
    <3>2. CASE ServerReadsSchema(c)
      BY <3>2 DEF ServerReadsSchema, SInv, TInv, TypeOK
    <3>3. CASE ServerReadsState(c)
      <4>1. /\ UNCHANGED brev
            /\ \/ \E d : answer' = [answer EXCEPT ![c].state = d]
               \/ answer' = [answer EXCEPT ![c] = NoAnswer]
        BY <3>3 DEF ServerReadsState
      <4>2. /\ answer \in [Browser -> [schema : SUBSET Key, state : Document,
                                       rev : Nat]]
            /\ NoAnswer.rev = 0
        BY DEF NoAnswer, SInv, TInv, TypeOK
      <4>3. CASE answer' = [answer EXCEPT ![c] = NoAnswer]
        BY <4>1, <4>2, <4>3
      <4>4. CASE \E d : answer' = [answer EXCEPT ![c].state = d]
        <5>1. PICK d : answer' = [answer EXCEPT ![c].state = d]
          BY <4>4
        <5>2. \A b \in Browser : answer'[b].rev = answer[b].rev
          BY <4>2, <5>1
        <5> QED
          BY <4>1, <5>2
      <4> QED
        BY <4>1, <4>3, <4>4
    <3>4. CASE ServerReadsRevision(c)
      BY <3>4 DEF ServerReadsRevision, SInv, TInv, TypeOK
    <3> QED
      BY <2>2, <3>1, <3>2, <3>3, <3>4 DEF ServerNext
  <2>3. ASSUME NEW c \in Browser, BrowserNext(c)
        PROVE  \A b \in Browser :
                  /\ brev'[b] \in {brev[b], answer[b].rev}
                  /\ answer'[b].rev \in {answer[b].rev, 0}
    <3>1. CASE PollFails(c)
      BY <3>1 DEF PollFails, NoAnswer, SInv, TInv, TypeOK
    <3>2. CASE HandleUpdate(c)
      BY <3>2 DEF HandleUpdate, NoAnswer, SInv, TInv, TypeOK
    <3>3. CASE UNCHANGED <<brev, answer>>
      BY <3>3
    <3> QED
      BY <2>3, <3>1, <3>2, <3>3 DEF BrowserNext, Poll, Edit, Retry, PostDone,
         PostFails, PostError, poller
  <2> QED
    BY <2>1, <2>2, <2>3 DEF Next
<1> QED
  BY <1>1, <1>2, <1>3 DEF Behind

\* Whatever is done to the model, by whomever and when: no two elements share
\* a stamp, and no browser is ahead of the model, so that the next change of
\* any element is sent to every browser.
THEOREM StampsStayFresh == Spec => []StampsAreFresh
<1>1. Init => SInv
  <2>1. Init => TInv
    BY InitTInv
  <2>2. Init => Distinct
    <3> SUFFICES ASSUME Init PROVE Distinct
      OBVIOUS
    <3>1. PICK v \in [Key -> Value], r \in [Key -> 0..Cardinality(AtStart)] :
            /\ \A k, l \in AtStart : r[k] = r[l] => k = l
            /\ \A k \in Key : /\ elements[k].present = (k \in AtStart)
                             /\ elements[k].rev = r[k]
      BY DEF Init, ModelInit
    <3>2. \A k \in Present : k \in AtStart /\ elements[k].rev = r[k]
      BY <3>1 DEF Present
    <3>3. \A k, l \in AtStart : r[k] = r[l] => k = l
      BY <3>1
    <3> QED
      BY <3>2, <3>3 DEF Distinct
  <2>3. Init => Stamped
    BY ModelInitType DEF Init, Stamped
  <2>4. Init => Behind
    BY <2>1 DEF Init, NoAnswer, Behind, TInv, TypeOK
  <2> QED
    BY <2>1, <2>2, <2>3, <2>4 DEF SInv
<1>2. SInv /\ [Next]_vars => SInv'
  <2> SUFFICES ASSUME SInv, [Next]_vars PROVE SInv'
    OBVIOUS
  <2>1. TInv'
    BY StepTInv DEF SInv
  <2> QED
    BY <2>1, ModelStepStamps, StepBehind DEF SInv
<1>3. SInv => StampsAreFresh
  BY DEF SInv, Stamped, Distinct, Behind, StampsAreFresh
<1> QED
  BY <1>1, <1>2, <1>3, PTL DEF Spec

-----------------------------------------------------------------------------
(* The parser and the sender, whoever writes: no thread of the job but the *)
(* mainloop's adds elements.                                               *)

NoLateKeys == WorkersWrite => "add" \notin JobOps

\* The mainloop is idle, or it works on the poll of some browser.
Serving ==
    /\ srv = "idle" <=> serving = None
    /\ \A b \in Browser : serving = b => poll[b] = "asked"

\* A schema that was read before the values has the keys of all of them.
Explained(b) ==
    /\ srv = "schema" /\ serving = b => Present \subseteq answer[b].schema
    /\ (srv = "state" /\ serving = b) \/ poll[b] = "answered" =>
           KeysOf(answer[b].state) \subseteq answer[b].schema

\* What the sender holds back, and what it has under way.
Sending(b) ==
    /\ post[b] # "none" => KeysOf(xml[b]) \subseteq keys[b]
    /\ post[b] # "none" /\ ~pendingXML[b] => xml[b] = Snapshot(copy[b], keys[b])
    /\ keys[b] # {} => post[b] # "none" \/ retry[b] > 0

PInv == /\ TInv /\ Serving
        /\ \A b \in Browser : Explained(b) /\ ~parsing[b] /\ Sending(b)

LEMMA SnapshotSame ==
    ASSUME NEW c, NEW d, NEW ks \in SUBSET Key, \A k \in ks : c[k] = d[k]
    PROVE  Snapshot(c, ks) = Snapshot(d, ks)
BY DEF Snapshot

LEMMA SnapshotKeys ==
    ASSUME NEW c, NEW ks PROVE KeysOf(Snapshot(c, ks)) \subseteq ks
BY DEF KeysOf, Snapshot

LEMMA InitPInv == ASSUME Init PROVE PInv
<1>1. Serving
  BY ModelSyncAssumption DEF Init, Serving
<1>2. ASSUME NEW b \in Browser PROVE Explained(b) /\ ~parsing[b] /\ Sending(b)
  BY DEF Init, Explained, Sending
<1> QED
  BY <1>1, <1>2, InitTInv DEF PInv

LEMMA JobWritesPInv ==
    ASSUME NoLateKeys, PInv, JobWrites, TInv' PROVE PInv'
<1>1. UNCHANGED <<poller, sender, mainloop>>
  BY DEF JobWrites
<1>2. srv # "idle" => Present' \subseteq Present
  <2> SUFFICES ASSUME srv # "idle" PROVE Present' \subseteq Present
    OBVIOUS
  <2>1. PICK k \in Key, v \in Value :
          \/ UpdateElement(k, v) \/ RemoveElement(k)
          \/ \E g \in Ranges[k] : UpdateConstraints(k, v, g)
    <3>1. "add" \notin JobOps
      BY DEF JobWrites, NoLateKeys
    <3> QED
      BY <3>1, SomeWrite, ModelSyncAssumption
  <2>2. elements \in [Key -> Element]
    BY DEF PInv, TInv, TypeOK
  <2>3. \A l \in Key : elements'[l].present => elements[l].present
    <3>1. \A l \in Key \ {k} : elements'[l] = elements[l]
      BY <2>1, <2>2 DEF UpdateElement, UpdateConstraints, RemoveElement
    <3>2. elements[k].present
      BY <2>1 DEF UpdateElement, UpdateConstraints, RemoveElement
    <3> QED
      BY <3>1, <3>2
  <2> QED
    BY <2>3 DEF Present
<1>3. Serving'
  BY <1>1 DEF PInv, Serving, poller, mainloop
<1>4. ASSUME NEW b \in Browser PROVE (Explained(b) /\ ~parsing[b] /\ Sending(b))'
  <2>1. Explained(b)'
    BY <1>1, <1>2 DEF PInv, Explained, poller, mainloop
  <2>2. (~parsing[b] /\ Sending(b))'
    BY <1>1 DEF PInv, Sending, poller, sender
  <2> QED
    BY <2>1, <2>2
<1> QED
  BY <1>3, <1>4 DEF PInv

LEMMA ServerPInv ==
    ASSUME PInv, NEW b \in Browser, ServerNext(b), TInv' PROVE PInv'
<1>1. CASE ServerUpdates(b)
  <2>1. /\ post' = [post EXCEPT ![b] = "ok"] /\ post[b] = "sent"
        /\ srv = "idle"
        /\ UNCHANGED <<poller, mainloop, keys, pendingXML, xml, retry>>
    BY <1>1 DEF ServerUpdates
  <2>2. Serving' /\ \A c \in Browser : Explained(c)' /\ ~parsing'[c]
    <3>1. \A c \in Browser : poll[c] = "answered" =>
            KeysOf(answer[c].state) \subseteq answer[c].schema
      BY DEF PInv, Explained
    <3> QED
      BY <2>1, <3>1 DEF PInv, Serving, Explained, poller, mainloop
  <2>3. ASSUME NEW c \in Browser PROVE Sending(c)'
    BY <2>1 DEF PInv, TInv, TypeOK, Sending, poller
  <2> QED
    BY <2>2, <2>3 DEF PInv
<1>2. CASE \/ ServerReadsSchema(b) \/ ServerReadsState(b)
           \/ ServerReadsRevision(b)
  <2>1. /\ UNCHANGED <<model, copy, brev, parsing, sender>>
        /\ poll' = [poll EXCEPT ![b] = poll'[b]]
        /\ answer' = [answer EXCEPT ![b] = answer'[b]]
    BY <1>2 DEF ServerReadsSchema, ServerReadsState, ServerReadsRevision, PInv,
       TInv, TypeOK
  <2>2. poll[b] = "asked" /\ serving \in {None, b} /\ serving' \in {None, b}
    BY <1>2 DEF PInv, Serving, ServerReadsSchema, ServerReadsState,
       ServerReadsRevision
  <2>3. Serving'
    <3>1. CASE ServerReadsSchema(b) \/ ServerReadsState(b)
      BY <2>2, <3>1, ModelSyncAssumption DEF PInv, Serving, ServerReadsSchema,
         ServerReadsState
    <3>2. CASE ServerReadsRevision(b)
      BY <2>2, <3>2, ModelSyncAssumption DEF Serving, ServerReadsRevision
    <3> QED
      BY <1>2, <3>1, <3>2
  <2>4. ASSUME NEW c \in Browser PROVE ~parsing'[c] /\ Sending(c)'
    BY <2>1 DEF PInv, Sending, sender
  <2>5. ASSUME NEW c \in Browser, c # b PROVE Explained(c)'
    <3>1. /\ poll'[c] = poll[c] /\ answer'[c] = answer[c]
          /\ serving # c /\ serving' # c
      BY <2>1, <2>2, <2>5, ModelSyncAssumption DEF PInv, TInv, TypeOK
    <3> QED
      BY <3>1 DEF PInv, Explained
  <2>6. Explained(b)'
    <3>1. CASE ServerReadsSchema(b)
      BY <2>1, <2>2, <3>1 DEF PInv, TInv, TypeOK, ServerReadsSchema,
         FullStateSchema, Explained, Present, model
    <3>2. CASE ServerReadsState(b)
      <4>1. CASE srv' = "idle"
        BY <2>2, <3>2, <4>1 DEF ServerReadsState, Explained
      <4>2. CASE srv' # "idle"
        <5> DEFINE delta == StateUpdate(brev[b])
                   sent == [k \in Key |-> IF k \in delta THEN CurrentValues[k]
                                                         ELSE None]
        <5>1. /\ srv = "schema" /\ serving = b /\ srv' = "state"
              /\ answer' = [answer EXCEPT ![b].state = sent]
          BY <3>2, <4>2 DEF ServerReadsState
        <5>2. /\ answer'[b].schema = answer[b].schema
              /\ answer'[b].state = sent
          BY <5>1 DEF PInv, TInv, TypeOK
        <5>3. KeysOf(sent) \subseteq Present
          BY DEF KeysOf, StateUpdate
        <5>4. Present \subseteq answer[b].schema
          BY <5>1 DEF PInv, Explained
        <5> HIDE DEF sent
        <5> QED
          BY <5>1, <5>2, <5>3, <5>4 DEF Explained
      <4> QED
        BY <4>1, <4>2
    <3>3. CASE ServerReadsRevision(b)
      <4>1. /\ answer'[b].state = answer[b].state
            /\ answer'[b].schema = answer[b].schema
            /\ srv' = "idle" /\ srv = "state" /\ serving = b
        BY <3>3 DEF ServerReadsRevision, PInv, TInv, TypeOK
      <4> QED
        BY <4>1 DEF PInv, Explained
    <3> QED
      BY <1>2, <3>1, <3>2, <3>3
  <2> QED
    BY <2>3, <2>4, <2>5, <2>6 DEF PInv
<1> QED
  BY <1>1, <1>2 DEF ServerNext

\* The poll of one browser comes to an end.
LEMMA PollPInv ==
    ASSUME PInv, NEW b \in Browser, TInv', Poll(b) \/ PollFails(b)
    PROVE  PInv'
<1>1. /\ UNCHANGED <<model, copy, brev, parsing, sender, mainloop>>
      /\ poll' = [poll EXCEPT ![b] = poll'[b]]
      /\ answer' = [answer EXCEPT ![b] = answer'[b]]
      /\ poll'[b] # "answered" /\ serving # b
  BY DEF Poll, PollFails, PInv, TInv, TypeOK, Serving
<1>2. Serving'
  BY <1>1 DEF PInv, Serving, mainloop, TInv, TypeOK
<1>3. ASSUME NEW c \in Browser PROVE ~parsing'[c] /\ Sending(c)'
  BY <1>1 DEF PInv, Sending, sender
<1>4. ASSUME NEW c \in Browser PROVE Explained(c)'
  <2>1. CASE c = b
    BY <1>1, <2>1 DEF Explained, mainloop
  <2>2. CASE c # b
    <3>1. poll'[c] = poll[c] /\ answer'[c] = answer[c]
      BY <1>1, <2>2 DEF PInv, TInv, TypeOK
    <3> QED
      BY <1>1, <3>1 DEF PInv, Explained, Present, model, mainloop
  <2> QED
    BY <2>1, <2>2
<1> QED
  BY <1>2, <1>3, <1>4 DEF PInv

\* Every update parses, to its end.
LEMMA UpdateParses ==
    ASSUME PInv, NEW b \in Browser, HandleUpdate(b)
    PROVE  /\ KeysOf(answer[b].state) \subseteq answer[b].schema
           /\ copy' = [copy EXCEPT ![b] = Parsed(b, KeysOf(answer[b].state))]
           /\ brev' = [brev EXCEPT ![b] = answer[b].rev]
           /\ parsing' = [parsing EXCEPT ![b] = FALSE]
<1>1. KeysOf(answer[b].state) \subseteq answer[b].schema
  BY DEF HandleUpdate, PInv, Explained
<1> QED
  BY <1>1 DEF HandleUpdate

LEMMA HandleUpdatePInv ==
    ASSUME PInv, NEW b \in Browser, TInv', HandleUpdate(b) PROVE PInv'
<1> DEFINE delta == KeysOf(answer[b].state)
<1>1. /\ UNCHANGED <<model, sender, mainloop>> /\ poll[b] = "answered"
      /\ poll' = [poll EXCEPT ![b] = "none"]
      /\ answer' = [answer EXCEPT ![b] = NoAnswer]
  BY DEF HandleUpdate
<1>2. Serving' /\ serving # b
  BY <1>1 DEF PInv, TInv, TypeOK, Serving, mainloop
<1>3. ASSUME NEW c \in Browser, c # b
      PROVE  (Explained(c) /\ ~parsing[c] /\ Sending(c))'
  <2>1. /\ copy'[c] = copy[c] /\ parsing'[c] = parsing[c]
        /\ poll'[c] = poll[c] /\ answer'[c] = answer[c]
    BY <1>1, <1>3, UpdateParses DEF PInv, TInv, TypeOK
  <2> QED
    BY <1>1, <2>1 DEF PInv, Explained, Sending, model, sender, mainloop, Present
<1>4. Explained(b)' /\ ~parsing'[b]
  BY <1>1, <1>2, UpdateParses DEF PInv, TInv, TypeOK, Explained, mainloop
<1>5. Sending(b)'
  <2>1. copy'[b] = Parsed(b, delta) /\ keys[b] \in SUBSET Key
    BY UpdateParses DEF PInv, TInv, TypeOK
  <2>2. \A k \in keys[b] : copy'[b][k] = copy[b][k]
    BY <2>1, ParsedType DEF PInv
  <2>3. Snapshot(copy'[b], keys[b]) = Snapshot(copy[b], keys[b])
    BY <2>1, <2>2, SnapshotSame
  <2> QED
    BY <1>1, <2>3 DEF PInv, Sending, sender
<1> QED
  BY <1>2, <1>3, <1>4, <1>5 DEF PInv

\* A step of one sender concerns that browser's Sending only.
LEMMA SenderPInv ==
    ASSUME PInv, NEW b \in Browser, TInv', Sending(b)',
           \A c \in Browser \ {b} :
              /\ copy'[c] = copy[c] /\ keys'[c] = keys[c]
              /\ pendingXML'[c] = pendingXML[c] /\ post'[c] = post[c]
              /\ xml'[c] = xml[c] /\ retry'[c] = retry[c],
           UNCHANGED <<model, parsing, poll, answer, mainloop>>
    PROVE  PInv'
<1>1. Serving' /\ \A c \in Browser : Explained(c)' /\ ~parsing'[c]
  BY DEF PInv, Serving, Explained, Present, model, mainloop
<1>2. \A c \in Browser \ {b} : Sending(c)'
  BY DEF PInv, Sending
<1> QED
  BY <1>1, <1>2 DEF PInv

\* What an edit does to a browser whose parser is not stuck.
EditedCopy(b, k, v) == [copy[b] EXCEPT ![k] = v]
Marked(b, k) == keys[b] \cup {k}

LEMMA Edited ==
    ASSUME PInv, NEW b \in Browser, NEW k \in EditKeys[b], NEW v \in Value,
           Edit(b, k, v)
    PROVE  /\ k \in Key /\ copy[b][k] # None
           /\ copy'[b] = EditedCopy(b, k, v) /\ keys'[b] = Marked(b, k)
           /\ Marked(b, k) \in SUBSET Key
           /\ StartUpdate(b, EditedCopy(b, k, v), Marked(b, k))
           /\ KeysOf(copy'[b]) = KeysOf(copy[b])
           /\ UNCHANGED <<model, brev, parsing, poll, answer, retry, mainloop>>
           /\ \A d \in Browser \ {b} :
                 /\ copy'[d] = copy[d] /\ keys'[d] = keys[d]
                 /\ pendingXML'[d] = pendingXML[d] /\ post'[d] = post[d]
                 /\ xml'[d] = xml[d] /\ retry'[d] = retry[d]
<1>1. ~parsing[b] /\ copy[b][k] # None /\ k \in Key
  BY ModelSyncAssumption DEF PInv, Edit
<1>2. /\ copy' = [copy EXCEPT ![b] = EditedCopy(b, k, v)]
      /\ keys' = [keys EXCEPT ![b] = Marked(b, k)]
      /\ StartUpdate(b, EditedCopy(b, k, v), Marked(b, k))
      /\ UNCHANGED <<model, brev, parsing, poll, answer, retry, mainloop>>
  BY <1>1 DEF Edit, EditedCopy, Marked
<1>3. /\ copy'[b] = EditedCopy(b, k, v) /\ keys'[b] = Marked(b, k)
      /\ Marked(b, k) \in SUBSET Key
  BY <1>1, <1>2 DEF PInv, TInv, TypeOK, Marked
<1>4. KeysOf(copy'[b]) = KeysOf(copy[b])
  BY <1>1, <1>3, ModelSyncAssumption DEF KeysOf, EditedCopy, PInv, TInv, TypeOK
<1>5. \A d \in Browser \ {b} :
        /\ copy'[d] = copy[d] /\ keys'[d] = keys[d]
        /\ pendingXML'[d] = pendingXML[d] /\ post'[d] = post[d]
        /\ xml'[d] = xml[d] /\ retry'[d] = retry[d]
  BY <1>2 DEF StartUpdate, Send, PInv, TInv, TypeOK
<1> QED
  BY <1>1, <1>2, <1>3, <1>4, <1>5

LEMMA EditPInv ==
    ASSUME PInv, NEW b \in Browser, NEW k \in EditKeys[b], NEW v \in Value,
           Edit(b, k, v), TInv'
    PROVE  PInv'
<1>1. /\ copy'[b] = EditedCopy(b, k, v) /\ keys'[b] = Marked(b, k)
      /\ StartUpdate(b, EditedCopy(b, k, v), Marked(b, k))
  BY Edited
<1>2. CASE post[b] # "none"
  <2>1. pendingXML'[b] /\ post' = post /\ xml' = xml
    BY <1>1, <1>2 DEF StartUpdate, PInv, TInv, TypeOK
  <2>2. Sending(b)'
    BY <1>1, <1>2, <2>1 DEF PInv, Sending, Marked
  <2> QED
    BY <2>2, Edited, SenderPInv
<1>3. CASE post[b] = "none"
  <2>1. post'[b] = "sent" /\ xml'[b] = Snapshot(copy'[b], keys'[b])
    BY <1>1, <1>3 DEF StartUpdate, Send, PInv, TInv, TypeOK
  <2>2. Sending(b)'
    BY <2>1, SnapshotKeys DEF Sending
  <2> QED
    BY <2>2, Edited, SenderPInv
<1> QED
  BY <1>2, <1>3

LEMMA RetryPInv ==
    ASSUME PInv, NEW b \in Browser, Retry(b), TInv'
    PROVE  PInv'
<1>1. /\ StartUpdate(b, copy[b], keys[b])
      /\ UNCHANGED <<model, poller, keys, mainloop>>
      /\ retry' = [retry EXCEPT ![b] = @ - 1]
  BY DEF Retry, PInv
<1>2. Sending(b)'
  <2>1. CASE post[b] # "none"
    BY <1>1, <2>1 DEF StartUpdate, PInv, TInv, TypeOK, Sending, poller
  <2>2. CASE post[b] = "none"
    <3>1. post'[b] = "sent" /\ xml'[b] = Snapshot(copy[b], keys[b])
      BY <1>1, <2>2 DEF StartUpdate, Send, PInv, TInv, TypeOK
    <3> QED
      BY <1>1, <3>1, SnapshotKeys DEF Sending, poller
  <2> QED
    BY <2>1, <2>2
<1>3. \A d \in Browser \ {b} :
        /\ copy'[d] = copy[d] /\ keys'[d] = keys[d]
        /\ pendingXML'[d] = pendingXML[d] /\ post'[d] = post[d]
        /\ xml'[d] = xml[d] /\ retry'[d] = retry[d]
  BY <1>1 DEF StartUpdate, Send, PInv, TInv, TypeOK, poller
<1> QED
  BY <1>1, <1>2, <1>3, SenderPInv DEF poller

LEMMA PostDonePInv ==
    ASSUME PInv, NEW b \in Browser, PostDone(b), TInv'
    PROVE  PInv'
<1>1. post[b] = "ok" /\ UNCHANGED <<model, poller, retry, mainloop>>
  BY DEF PostDone
<1>2. Sending(b)'
  <2>1. CASE pendingXML[b]
    <3>1. /\ pendingXML'[b] = FALSE /\ keys' = keys
          /\ post'[b] = "sent" /\ xml'[b] = Snapshot(copy[b], keys[b])
      BY <2>1 DEF PostDone, Send, PInv, TInv, TypeOK
    <3> QED
      BY <1>1, <3>1, SnapshotKeys DEF Sending, poller
  <2>2. CASE ~pendingXML[b]
    <3>1. keys'[b] = {} /\ post'[b] = "none"
      BY <2>2 DEF PostDone, PInv, TInv, TypeOK
    <3> QED
      BY <3>1 DEF Sending
  <2> QED
    BY <2>1, <2>2
<1>3. \A d \in Browser \ {b} :
        /\ copy'[d] = copy[d] /\ keys'[d] = keys[d]
        /\ pendingXML'[d] = pendingXML[d] /\ post'[d] = post[d]
        /\ xml'[d] = xml[d] /\ retry'[d] = retry[d]
  BY <1>1 DEF PostDone, Send, PInv, TInv, TypeOK, poller
<1> QED
  BY <1>1, <1>2, <1>3, SenderPInv DEF poller

LEMMA PostFailsPInv ==
    ASSUME PInv, NEW b \in Browser, PostFails(b) \/ PostError(b), TInv'
    PROVE  PInv'
<1>1. /\ UNCHANGED <<model, poller, keys, pendingXML, xml, mainloop>>
      /\ post[b] # "none" /\ post'[b] \in {"failed", "none"}
      /\ post'[b] = "none" => retry'[b] > 0
  BY DEF PostFails, PostError, PInv, TInv, TypeOK
<1>2. Sending(b)'
  BY <1>1 DEF PInv, Sending, poller
<1>3. \A d \in Browser \ {b} : post'[d] = post[d] /\ retry'[d] = retry[d]
  BY DEF PostFails, PostError, PInv, TInv, TypeOK
<1> QED
  BY <1>1, <1>2, <1>3, SenderPInv DEF poller

LEMMA StepPInv == ASSUME NoLateKeys, PInv, [Next]_vars PROVE PInv'
<1>1. TInv'
  BY StepTInv DEF PInv
<1>2. CASE UNCHANGED vars
  BY <1>1, <1>2 DEF PInv, Serving, Explained, Sending, Present, vars, model,
     poller, sender, mainloop
<1>3. CASE JobWrites
  BY <1>1, <1>3, JobWritesPInv
<1>4. ASSUME NEW b \in Browser, ServerNext(b) PROVE PInv'
  BY <1>1, <1>4, ServerPInv
<1>5. ASSUME NEW b \in Browser, BrowserNext(b) PROVE PInv'
  BY <1>1, <1>5, PollPInv, HandleUpdatePInv, EditPInv, RetryPInv,
     PostDonePInv, PostFailsPInv DEF BrowserNext
<1> QED
  BY <1>2, <1>3, <1>4, <1>5 DEF Next

\* No browser ever meets the value of an element that it has not been told of,
\* although schema and elements are read under two locks: the parser's assertion
\* holds whoever writes, unless a thread of the job other than the mainloop's
\* adds elements.
THEOREM UpdatesAlwaysParse == ASSUME NoLateKeys PROVE Spec => []UpdatesParse
<1>1. PInv => UpdatesParse
  BY DEF PInv, Explained, UpdatesParse
<1> QED
  BY <1>1, InitPInv, StepPInv, PTL DEF Spec

\* As long as every update parses, the sender never sits on an edit: while one
\* is not acknowledged, a POST is under way or a timer is set.
THEOREM EditsAreSent == ASSUME NoLateKeys PROVE Spec => []EditsAreOnTheirWay
<1>1. PInv => EditsAreOnTheirWay
  BY DEF PInv, EditsAreOnTheirWay, Sending
<1> QED
  BY <1>1, InitPInv, StepPInv, PTL DEF Spec

\* And what it has under way is what the user sees, or it will send again.
THEOREM SentIsCurrent == ASSUME NoLateKeys PROVE Spec => []InFlightIsCurrent
<1>1. PInv => InFlightIsCurrent
  BY DEF PInv, InFlightIsCurrent, Sending
<1> QED
  BY <1>1, InitPInv, StepPInv, PTL DEF Spec

-----------------------------------------------------------------------------
(* What an acknowledgement means, whoever writes.                          *)

\* The answer OK is earned: the values of the document are in the model; or the
\* job has removed one of the elements; or one has refused the user's value, and
\* is stamped, so that what it has goes back to the browser.
THEOREM AcknowledgedIsApplied == Spec => AckedIsApplied
<1> DEFINE Applied(b) ==
        post[b] = "sent" /\ post'[b] = "ok" =>
            \/ \A k \in KeysOf(xml[b]) :
                  k \in Present /\ elements'[k].value = xml[b][k]
            \/ ~(KeysOf(xml[b]) \subseteq Present)
            \/ \E k \in KeysOf(xml[b]) : /\ xml[b][k] \notin elements[k].legal
                                         /\ elements'[k].rev >= revision
<1>1. ASSUME TInv, [Next]_vars, NEW b \in Browser PROVE Applied(b)
  <2>1. CASE ServerUpdates(b)
    <3> DEFINE doc == KeysOf(xml[b])
    <3>1. PICK ks \in SUBSET doc :
            /\ ks = doc \/ ~(doc \subseteq Present) \/ Refused(ks, xml[b]) # {}
            /\ UpdateFromDocument(ks, xml[b])
      BY <2>1 DEF ServerUpdates
    <3>2. xml[b] \in Document /\ elements \in [Key -> Element] /\ revision \in Nat
      BY <1>1 DEF TInv, TypeOK
    <3>3. /\ ks \subseteq Present
          /\ \A k \in ks : elements'[k].rev >= revision
          /\ \A k \in ks \ Refused(ks, xml[b]) : elements'[k].value = xml[b][k]
      BY <3>1, <3>2, UpdateFromDocumentType
    <3>4. CASE Refused(ks, xml[b]) # {}
      BY <3>1, <3>3, <3>4 DEF Refused
    <3>5. CASE Refused(ks, xml[b]) = {} /\ ks = doc
      BY <3>3, <3>5
    <3>6. CASE ~(doc \subseteq Present)
      BY <3>6
    <3> QED
      BY <3>1, <3>4, <3>5, <3>6
  <2>2. CASE ~ServerUpdates(b)
    <3>1. ASSUME NEW c \in Browser, ServerNext(c) PROVE Applied(b)
      BY <1>1, <2>2, <3>1 DEF ServerNext, ServerReadsSchema, ServerReadsState,
         ServerReadsRevision, ServerUpdates, sender, TInv, TypeOK
    <3>2. ASSUME NEW c \in Browser, BrowserNext(c) PROVE Applied(b)
      BY <1>1, <3>2 DEF BrowserNext, Poll, PollFails, HandleUpdate, Edit, Retry,
         StartUpdate, Send, PostDone, PostFails, PostError, sender, TInv, TypeOK
    <3>3. CASE JobWrites \/ UNCHANGED vars
      BY <3>3 DEF JobWrites, vars, sender
    <3> QED
      BY <1>1, <3>1, <3>2, <3>3 DEF Next
  <2> QED
    BY <2>1, <2>2
<1>2. TInv /\ [Next]_vars => \A b \in Browser : Applied(b)
  BY <1>1
<1> QED
  BY <1>2, InitTInv, StepTInv, PTL DEF Spec, AckedIsApplied

-----------------------------------------------------------------------------
(* The job has no threads of its own that write, and nothing has two       *)
(* writers.  Elements come and go.  What a user may edit takes whatever    *)
(* the user may enter.                                                     *)

OneWriter ==
    /\ ~WorkersWrite
    /\ JobOps \subseteq {"update", "add", "remove"}
    /\ \A b \in Browser : EditKeys[b] \cap JobKeys = {}
    /\ \A b, c \in Browser : b # c => EditKeys[b] \cap EditKeys[c] = {}
    /\ \A b \in Browser : \A k \in EditKeys[b] : Ranges[k] = {Value}

\* An answer that claims revision r has the value of every element that was
\* stamped before r and since the browser's own revision.
Covers(b, r) ==
    \A k \in Present : elements[k].rev < r =>
        IF answer[b].state[k] = None THEN elements[k].rev < brev[b]
        ELSE answer[b].state[k] = elements[k].value

AnswerFits(b) ==
    /\ srv = "state" /\ serving = b => Covers(b, revision)
    /\ poll[b] = "answered" =>
          Covers(b, answer[b].rev) /\ answer[b].rev <= revision

\* The browser is not ahead of the model, and what its user may edit is there.
InTune(b) ==
    /\ brev[b] <= revision
    /\ \A k \in EditKeys[b] :
          copy[b][k] # None \/ k \in answer[b].schema => k \in Present

\* The keys that are marked are the user's, and what has arrived of them is in
\* the model.
Arriving(b) ==
    /\ keys[b] \subseteq EditKeys[b]
    /\ post[b] = "ok" =>
          \A k \in KeysOf(xml[b]) : elements[k].value = xml[b][k]

CaughtUp(b) ==
    \A k \in Present \ keys[b] :
        copy[b][k] # elements[k].value => elements[k].rev >= brev[b]

IInv ==
    /\ PInv /\ Stamped
    /\ \A b \in Browser :
          AnswerFits(b) /\ InTune(b) /\ Arriving(b) /\ CaughtUp(b)

LEMMA OneWriterNoLateKeys == ASSUME OneWriter PROVE NoLateKeys
BY DEF OneWriter, NoLateKeys

LEMMA InitIInv == ASSUME Init PROVE IInv
<1>1. PInv /\ Stamped
  BY InitPInv, ModelInitType DEF Init, Stamped
<1>2. revision \in Nat
  BY <1>1 DEF PInv, TInv, TypeOK
<1>3. ASSUME NEW b \in Browser
      PROVE  AnswerFits(b) /\ InTune(b) /\ Arriving(b) /\ CaughtUp(b)
  <2>1. /\ \A k \in EditKeys[b] : copy[b][k] = None /\ k \notin answer[b].schema
        /\ brev[b] = 0 /\ keys[b] = {}
    BY ModelSyncAssumption DEF Init, NoDocument, NoAnswer
  <2>2. \A k \in Present : elements[k].rev \in Nat
    BY <1>1 DEF PInv, TInv, TypeOK, Element, Present
  <2> QED
    BY <1>2, <2>1, <2>2 DEF Init, AnswerFits, InTune, Arriving, CaughtUp
<1> QED
  BY <1>1, <1>3 DEF IInv

-----------------------------------------------------------------------------
(* The model changes: the elements ks get new stamps, and new values; of   *)
(* the others some go.                                                     *)

LEMMA ModelChange ==
    ASSUME IInv, NEW ks \in SUBSET Key, srv = "idle",
           revision' \in Nat, revision' >= revision,
           elements' \in [Key -> Element],
           \A k \in ks : elements'[k].rev >= revision
                         /\ elements'[k].rev < revision',
           \A k \in Present' \ ks : k \in Present /\ elements'[k] = elements[k],
           \A b \in Browser : EditKeys[b] \cap Present \subseteq Present',
           UNCHANGED <<poller, mainloop, keys>>
    PROVE  /\ Stamped'
           /\ \A b \in Browser : AnswerFits(b)' /\ InTune(b)' /\ CaughtUp(b)'
<1>1. \A k \in Present' : k \in Key
  BY DEF Present
<1>2. /\ revision \in Nat
      /\ \A k \in Key : elements[k].rev \in Nat /\ elements'[k].rev \in Nat
  BY DEF IInv, PInv, TInv, TypeOK, Element
<1>3. Stamped'
  BY <1>1, <1>2 DEF IInv, Stamped
<1>5. ASSUME NEW b \in Browser
      PROVE  AnswerFits(b)' /\ InTune(b)' /\ CaughtUp(b)'
  <2>1. /\ brev[b] \in Nat /\ answer[b].rev \in Nat
        /\ AnswerFits(b) /\ InTune(b) /\ CaughtUp(b)
    BY DEF IInv, PInv, TInv, TypeOK
  <2>2. AnswerFits(b)'
    <3>1. ASSUME poll[b] = "answered"
          PROVE  Covers(b, answer[b].rev)' /\ answer[b].rev <= revision'
      <4>1. Covers(b, answer[b].rev) /\ answer[b].rev <= revision
        BY <2>1, <3>1 DEF AnswerFits
      <4>2. \A k \in Present' : elements'[k].rev < answer[b].rev =>
                k \in Present /\ elements'[k] = elements[k]
        BY <1>1, <1>2, <2>1, <4>1
      <4> QED
        BY <1>2, <2>1, <4>1, <4>2 DEF Covers, poller
    <3> QED
      BY <3>1 DEF AnswerFits, poller, mainloop
  <2>3. InTune(b)'
    BY <1>2, <2>1 DEF InTune, poller
  <2>4. CaughtUp(b)'
    BY <1>1, <1>2, <2>1 DEF CaughtUp, InTune, poller
  <2> QED
    BY <2>2, <2>3, <2>4
<1> QED
  BY <1>3, <1>5

LEMMA JobWritesInv ==
    ASSUME OneWriter, IInv, JobWrites, PInv'
    PROVE  IInv'
<1>1. PICK k \in JobKeys, v \in Value :
        \/ UpdateElement(k, v) \/ RemoveElement(k)
        \/ \E g \in Ranges[k] : AddElement(k, v, g)
  BY SomeWrite DEF OneWriter
<1>2. k \in Key /\ elements \in [Key -> Element] /\ revision \in Nat
  BY ModelSyncAssumption DEF IInv, PInv, TInv, TypeOK
<1>3. \A l \in Key \ {k} : elements'[l] = elements[l]
  BY <1>1, <1>2 DEF UpdateElement, AddElement, RemoveElement
<1>4. srv = "idle" /\ UNCHANGED <<poller, sender, mainloop>>
  BY DEF JobWrites, OneWriter
<1>5. UNCHANGED <<poller, mainloop, keys>>
  BY <1>4 DEF sender
<1>6. elements' \in [Key -> Element] /\ revision' \in Nat
  BY DEF PInv, TInv, TypeOK
<1>7. \A b \in Browser : EditKeys[b] \cap Present \subseteq Present'
  BY <1>1, <1>3, ModelSyncAssumption DEF Present, OneWriter
<1>8. Stamped' /\ \A b \in Browser : AnswerFits(b)' /\ InTune(b)' /\ CaughtUp(b)'
  <2>1. CASE UpdateElement(k, v) \/ \E g \in Ranges[k] : AddElement(k, v, g)
    <3>1. /\ revision' = revision + 1 /\ elements'[k].rev = revision
          /\ revision' >= revision /\ {k} \in SUBSET Key
      BY <1>2, <2>1 DEF UpdateElement, AddElement, Element
    <3>2. \A l \in {k} : elements'[l].rev >= revision
                         /\ elements'[l].rev < revision'
      BY <1>2, <3>1
    <3>3. \A l \in Present' \ {k} : l \in Present /\ elements'[l] = elements[l]
      BY <1>3 DEF Present
    <3> QED
      BY <1>4, <1>5, <1>6, <1>7, <3>1, <3>2, <3>3, ModelChange
  <2>2. CASE RemoveElement(k)
    <3>1. revision' = revision /\ revision' >= revision /\ k \notin Present'
      BY <1>2, <2>2 DEF RemoveElement, Element, Present
    <3>2. \A l \in Present' : l \in Present /\ elements'[l] = elements[l]
      BY <1>3, <3>1 DEF Present
    <3>3. {} \in SUBSET Key /\ \A l \in {} : /\ elements'[l].rev >= revision
                                             /\ elements'[l].rev < revision'
      OBVIOUS
    <3> QED
      BY <1>4, <1>5, <1>6, <1>7, <3>1, <3>2, <3>3, ModelChange
  <2> QED
    BY <1>1, <2>1, <2>2
<1>9. ASSUME NEW b \in Browser PROVE Arriving(b)'
  <2>1. post[b] # "none" => k \notin KeysOf(xml[b])
    BY DEF IInv, PInv, Sending, Arriving, OneWriter
  <2>2. \A l \in KeysOf(xml[b]) : l \in Key
    BY DEF KeysOf
  <2> QED
    BY <1>3, <1>4, <2>1, <2>2 DEF IInv, Arriving, sender, poller
<1> QED
  BY <1>8, <1>9 DEF IInv

\* With none of the user's elements ever removed, and nothing refused, a document
\* is executed to its end.
LEMMA DocumentArrives ==
    ASSUME OneWriter, IInv, NEW b \in Browser, ServerUpdates(b)
    PROVE  /\ KeysOf(xml[b]) \subseteq EditKeys[b]
           /\ elements' \in [Key -> Element] /\ revision' \in Nat
           /\ revision' >= revision /\ Present' = Present
           /\ \A k \in KeysOf(xml[b]) : /\ elements'[k].value = xml[b][k]
                                        /\ elements'[k].rev >= revision
                                        /\ elements'[k].rev < revision'
           /\ \A k \in Key \ KeysOf(xml[b]) : elements'[k] = elements[k]
<1> DEFINE doc == KeysOf(xml[b])
<1>1. /\ elements \in [Key -> Element] /\ revision \in Nat
      /\ xml[b] \in Document /\ doc \in SUBSET KeysOf(xml[b])
  BY DEF IInv, PInv, TInv, TypeOK
<1>2. doc \subseteq keys[b] /\ doc \subseteq EditKeys[b]
  BY DEF IInv, PInv, Sending, Arriving, ServerUpdates
<1>3. doc \subseteq Present
  <2>1. \A k \in keys[b] : copy[b][k] # None
    BY ModelSyncAssumption DEF IInv, PInv, TInv, Entered
  <2> QED
    BY <1>2, <2>1 DEF IInv, InTune
<1>4. \A k \in doc : k \in Key /\ xml[b][k] \in Value
  BY <1>1 DEF Document, KeysOf
<1>5. \A k \in doc : elements[k].legal = Value
  <2>1. \A k \in Key : elements[k].legal \in Ranges[k]
    BY DEF IInv, PInv, TInv, TypeOK
  <2> QED
    BY <1>2, <1>4, <2>1 DEF OneWriter
<1>6. \A ks \in SUBSET doc : Refused(ks, xml[b]) = {}
  BY <1>4, <1>5 DEF Refused
<1>7. UpdateFromDocument(doc, xml[b])
  BY <1>3, <1>6 DEF ServerUpdates
<1>8. Refused(doc, xml[b]) = {}
  BY <1>6
<1> QED
  BY <1>1, <1>2, <1>7, <1>8, UpdateFromDocumentType

LEMMA ServerUpdatesInv ==
    ASSUME OneWriter, IInv, NEW b \in Browser, ServerUpdates(b), PInv'
    PROVE  IInv'
<1> DEFINE doc == KeysOf(xml[b])
<1>1. srv = "idle" /\ post[b] = "sent" /\ post' = [post EXCEPT ![b] = "ok"]
  BY DEF ServerUpdates
<1>2. doc \subseteq EditKeys[b] /\ doc \subseteq Key
  BY DocumentArrives DEF KeysOf
<1>3. /\ elements' \in [Key -> Element] /\ revision' \in Nat
      /\ revision' >= revision
      /\ \A k \in doc : /\ elements'[k].value = xml[b][k]
                        /\ elements'[k].rev >= revision
                        /\ elements'[k].rev < revision'
      /\ \A k \in Key \ doc : elements'[k] = elements[k]
      /\ Present' = Present
  BY DocumentArrives
<1>4. UNCHANGED <<poller, mainloop, keys, pendingXML, xml, retry>>
  BY DEF ServerUpdates
<1>5. Stamped' /\ \A c \in Browser : AnswerFits(c)' /\ InTune(c)' /\ CaughtUp(c)'
  <2>1. \A k \in Present' \ doc : k \in Present /\ elements'[k] = elements[k]
    BY <1>3 DEF Present
  <2>2. \A c \in Browser : EditKeys[c] \cap Present \subseteq Present'
    BY <1>3
  <2> HIDE DEF doc
  <2> QED
    BY <1>1, <1>2, <1>3, <1>4, <2>1, <2>2, ModelChange
<1>6. ASSUME NEW c \in Browser PROVE Arriving(c)'
  <2>1. CASE c = b
    BY <1>3, <1>4, <2>1 DEF IInv, Arriving
  <2>2. CASE c # b
    <3>1. post'[c] = post[c]
      BY <1>1, <2>2 DEF IInv, PInv, TInv, TypeOK
    <3>2. post[c] # "none" =>
            \A k \in KeysOf(xml[c]) : elements'[k] = elements[k]
      BY <1>2, <1>3, <2>2 DEF IInv, PInv, Sending, Arriving, OneWriter, KeysOf
    <3> QED
      BY <1>4, <3>1, <3>2 DEF IInv, Arriving
  <2> QED
    BY <2>1, <2>2
<1> QED
  BY <1>5, <1>6 DEF IInv

-----------------------------------------------------------------------------
(* The mainloop builds an answer.                                          *)

LEMMA ServerReadsInv ==
    ASSUME IInv, NEW b \in Browser, PInv',
           \/ ServerReadsSchema(b) \/ ServerReadsState(b)
           \/ ServerReadsRevision(b)
    PROVE  IInv'
<1>1. /\ UNCHANGED <<model, copy, brev, parsing, sender>>
      /\ poll' = [poll EXCEPT ![b] = poll'[b]]
      /\ answer' = [answer EXCEPT ![b] = answer'[b]]
  BY DEF ServerReadsSchema, ServerReadsState, ServerReadsRevision, IInv, PInv,
     TInv, TypeOK
<1>2. poll[b] = "asked" /\ serving \in {None, b}
  BY DEF IInv, PInv, Serving, ServerReadsSchema, ServerReadsState,
     ServerReadsRevision
<1>3. Stamped' /\ \A c \in Browser : Arriving(c)' /\ CaughtUp(c)'
  BY <1>1 DEF IInv, Stamped, Arriving, CaughtUp, model, sender, Present
<1>4. ASSUME NEW c \in Browser, c # b PROVE AnswerFits(c)'
  <2>1. poll'[c] = poll[c] /\ answer'[c] = answer[c] /\ serving' # c
    <3>1. serving' \in {None, b}
      BY <1>2 DEF ServerReadsSchema, ServerReadsState, ServerReadsRevision
    <3> QED
      BY <1>1, <1>4, <3>1, ModelSyncAssumption DEF IInv, PInv, TInv, TypeOK
  <2> QED
    BY <1>1, <2>1 DEF IInv, AnswerFits, Covers, Present, model
<1>5. ASSUME NEW c \in Browser PROVE InTune(c)'
  <2>1. answer'[c].schema \subseteq answer[c].schema \cup Present
    <3>1. CASE c # b
      BY <1>1, <3>1 DEF IInv, PInv, TInv, TypeOK
    <3>2. CASE c = b /\ ServerReadsSchema(b)
      BY <3>2 DEF ServerReadsSchema, FullStateSchema, IInv, PInv, TInv, TypeOK
    <3>3. CASE c = b /\ ServerReadsState(b)
      <4> DEFINE sent == [k \in Key |-> IF k \in StateUpdate(brev[b])
                                         THEN CurrentValues[k] ELSE None]
      <4>1. \/ answer' = [answer EXCEPT ![b] = NoAnswer]
            \/ answer' = [answer EXCEPT ![b].state = sent]
        BY <3>3 DEF ServerReadsState
      <4>2. NoAnswer.schema = {}
        BY DEF NoAnswer
      <4>3. answer \in [Browser -> [schema : SUBSET Key, state : Document,
                                    rev : Nat]]
        BY DEF IInv, PInv, TInv, TypeOK
      <4> HIDE DEF sent
      <4>4. CASE answer' = [answer EXCEPT ![b] = NoAnswer]
        BY <3>3, <4>2, <4>3, <4>4
      <4>5. CASE answer' = [answer EXCEPT ![b].state = sent]
        BY <3>3, <4>3, <4>5
      <4> QED
        BY <4>1, <4>4, <4>5
    <3>4. CASE c = b /\ ServerReadsRevision(b)
      BY <3>4 DEF ServerReadsRevision, IInv, PInv, TInv, TypeOK
    <3> QED
      BY <3>1, <3>2, <3>3, <3>4
  <2> QED
    BY <1>1, <2>1 DEF IInv, InTune, Present, model
<1>6. AnswerFits(b)'
  <2>1. CASE ServerReadsSchema(b)
    BY <1>2, <2>1 DEF ServerReadsSchema, AnswerFits
  <2>2. CASE ServerReadsState(b)
    <3>1. CASE srv' = "idle"
      BY <1>2, <2>2, <3>1 DEF ServerReadsState, AnswerFits
    <3>2. CASE srv' # "idle"
      <4> DEFINE delta == StateUpdate(brev[b])
                 sent == [k \in Key |-> IF k \in delta THEN CurrentValues[k]
                                                       ELSE None]
      <4>1. answer' = [answer EXCEPT ![b].state = sent]
        BY <2>2, <3>2 DEF ServerReadsState
      <4>2. answer'[b].state = sent
        BY <4>1 DEF IInv, PInv, TInv, TypeOK
      <4>3. \A k \in Key : elements[k].value \in Value /\ elements[k].rev \in Nat
        BY DEF IInv, PInv, TInv, TypeOK, Element
      <4>4. Covers(b, revision)'
        <5>1. \A k \in Present : IF sent[k] = None THEN elements[k].rev < brev[b]
                                 ELSE sent[k] = elements[k].value
          BY <4>3, ModelSyncAssumption DEF StateUpdate, CurrentValues, Present,
             IInv, PInv, TInv, TypeOK
        <5> HIDE DEF sent
        <5> QED
          BY <1>1, <4>2, <5>1 DEF Covers, Present, model
      <4> QED
        BY <1>2, <2>2, <4>4 DEF ServerReadsState, AnswerFits
    <3> QED
      BY <3>1, <3>2
  <2>3. CASE ServerReadsRevision(b)
    <3>1. /\ answer'[b].rev = revision /\ answer'[b].state = answer[b].state
          /\ revision \in Nat
      BY <2>3 DEF ServerReadsRevision, IInv, PInv, TInv, TypeOK
    <3>2. Covers(b, revision)
      BY <2>3 DEF ServerReadsRevision, IInv, AnswerFits
    <3> QED
      BY <1>1, <2>3, <3>1, <3>2 DEF ServerReadsRevision, AnswerFits, Covers,
         Present, model
  <2> QED
    BY <2>1, <2>2, <2>3
<1> QED
  BY <1>3, <1>4, <1>5, <1>6 DEF IInv

-----------------------------------------------------------------------------
(* The receiver.                                                           *)

LEMMA PollInv ==
    ASSUME IInv, NEW b \in Browser, PInv', Poll(b) \/ PollFails(b)
    PROVE  IInv'
<1>1. /\ UNCHANGED <<model, copy, brev, parsing, sender, mainloop>>
      /\ poll' = [poll EXCEPT ![b] = poll'[b]]
      /\ answer' = [answer EXCEPT ![b] = answer'[b]]
      /\ poll'[b] # "answered" /\ serving # b
      /\ answer'[b].schema \subseteq answer[b].schema
  BY DEF Poll, PollFails, NoAnswer, IInv, PInv, TInv, TypeOK, Serving
<1>2. Stamped' /\ \A c \in Browser : Arriving(c)' /\ CaughtUp(c)'
  BY <1>1 DEF IInv, Stamped, Arriving, CaughtUp, model, sender, Present
<1>3. ASSUME NEW c \in Browser PROVE AnswerFits(c)' /\ InTune(c)'
  <2>1. CASE c = b
    BY <1>1, <2>1 DEF IInv, AnswerFits, InTune, mainloop, model, Present
  <2>2. CASE c # b
    <3>1. poll'[c] = poll[c] /\ answer'[c] = answer[c]
      BY <1>1, <2>2 DEF IInv, PInv, TInv, TypeOK
    <3> QED
      BY <1>1, <3>1 DEF IInv, AnswerFits, InTune, Covers, Present, model, mainloop
  <2> QED
    BY <2>1, <2>2
<1> QED
  BY <1>2, <1>3 DEF IInv

\* A browser that takes an update has, for every element that it does not
\* refuse, the value of the moment its new revision stands for.
LEMMA HandleUpdateInv ==
    ASSUME IInv, NEW b \in Browser, PInv', HandleUpdate(b)
    PROVE  IInv'
<1> DEFINE delta == KeysOf(answer[b].state)
<1>1. /\ poll[b] = "answered" /\ Covers(b, answer[b].rev)
      /\ answer[b].rev <= revision
  BY DEF HandleUpdate, IInv, AnswerFits
<1>2. /\ copy' = [copy EXCEPT ![b] = Parsed(b, delta)]
      /\ brev' = [brev EXCEPT ![b] = answer[b].rev]
      /\ delta \subseteq answer[b].schema
  BY UpdateParses DEF IInv
<1>3. /\ UNCHANGED <<model, sender, mainloop>>
      /\ poll' = [poll EXCEPT ![b] = "none"]
      /\ answer' = [answer EXCEPT ![b] = NoAnswer]
  BY DEF HandleUpdate
<1>4. Stamped' /\ \A c \in Browser : Arriving(c)'
  BY <1>3 DEF IInv, Stamped, Arriving, model, sender, Present
<1>5. ASSUME NEW c \in Browser, c # b
      PROVE  AnswerFits(c)' /\ InTune(c)' /\ CaughtUp(c)'
  <2>1. /\ copy'[c] = copy[c] /\ brev'[c] = brev[c]
        /\ poll'[c] = poll[c] /\ answer'[c] = answer[c]
    BY <1>2, <1>3, <1>5 DEF IInv, PInv, TInv, TypeOK
  <2> QED
    BY <1>3, <2>1 DEF IInv, AnswerFits, Covers, InTune, CaughtUp, model, sender,
       mainloop, Present
<1>6. /\ copy'[b] = Parsed(b, delta) /\ brev'[b] = answer[b].rev
      /\ poll'[b] = "none" /\ answer'[b].schema = {}
  BY <1>2, <1>3 DEF IInv, PInv, TInv, TypeOK, NoAnswer
<1>7. \A k \in Key \ answer[b].schema : copy'[b][k] = copy[b][k]
  BY <1>2, <1>6, ParsedType DEF IInv, PInv
<1>8. AnswerFits(b)'
  BY <1>1, <1>3, <1>6 DEF IInv, PInv, AnswerFits, Serving, mainloop
<1>9. InTune(b)'
  <2>1. \A k \in EditKeys[b] : copy'[b][k] # None => k \in Present
    BY <1>7, ModelSyncAssumption DEF IInv, InTune
  <2> QED
    BY <1>1, <1>3, <1>6, <2>1 DEF InTune, model, Present
<1>11. CaughtUp(b)'
  <2> SUFFICES ASSUME NEW k \in Present \ keys[b],
                      copy'[b][k] # elements[k].value
               PROVE  elements[k].rev >= answer[b].rev
    BY <1>3, <1>6 DEF CaughtUp, model, sender, Present
  <2>1. /\ k \in Key /\ elements[k].rev \in Nat /\ answer[b].rev \in Nat
        /\ brev[b] \in Nat /\ elements[k].value \in Value
    BY DEF Present, IInv, PInv, TInv, TypeOK, Element
  <2>2. ASSUME elements[k].rev < answer[b].rev PROVE FALSE
    <3>1. CASE answer[b].state[k] = None
      <4>1. elements[k].rev < brev[b]
        BY <1>1, <2>2, <3>1 DEF Covers
      <4>2. copy[b][k] = elements[k].value
        BY <2>1, <4>1 DEF IInv, CaughtUp
      <4>3. copy'[b][k] = copy[b][k]
        BY <1>6, <2>1, <3>1, <4>2, ModelSyncAssumption DEF Parsed, KeysOf
      <4> QED
        BY <4>2, <4>3
    <3>2. CASE answer[b].state[k] # None
      <4>1. answer[b].state[k] = elements[k].value
        BY <1>1, <2>2, <3>2 DEF Covers
      <4>2. copy'[b][k] = answer[b].state[k]
        BY <1>6, <2>1, <3>2 DEF Parsed, KeysOf
      <4> QED
        BY <4>1, <4>2
    <3> QED
      BY <3>1, <3>2
  <2> QED
    BY <2>1, <2>2
<1> QED
  BY <1>4, <1>5, <1>8, <1>9, <1>11 DEF IInv

-----------------------------------------------------------------------------
(* The sender.                                                             *)

\* A step of one sender concerns that browser's Arriving and CaughtUp only.
LEMMA SenderStep ==
    ASSUME IInv, NEW b \in Browser, PInv', Arriving(b)', CaughtUp(b)',
           KeysOf(copy'[b]) = KeysOf(copy[b]),
           \A c \in Browser \ {b} :
              /\ copy'[c] = copy[c] /\ keys'[c] = keys[c]
              /\ post'[c] = post[c] /\ xml'[c] = xml[c],
           UNCHANGED <<model, brev, poll, answer, mainloop>>
    PROVE  IInv'
<1>1. Stamped' /\ \A c \in Browser : AnswerFits(c)'
  BY DEF IInv, Stamped, AnswerFits, Covers, Present, model, mainloop
<1>2. ASSUME NEW c \in Browser PROVE InTune(c)'
  <2>1. \A k \in EditKeys[c] : copy'[c][k] # None => copy[c][k] # None
    <3>1. KeysOf(copy'[c]) = KeysOf(copy[c])
      OBVIOUS
    <3> QED
      BY <3>1, ModelSyncAssumption DEF KeysOf
  <2> QED
    BY <2>1 DEF IInv, InTune, Present, model
<1>3. \A c \in Browser \ {b} : Arriving(c)' /\ CaughtUp(c)'
  BY DEF IInv, Arriving, CaughtUp, Present, model
<1> QED
  BY <1>1, <1>2, <1>3 DEF IInv

LEMMA EditInv ==
    ASSUME IInv, NEW b \in Browser, NEW k \in EditKeys[b], NEW v \in Value,
           Edit(b, k, v), PInv'
    PROVE  IInv'
<1>0. PInv
  BY DEF IInv
<1>1. /\ copy'[b] = EditedCopy(b, k, v) /\ keys'[b] = Marked(b, k) /\ k \in Key
      /\ StartUpdate(b, EditedCopy(b, k, v), Marked(b, k))
      /\ UNCHANGED <<model, brev, poll, answer, mainloop>>
  BY <1>0, Edited
<1>2. post'[b] = "ok" => post[b] = "ok" /\ xml' = xml
  BY <1>1 DEF StartUpdate, Send, IInv, PInv, TInv, TypeOK
<1>3. Arriving(b)'
  BY <1>1, <1>2 DEF IInv, Arriving, Marked, model
<1>4. CaughtUp(b)'
  <2>1. \A l \in Key \ Marked(b, k) : copy'[b][l] = copy[b][l]
    BY <1>1 DEF IInv, PInv, TInv, TypeOK, EditedCopy, Marked
  <2> QED
    BY <1>1, <2>1 DEF IInv, CaughtUp, Present, Marked, model
<1> QED
  BY <1>0, <1>1, <1>3, <1>4, Edited, SenderStep

LEMMA RetryInv ==
    ASSUME IInv, NEW b \in Browser, Retry(b), PInv'
    PROVE  IInv'
<1>1. /\ StartUpdate(b, copy[b], keys[b])
      /\ UNCHANGED <<model, poller, keys, mainloop>>
  BY DEF Retry, IInv, PInv
<1>2. \A d \in Browser \ {b} : post'[d] = post[d] /\ xml'[d] = xml[d]
  BY <1>1 DEF StartUpdate, Send, IInv, PInv, TInv, TypeOK
<1>3. post'[b] = "ok" => post[b] = "ok" /\ xml' = xml
  BY <1>1 DEF StartUpdate, Send, IInv, PInv, TInv, TypeOK
<1>4. Arriving(b)' /\ CaughtUp(b)'
  BY <1>1, <1>3 DEF IInv, Arriving, CaughtUp, Present, model, poller
<1> QED
  BY <1>1, <1>2, <1>4, SenderStep DEF poller

\* The keys are forgotten only when their values have been sent and have
\* arrived, and nobody else writes them.
LEMMA PostDoneInv ==
    ASSUME IInv, NEW b \in Browser, PostDone(b), PInv'
    PROVE  IInv'
<1>1. post[b] = "ok" /\ UNCHANGED <<model, poller, retry, mainloop>>
  BY DEF PostDone
<1>2. Arriving(b)' /\ CaughtUp(b)'
  <2>1. CASE pendingXML[b]
    <3>1. keys' = keys /\ post'[b] = "sent"
      BY <2>1 DEF PostDone, Send, IInv, PInv, TInv, TypeOK
    <3> QED
      BY <1>1, <3>1 DEF IInv, Arriving, CaughtUp, Present, model, poller
  <2>2. CASE ~pendingXML[b]
    <3>1. keys'[b] = {} /\ post'[b] = "none"
      BY <2>2 DEF PostDone, IInv, PInv, TInv, TypeOK
    <3>2. \A k \in keys[b] : copy[b][k] = elements[k].value
      <4>1. \A k \in keys[b] : k \in Key /\ copy[b][k] \in Value
        BY DEF IInv, PInv, TInv, TypeOK, Entered
      <4>2. xml[b] = Snapshot(copy[b], keys[b])
        BY <1>1, <2>2 DEF IInv, PInv, Sending
      <4>3. \A k \in keys[b] : k \in KeysOf(xml[b]) /\ xml[b][k] = copy[b][k]
        BY <4>1, <4>2, ModelSyncAssumption DEF KeysOf, Snapshot
      <4> QED
        BY <1>1, <4>3 DEF IInv, Arriving
    <3> QED
      BY <1>1, <3>1, <3>2 DEF IInv, Arriving, CaughtUp, Present, model, poller
  <2> QED
    BY <2>1, <2>2
<1>3. \A d \in Browser \ {b} :
        /\ copy'[d] = copy[d] /\ keys'[d] = keys[d]
        /\ post'[d] = post[d] /\ xml'[d] = xml[d]
  BY <1>1 DEF PostDone, Send, IInv, PInv, TInv, TypeOK, poller
<1> QED
  BY <1>1, <1>2, <1>3, SenderStep DEF poller

LEMMA PostFailsInv ==
    ASSUME IInv, NEW b \in Browser, PostFails(b) \/ PostError(b), PInv'
    PROVE  IInv'
<1>1. /\ UNCHANGED <<model, poller, keys, xml, mainloop>>
      /\ post'[b] \in {"failed", "none"}
      /\ \A d \in Browser \ {b} : post'[d] = post[d]
  BY DEF PostFails, PostError, IInv, PInv, TInv, TypeOK
<1>2. Arriving(b)' /\ CaughtUp(b)'
  BY <1>1 DEF IInv, Arriving, CaughtUp, Present, model, poller
<1> QED
  BY <1>1, <1>2, SenderStep DEF poller

-----------------------------------------------------------------------------

LEMMA StepIInv == ASSUME OneWriter, IInv, [Next]_vars PROVE IInv'
<1>1. PInv'
  BY OneWriterNoLateKeys, StepPInv DEF IInv
<1>2. CASE UNCHANGED vars
  BY <1>1, <1>2 DEF IInv, Stamped, AnswerFits, Covers, InTune, Arriving,
     CaughtUp, Present, vars, model, poller, sender, mainloop
<1>3. CASE JobWrites
  BY <1>1, <1>3, JobWritesInv
<1>4. ASSUME NEW b \in Browser, ServerNext(b) PROVE IInv'
  BY <1>1, <1>4, ServerUpdatesInv, ServerReadsInv DEF ServerNext
<1>5. ASSUME NEW b \in Browser, BrowserNext(b) PROVE IInv'
  BY <1>1, <1>5, PollInv, HandleUpdateInv, EditInv, RetryInv, PostDoneInv,
     PostFailsInv DEF BrowserNext
<1> QED
  BY <1>2, <1>3, <1>4, <1>5 DEF Next

\* With one writer for each element, no writing threads in the job, and elements
\* that take whatever their user may enter, a browser never misses a value, of
\* elements that come and go as of others: whatever it does not show yet will be
\* in the answer to its next poll, or is its own user's edit, still to be sent.
\* The three reads of getExposedModelUpdate, the revision that is kept when
\* values are refused, lost answers and repeated POSTs do no harm.
THEOREM NothingIsMissed == ASSUME OneWriter PROVE Spec => []NothingMissed
<1>1. IInv => NothingMissed
  BY DEF IInv, NothingMissed, CaughtUp
<1> QED
  BY <1>1, InitIInv, StepIInv, PTL DEF Spec
=============================================================================
