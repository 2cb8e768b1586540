---------------------------- MODULE ExposedModel ----------------------------
(***************************************************************************)
(* The state of a job: ExposedModel's stateHash and its revision counter   *)
(* (src/src/model/ExposedModel.cpp, src/include/tinia/model).  Every       *)
(* operation runs under m_selfMutex, so each is one step.  An element      *)
(* carries the revision of its last stamp; a reader that has seen          *)
(* revision r asks for the elements stamped r or later.                    *)
(*                                                                         *)
(* The job's own operations check first: one that throws (unknown key, key *)
(* already there, wrong type, value outside its limits) changes nothing    *)
(* and is not a step.  A value that comes with a document is stamped       *)
(* first, and checked then.                                                *)
(***************************************************************************)
EXTENDS Naturals, FiniteSets

CONSTANTS Key, Value,
          AtStart,      \* the keys Job::init adds, before anything else runs
          Ranges        \* Ranges[k]: the values that an element may be limited
                        \* to, by its type, and its constraints or restrictions

ASSUME ExposedModelAssumption ==
    /\ AtStart \subseteq Key
    /\ IsFiniteSet(Key)
    /\ Value # {}
    /\ Ranges \in [Key -> SUBSET ((SUBSET Value) \ {{}})]
    /\ \A k \in Key : Ranges[k] # {}

VARIABLES elements,     \* stateHash
          revision      \* revisionNumber: the next stamp

model == <<elements, revision>>

\* The rest means nothing while the key is not in the hash; legal are the values
\* that checkValue lets through.
Element == [present : BOOLEAN, value : Value, rev : Nat, legal : SUBSET Value]

Present == {k \in Key : elements[k].present}

\* The constructor, and one addElement for each key of Job::init.
ModelInit ==
    /\ revision = Cardinality(AtStart) + 1
    /\ \E v \in [Key -> Value], r \in [Key -> 0..Cardinality(AtStart)],
          g \in [Key -> SUBSET Value] :
          /\ \A k \in Key : g[k] \in Ranges[k] /\ v[k] \in g[k]
          /\ \A k \in Key : r[k] = 0 <=> k \notin AtStart
          /\ \A k, l \in AtStart : r[k] = r[l] => k = l
          /\ elements = [k \in Key |-> [present |-> k \in AtStart, value |-> v[k],
                                        rev |-> r[k], legal |-> g[k]]]

-----------------------------------------------------------------------------
(* Operations.                                                             *)

\* addElement, and its forms with a constraint or a restriction: range is what
\* they leave of the values.
AddElement(k, v, range) ==
    /\ ~elements[k].present
    /\ range \in Ranges[k] /\ v \in range
    /\ elements' = [elements EXCEPT ![k] =
          [present |-> TRUE, value |-> v, rev |-> revision, legal |-> range]]
    /\ revision' = revision + 1

RemoveElement(k) ==
    /\ elements[k].present
    /\ elements' = [elements EXCEPT ![k].present = FALSE]
    /\ UNCHANGED revision

UpdateElement(k, v) ==
    /\ elements[k].present /\ v \in elements[k].legal
    /\ elements' = [elements EXCEPT ![k].value = v, ![k].rev = revision]
    /\ revision' = revision + 1

\* updateConstraints and updateRestrictions set limits and a value within them,
\* and stamp nothing.
UpdateConstraints(k, v, range) ==
    /\ elements[k].present
    /\ range \in Ranges[k] /\ v \in range
    /\ elements' = [elements EXCEPT ![k].value = v, ![k].legal = range]
    /\ UNCHANGED revision

\* What an element refuses of a document: updateElementFromString stamps it, and
\* setStringValue throws.
Refused(ks, doc) == {k \in ks : doc[k] \notin elements[k].legal}
Taken(k, ks, doc) ==
    IF k \in Refused(ks, doc) THEN elements[k].value ELSE doc[k]

\* MUTANT of UpdateFromDocument: the document is one change, with one stamp.
UpdateFromDocumentOneStamp(ks, doc) ==
    /\ ks \subseteq Present
    /\ revision' = revision + 1
    /\ elements' = [k \in Key |->
          IF k \in ks THEN [elements[k] EXCEPT !.value = doc[k],
                                               !.rev = revision]
          ELSE elements[k]]

\* MUTANT of UpdateFromDocument: what is refused is not stamped.
UpdateFromDocumentChecksFirst(ks, doc) ==
    LET taken == ks \ Refused(ks, doc)
    IN  /\ ks \subseteq Present
        /\ revision' = revision + Cardinality(taken)
        /\ \E r \in [taken -> revision .. (revision + Cardinality(taken) - 1)] :
              /\ \A k, l \in taken : r[k] = r[l] => k = l
              /\ elements' = [k \in Key |->
                    IF k \in taken THEN [elements[k] EXCEPT !.value = doc[k],
                                                            !.rev = r[k]]
                    ELSE elements[k]]

\* updateElementFromString for the keys ks of a document, those that are reached
\* before it is over: in the order it gives them, each with a stamp; one that
\* refuses its value is the last.
UpdateFromDocument(ks, doc) ==
    /\ ks \subseteq Present
    /\ revision' = revision + Cardinality(ks)
    /\ \E r \in [ks -> revision .. (revision + Cardinality(ks) - 1)] :
          /\ \A k, l \in ks : r[k] = r[l] => k = l
          /\ \A o \in Refused(ks, doc), k \in ks : r[k] <= r[o]
          /\ elements' = [k \in Key |->
                IF k \in ks THEN [elements[k] EXCEPT !.value = Taken(k, ks, doc),
                                                     !.rev = r[k]]
                ELSE elements[k]]

-----------------------------------------------------------------------------
(* Reads.                                                                  *)

FullStateSchema == Present

\* MUTANT of StateUpdate: what was stamped after the revision, and not with it.
StateUpdateAfter(hasRevision) == {k \in Present : elements[k].rev > hasRevision}

StateUpdate(hasRevision) == {k \in Present : elements[k].rev >= hasRevision}

CurrentValues == [k \in Key |-> elements[k].value]
=============================================================================
