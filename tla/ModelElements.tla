---------------------------- MODULE ModelElements ----------------------------
(***************************************************************************)
(* The elements of an exposed model with the data ExposedModel.tla leaves  *)
(* out: types, constraints, restriction sets, annotations and matrices,    *)
(* and the operations of include/tinia/model/ExposedModel.hpp on them;     *)
(* what src/modelxml/XMLBuilder.cpp writes of them and what                *)
(* js/model/ExposedModelParser.js makes of that in the browser's copy.     *)
(*                                                                         *)
(* An element's value is a string in the code.  Here it is the number it   *)
(* denotes, NoNumber for a text that is no number, or Empty.  A model is   *)
(* its elements and the keys stamped since the revision a browser holds:   *)
(* the ones getStateUpdate would give it.  An operation returns the model  *)
(* it leaves, whether it threw, and the listener calls it makes, in order. *)
(***************************************************************************)
EXTENDS Integers, Sequences, FiniteSets, FiniteSetsExt, SequencesExt

CONSTANTS KeyOrder,     \* the keys, in the order of the maps that hold them
          NoNumber,     \* a text that is no number
          Empty         \* the empty text

Types == {"bool", "integer", "double", "float", "string", "file", "complexType"}

Element(type, v) ==
    [type |-> type, value |-> v, range |-> <<>>, options |-> {},
     note |-> FALSE, matrix |-> FALSE]

NoModel == [elements |-> <<>>, news |-> {}]

Done(m, calls) == [model |-> m, thrown |-> FALSE, calls |-> calls]
Thrown(m)      == [model |-> m, thrown |-> TRUE,  calls |-> <<>>]

Has(m, k) == k \in DOMAIN m.elements

Within(v, range) == range = <<>> \/ (range[1] <= v /\ v <= range[2])

Schema(k)   == [call |-> "schema", key |-> k, value |-> Empty]
State(k, v) == [call |-> "state",  key |-> k, value |-> v]

(***************************************************************************)
(* ElementData::checkValue: only the four numeric types are looked at; a   *)
(* restriction set hides the constraints.                                  *)
(***************************************************************************)
Parses(type, v) ==
    CASE type = "bool"                          -> v \in {0, 1}
      [] type \in {"integer", "double", "float"} -> v \notin {NoNumber, Empty}
      [] OTHER                                  -> TRUE

Checked(e, v) ==
    \/ e.type \notin {"bool", "integer", "double", "float"}
    \/ /\ Parses(e.type, v)
       /\ IF e.options # {} THEN v \in e.options ELSE Within(v, e.range)

(***************************************************************************)
(* Adding.  A new element is stamped; the "added" calls have no effect in  *)
(* any listener of this code and are left out.                             *)
(***************************************************************************)
Put(m, k, e, stamped) ==
    [elements |-> [x \in DOMAIN m.elements \cup {k} |-> IF x = k THEN e ELSE m.elements[x]],
     news     |-> IF stamped THEN m.news \cup {k} ELSE m.news]

AddInternal(m, k, e) == IF Has(m, k) THEN Thrown(m) ELSE Done(Put(m, k, e, TRUE), <<>>)

AddElement(m, k, type, v) == AddInternal(m, k, Element(type, v))

AddConstrainedElement(m, k, type, v, lo, hi) ==
    IF ~ Within(v, <<lo, hi>>) THEN Thrown(m)
    ELSE AddInternal(m, k, [Element(type, v) EXCEPT !.range = <<lo, hi>>, !.note = TRUE])

AddElementWithRestriction(m, k, type, v, options) ==
    IF v \notin options THEN Thrown(m)
    ELSE AddInternal(m, k, [Element(type, v) EXCEPT !.options = options])

Matrix(v) == [Element("float", v) EXCEPT !.matrix = TRUE]

AddMatrixElement(m, k, v) == AddInternal(m, k, Matrix(v))

\* An annotation is not stamped.
AddAnnotation(m, k) ==
    IF ~ Has(m, k) THEN Thrown(m)
    ELSE Done(Put(m, k, [m.elements[k] EXCEPT !.note = TRUE], FALSE), <<Schema(k)>>)

(***************************************************************************)
(* Updating                                                                *)
(***************************************************************************)
\* A value of a class other than string is not checked and makes a new
\* element, without the old one's annotation.
IsClass(type) == type \in {"complexType", "file"}

Refused(e, v) == ~ IsClass(e.type) /\ (~ Within(v, e.range) \/ (e.options # {} /\ v \notin e.options))

UpdateElement(m, k, type, v) ==
    IF ~ Has(m, k) THEN Thrown(m)
    ELSE LET e == m.elements[k]
             new == IF IsClass(type) THEN Element(type, v) ELSE [e EXCEPT !.value = v]
         IN  IF e.type # type \/ Refused(e, v) THEN Thrown(m)
             ELSE Done(Put(m, k, new, TRUE),
                       IF e.value # v \/ type = "complexType" THEN <<State(k, v)>> ELSE <<>>)

\* The element is stamped before the value is checked.
UpdateElementFromString(m, k, v) ==
    IF ~ Has(m, k) THEN Thrown(m)
    ELSE LET e == m.elements[k] IN
         IF ~ Checked(e, v) THEN Thrown(Put(m, k, e, TRUE))
         ELSE Done(Put(m, k, [e EXCEPT !.value = v], TRUE),
                   IF e.value # v THEN <<State(k, v)>> ELSE <<>>)

\* The matrix gets a new element: its annotation is gone.
UpdateMatrixValue(m, k, v) ==
    IF ~ Has(m, k) \/ (Has(m, k) /\ ~ m.elements[k].matrix) THEN Thrown(m)
    ELSE Done(Put(m, k, Matrix(v), TRUE),
              IF m.elements[k].value # v THEN <<State(k, v)>> ELSE <<>>)

\* New constraints and a value, neither of them stamped.
UpdateConstraints(m, k, v, lo, hi) ==
    IF ~ Within(v, <<lo, hi>>) \/ ~ Has(m, k) THEN Thrown(m)
    ELSE LET e       == m.elements[k]
             bounded == [e EXCEPT !.range = <<lo, hi>>]
         IN  IF ~ Checked(bounded, v) THEN Thrown(Put(m, k, bounded, FALSE))
             ELSE Done(Put(m, k, [bounded EXCEPT !.value = v], FALSE),
                       (IF e.range # <<lo, hi>> THEN <<Schema(k)>> ELSE <<>>)
                       \o (IF e.value # v THEN <<State(k, v)>> ELSE <<>>))

\* A new restriction set and a value, neither of them stamped; always told.
UpdateRestrictions(m, k, v, options) ==
    IF v \notin options \/ ~ Has(m, k) THEN Thrown(m)
    ELSE LET open == [m.elements[k] EXCEPT !.options = options] IN
         IF ~ Checked(open, v) THEN Thrown(Put(m, k, open, FALSE))
         ELSE Done(Put(m, k, [open EXCEPT !.value = v], FALSE), <<Schema(k), State(k, v)>>)

(***************************************************************************)
(* What the widget type makes of an element in the default layout.         *)
(***************************************************************************)
WidgetType(e) ==
    CASE e.type = "complexType" -> "canvas"
      [] e.options # {}         -> "select"
      [] OTHER                  -> "textinput"

(***************************************************************************)
(* The schema entry XMLBuilder writes for an element, and the browser's    *)
(* element.  A matrix is announced as a list without its constraints, a    *)
(* complex element only by the names of its parts.                         *)
(***************************************************************************)
Entry(e) ==
    [type    |-> e.type,
     range   |-> IF e.matrix \/ e.type = "complexType" THEN <<>> ELSE e.range,
     options |-> IF e.matrix \/ e.type = "complexType" THEN {} ELSE e.options,
     list    |-> e.matrix]

\* Sets of options are sent in their order.
First(options) == CHOOSE x \in options : \A y \in options : x <= y

\* StateSchemaParser.addElement.  An element with both options and
\* constraints is added twice, which throws.
Added(entry) ==
    [type    |-> entry.type,
     value   |-> IF entry.options # {} THEN First(entry.options)
                 ELSE IF entry.range # <<>> THEN entry.range[1] ELSE 0,
     range   |-> IF entry.options # {} THEN <<>> ELSE entry.range,
     options |-> entry.options,
     list    |-> entry.list]

AddedTwice(entry) == entry.options # {} /\ entry.range # <<>>

(***************************************************************************)
(* StateSchemaParser.updateElement.  updateConstrainedElement asks for the *)
(* old maximum, which throws when there is none, and sets the minimum only *)
(* when the maximum has not changed; updateRestrictions compares the sets. *)
(***************************************************************************)
BoundsTold(old, entry) == entry.range # <<>> /\ old.range # entry.range

Bounded(old, entry) ==
    IF ~ BoundsTold(old, entry) THEN old
    ELSE [old EXCEPT !.range = IF old.range[2] # entry.range[2]
                               THEN <<old.range[1], entry.range[2]>>
                               ELSE entry.range]

OptionsTold(old, entry) == entry.options # {} /\ old.options # entry.options

Reopened(old, entry) ==
    IF OptionsTold(old, entry) THEN [old EXCEPT !.options = entry.options] ELSE old

(***************************************************************************)
(* One schema entry in the browser: [copy, told, failed]; told are the     *)
(* keys whose listeners have been called.                                  *)
(***************************************************************************)
ReadEntry(k, entry, r) ==
    IF r.failed THEN r
    ELSE IF k \notin DOMAIN r.copy
    THEN [copy   |-> [x \in DOMAIN r.copy \cup {k} |->
                         IF x = k THEN Added(entry) ELSE r.copy[x]],
          told   |-> r.told,
          failed |-> AddedTwice(entry)]
    ELSE IF entry.range # <<>> /\ r.copy[k].range = <<>>
    THEN [r EXCEPT !.failed = TRUE]
    ELSE LET old == r.copy[k] IN
         [copy   |-> [r.copy EXCEPT ![k] = Reopened(Bounded(old, entry), entry)],
          told   |-> IF BoundsTold(old, entry) \/ OptionsTold(old, entry)
                     THEN r.told \cup {k} ELSE r.told,
          failed |-> FALSE]

\* ExposedModel._cast: what is stored, read as a value of its type.
Cast(type, v) ==
    CASE type = "bool" -> IF v = 0 \/ v = Empty THEN 0 ELSE 1
      [] type \in {"integer", "double", "float"} -> IF v = Empty THEN 0 ELSE v
      [] OTHER -> v

\* ExposedModel.updateElement: NaN differs from itself, and so does a list.
Stored(k, v, r) ==
    LET e == r.copy[k]
        same == /\ Cast(e.type, e.value) = Cast(e.type, v)
                /\ ~ (e.type \in {"integer", "double", "float"} /\ v = NoNumber)
                /\ ~ e.list
    IN  [r EXCEPT !.copy[k].value = v, !.told = IF same THEN @ ELSE @ \cup {k}]

\* StateParser.updateElement: an element that is not in the copy throws, a
\* composite is left alone, an empty text has no node to read.
ReadState(k, v, r) ==
    IF r.failed THEN r
    ELSE IF k \notin DOMAIN r.copy THEN [r EXCEPT !.failed = TRUE]
    ELSE IF r.copy[k].type = "complexType" \/ v = Empty THEN r
    ELSE Stored(k, v, r)

(***************************************************************************)
(* ExposedModelParser.parseXML on an update: the whole schema, then the    *)
(* stamped elements.                                                       *)
(***************************************************************************)
SchemaRead(m, copy) ==
    FoldLeft(LAMBDA r, k : IF Has(m, k) THEN ReadEntry(k, Entry(m.elements[k]), r) ELSE r,
             [copy |-> copy, told |-> {}, failed |-> FALSE], KeyOrder)

Parsed(m, copy, changed) ==
    FoldLeft(LAMBDA r, k : IF k \in changed THEN ReadState(k, m.elements[k].value, r) ELSE r,
             SchemaRead(m, copy), KeyOrder)
=============================================================================
