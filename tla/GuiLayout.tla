------------------------------ MODULE GuiLayout ------------------------------
(***************************************************************************)
(* The GUI layout a job describes (include/tinia/model/GUILayout.hpp), the *)
(* check setGUILayout makes of it (src/model/validateGUI.cpp), the XML     *)
(* XMLBuilder writes of it, the tree js/model/ExposedModelParser.js reads  *)
(* back, and whether the desktop's GUIBuilder.cpp and the browser's        *)
(* GUIBuilder.js can build it on a given model.                            *)
(*                                                                         *)
(* An element is a record; the containers keep their children in a         *)
(* sequence in which None is a child that was never set, a Grid row by     *)
(* row.  Padding, annotations and the arguments of viewer scripts are left *)
(* out.                                                                    *)
(***************************************************************************)
EXTENDS ModelElements

CONSTANTS NoKey,        \* the empty key
          GLJob         \* the job draws with OpenGL

None == [kind |-> "none"]

El(kind, key, show, width, children) ==
    [kind |-> kind, key |-> key, show |-> show, vis |-> NoKey, visInv |-> FALSE,
     en |-> NoKey, enInv |-> FALSE, width |-> width, children |-> children]

Container0D == {"Tab", "ElementGroup", "PopupButton"}
Container1D == {"TabLayout", "HorizontalLayout", "VerticalLayout"}
Spaces      == {"VerticalSpace", "HorizontalSpace",
                "VerticalExpandingSpace", "HorizontalExpandingSpace"}
ValueWidgets == {"TextInput", "ComboBox", "RadioButtons", "SpinBox", "DoubleSpinBox",
                 "CheckBox", "HorizontalSlider", "Canvas"}
ShowWidgets  == {"Label", "FileDialogButton", "PopupButton", "Tab", "ElementGroup"}
KeyValues    == ValueWidgets \cup ShowWidgets \cup {"Button"}

\* The constructors of the elements.
Leaf(kind, key)       == El(kind, key, kind # "Button", 0, <<>>)
Shows(kind, key, show) == El(kind, key, show, 0, <<>>)
Box(kind, key, show, child) == El(kind, key, show, 0, <<child>>)
Row(kind, children)   == El(kind, NoKey, FALSE, 0, children)
Grid(width, cells)    == El("Grid", NoKey, FALSE, width, cells)
Space(kind)           == El(kind, NoKey, FALSE, 0, <<>>)

SetVisibilityKey(e, key, inverted) == [e EXCEPT !.vis = key, !.visInv = inverted]
SetEnabledKey(e, key, inverted)    == [e EXCEPT !.en = key, !.enInv = inverted]

\* Where a child is: its row and column in a Grid, its index elsewhere.
Place(e, i) == IF e.kind = "Grid" THEN <<1 + (i - 1) \div e.width, 1 + ((i - 1) % e.width)>>
               ELSE <<i, 1>>
Filled(e)   == {i \in DOMAIN e.children : e.children[i] # None}

RECURSIVE Below(_)
\* The element and everything below it.
Below(e) == {e} \cup UNION {Below(e.children[i]) : i \in Filled(e)}

FirstBad(verdicts) ==
    FoldLeft(LAMBDA found, v : IF found = "ok" THEN v ELSE found, "ok", verdicts)

(***************************************************************************)
(* validateGUI: a container's children first, then the key, then what the  *)
(* kind asks of the element.  The verdict is the first that is not "ok".   *)
(*                                                                         *)
(* Of an ElementGroup only the key is looked at: the overload for KeyValue *)
(* is the better match; a PopupButton is not in the list of containers.  A *)
(* Tab without a child passes its NULL on to checkTab.                     *)
(***************************************************************************)
CheckTab(parent, child) ==
    IF child = None THEN "crash"
    ELSE IF (child.kind = "Tab") = (parent.kind = "TabLayout") THEN "ok" ELSE "thrown"

CheckKey(e, m) == IF e.kind \in KeyValues /\ ~ Has(m, e.key) THEN "thrown" ELSE "ok"

Constrained(el) == el.range # <<>>

CheckOwnLoose(e, el) ==
    CASE e.kind \in {"Button", "CheckBox"}          -> el.type = "bool"
      [] e.kind \in {"RadioButtons", "ComboBox"}    -> el.options # {}
      [] e.kind \in {"SpinBox", "HorizontalSlider"} -> el.type = "integer"
      [] e.kind = "DoubleSpinBox"                   -> el.type = "double" /\ Constrained(el)
      [] e.kind = "Canvas"                          -> el.type = "complexType"
      [] e.kind = "TextInput" -> el.type \in {"bool", "integer", "double", "string"}
      [] OTHER                -> TRUE

CheckOwn(e, el) ==
    CASE e.kind \in {"Button", "CheckBox"}          -> el.type = "bool"
      [] e.kind \in {"RadioButtons", "ComboBox"}    -> el.options # {}
      [] e.kind \in {"SpinBox", "HorizontalSlider"} -> el.type = "integer" /\ Constrained(el)
      [] e.kind = "DoubleSpinBox"                   -> el.type = "double" /\ Constrained(el)
      [] e.kind = "Canvas"                          -> el.type = "complexType"
      [] e.kind = "TextInput" -> el.type \in {"bool", "integer", "double", "string"}
      [] OTHER                -> TRUE

RECURSIVE ValidateGUI(_, _)
ValidateGUI(e, m) ==
    LET Child(c) == FirstBad(<<ValidateGUI(c, m), CheckTab(e, c)>>)
        inner == IF e.kind = "Tab" /\ e.children[1] = None THEN "crash"
                 ELSE IF e.kind \in Container1D \cup {"Grid", "Tab"}
                 THEN FirstBad([i \in DOMAIN e.children |->
                         IF e.children[i] = None THEN "ok" ELSE Child(e.children[i])])
                 ELSE "ok"
        own == IF e.kind \in KeyValues /\ ~ CheckOwn(e, m.elements[e.key]) THEN "thrown" ELSE "ok"
    IN  IF inner # "ok" THEN inner
        ELSE IF CheckKey(e, m) # "ok" THEN "thrown" ELSE own

(***************************************************************************)
(* The layout of a job that gives none: one column, an input for every     *)
(* element, a Canvas for a viewer.                                         *)
(***************************************************************************)
DefaultGUILayout(m) ==
    LET keys == SelectSeq(KeyOrder, LAMBDA k : Has(m, k))
    IN  Grid(1, [i \in DOMAIN keys |->
                   Leaf(IF WidgetType(m.elements[keys[i]]) = "canvas" THEN "Canvas" ELSE "TextInput",
                        keys[i])])

(***************************************************************************)
(* XMLBuilder::buildGUILayout: the names it writes, and how it fails: on   *)
(* the NULL child of a box and on a Tab that is in no TabLayout.  A Tab's  *)
(* own visibility and enabled keys are not written, and "enabledInverted"  *)
(* holds the key, under a name nobody reads.                               *)
(***************************************************************************)
XmlName(kind) == CASE kind = "CheckBox"         -> "Checkbox"
                   [] kind = "FileDialogButton" -> "Label"
                   [] OTHER                     -> kind

RECURSIVE XmlVerdict(_, _)
XmlVerdict(e, parent) ==
    IF e = None THEN IF parent = "Grid" THEN "ok" ELSE "crash"
    ELSE IF e.kind = "Tab" /\ parent # "TabLayout" THEN "thrown"
    ELSE FirstBad([i \in DOMAIN e.children |-> XmlVerdict(e.children[i], e.kind)])

AddVisibilityKeysPlain(e) ==
    [visibilityKey         |-> e.vis,
     visibilityKeyInverted |-> FALSE,
     enabledKey            |-> e.en,
     enabledInverted       |-> e.en]

AddVisibilityKeys(e) ==
    [visibilityKey         |-> e.vis,
     visibilityKeyInverted |-> e.visInv,
     enabledKey            |-> e.en,
     enabledInverted       |-> e.en]

NoKeys == [visibilityKey |-> NoKey, visibilityKeyInverted |-> FALSE,
           enabledKey |-> NoKey, enabledInverted |-> NoKey]

RECURSIVE BuildGUILayout(_)
BuildGUILayout(e) ==
    IF e = None THEN None
    ELSE [kind |-> XmlName(e.kind), key |-> e.key, show |-> e.show,
          keys |-> IF e.kind = "Tab" THEN NoKeys ELSE AddVisibilityKeys(e),
          width |-> e.width,
          children |-> [i \in DOMAIN e.children |-> BuildGUILayout(e.children[i])]]

(***************************************************************************)
(* GUIParser.makeGUIElement.  A grid is as high and as wide as its last    *)
(* filled cells; filling a later row while the first is empty reads a row  *)
(* that is not there.                                                      *)
(***************************************************************************)
FilledRows(x) == {Place(x, i)[1] : i \in Filled(x)}

GridParses(x)  == Filled(x) = {} \/ 1 \in FilledRows(x)
RECURSIVE XmlParses(_)
XmlParses(x) == /\ x.kind = "Grid" => GridParses(x)
                /\ \A i \in Filled(x) : XmlParses(x.children[i])

\* Cells beyond the last filled row and column are gone.
Cropped(x) ==
    LET cols == {Place(x, i)[2] : i \in Filled(x)}
        w    == IF cols = {} THEN 1 ELSE Max(cols)
        h    == IF cols = {} THEN 0 ELSE Max(FilledRows(x))
    IN  [x EXCEPT !.width = w,
                  !.children = [i \in 1..(w * h) |->
                      x.children[((i - 1) \div w) * x.width + 1 + ((i - 1) % w)]]]

\* The name the parser looks for is not the one that was written.
AddVisibilityInfo(e, keys) ==
    [e EXCEPT !.vis = keys.visibilityKey, !.visInv = keys.visibilityKeyInverted,
              !.en = keys.enabledKey, !.enInv = FALSE]

RECURSIVE MakeGUIElement(_)
MakeGUIElement(xml) ==
    IF xml = None THEN None
    ELSE LET x == IF xml.kind = "Grid" THEN Cropped(xml) ELSE xml
         IN  AddVisibilityInfo(
                 El(x.kind, x.key, x.show, x.width,
                    [i \in DOMAIN x.children |-> MakeGUIElement(x.children[i])]), x.keys)

(***************************************************************************)
(* What the two builders attach to a model, in the order they do it: for a *)
(* widget at path p, its "value", and the controllers of its "visible" and *)
(* "enabled" keys.  A box comes after its contents.                        *)
(***************************************************************************)
Part(p, role, key, e) == [path |-> p, role |-> role, key |-> key, el |-> e]

Toggles(e, p) == (IF e.vis = NoKey THEN <<>> ELSE <<Part(p, "visible", e.vis, e)>>)
                 \o (IF e.en = NoKey THEN <<>> ELSE <<Part(p, "enabled", e.en, e)>>)

Flat(seqs) == FoldLeft(LAMBDA all, s : all \o s, <<>>, seqs)

\* The children of e with their paths.
Children(e, p) == LET filled == SelectSeq([i \in DOMAIN e.children |-> i], LAMBDA i : i \in Filled(e))
                  IN  [j \in DOMAIN filled |->
                         [el |-> e.children[filled[j]], path |-> p \o Place(e, filled[j])]]

LaidOutInGroup == {"Grid", "HorizontalLayout", "VerticalLayout"}

\* The children a group lays out in itself.
GroupChildren(e, p) ==
    LET child == e.children[1] IN
    IF child # None /\ child.kind \in LaidOutInGroup THEN Children(child, p \o Place(e, 1))
    ELSE Children(e, p)

\* A tab whose contents make no widget is not added.
TabParts(e, p, parts) == IF parts = <<>> THEN <<>> ELSE parts \o <<Part(p, "title", e.key, e)>>

\* Spaces are layout items, no widgets.
IsLayoutItem(e) == e.kind \in Spaces

RECURSIVE DeskParts(_, _)
\* GUIBuilder::buildGUI.
DeskParts(e, p) ==
    LET kids  == IF e.kind = "ElementGroup" THEN GroupChildren(e, p) ELSE Children(e, p)
        parts == Flat([j \in DOMAIN kids |-> DeskParts(kids[j].el, kids[j].path)])
    IN  CASE IsLayoutItem(e)           -> <<>>
          [] e.kind = "Tab"            -> TabParts(e, p, parts)
          [] e.kind = "ElementGroup"   -> <<Part(p, "title", e.key, e)>> \o parts \o Toggles(e, p)
          [] e.kind \in KeyValues      -> <<Part(p, "value", e.key, e)>> \o parts \o Toggles(e, p)
          [] OTHER                     -> parts \o Toggles(e, p)

IsBool(m, k) == Has(m, k) /\ m.elements[k].type = "bool"

\* The part is built without an exception.
DeskBuilds(part, m) ==
    LET k == part.key
        e == m.elements[k]
    IN  IF part.role \in {"visible", "enabled"} THEN IsBool(m, k)
        ELSE /\ Has(m, k)
             /\ CASE part.el.kind = "CheckBox"         -> e.type = "bool"
                  [] part.el.kind = "SpinBox"          -> e.type = "integer"
                  [] part.el.kind = "DoubleSpinBox"    -> e.type = "double"
                  [] part.el.kind = "HorizontalSlider" -> e.type = "integer" /\ Constrained(e)
                  [] part.el.kind = "Canvas"           -> GLJob /\ e.type = "complexType"
                  [] OTHER                             -> TRUE

RECURSIVE WebParts(_, _)
\* GUIBuilder.buildGUI in the browser, on the tree it has read.
WebParts(x, p) ==
    LET kids  == Children(x, p)
        parts == Flat([j \in DOMAIN kids |-> WebParts(kids[j].el, kids[j].path)])
    IN  CASE x.kind \in Spaces -> <<>>
          [] x.kind = "Tab"    -> parts \o <<Part(p, "title", x.key, x)>>
          [] x.kind = "ElementGroup" -> <<Part(p, "title", x.key, x)>> \o parts \o Toggles(x, p)
          [] OTHER -> (IF x.key # NoKey THEN <<Part(p, "value", x.key, x)>> ELSE <<>>)
                      \o parts \o Toggles(x, p)

WebBuilds(part, copy) ==
    /\ part.key \in DOMAIN copy
    /\ part.el.kind = "HorizontalSlider" /\ part.role = "value" => copy[part.key].range # <<>>

\* main.js asks the widget of the whole page to fill it; a grid without an
\* element is asked for its first.
WebFits(x) == /\ x.kind \notin Spaces
              /\ \A y \in Below(x) : y.kind = "Grid" => Filled(y) # {}
=============================================================================
