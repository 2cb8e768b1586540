--------------------------------- MODULE Gui ---------------------------------
(***************************************************************************)
(* One exposed model under two user interfaces built from one layout: the  *)
(* widgets of the desktop (src/qtcontroller/*.cpp) and of a browser        *)
(* (js/gui/GUIBuilder.js).                                                 *)
(*                                                                         *)
(* On the desktop everything happens on the main thread but the job's own  *)
(* threads and the server's, which call the model too.  A model call tells *)
(* its listeners one by one, holding the model's lock; a listener emits a  *)
(* signal, and Qt runs the connected slot at once if it was emitted on the *)
(* main thread and posts it to the main loop otherwise.  `stack' holds the *)
(* main thread's calls, the innermost first, and `queue' the posted slots. *)
(*                                                                         *)
(* The browser polls and posts in one step each: ModelSync.tla has those   *)
(* exchanges in detail.                                                    *)
(***************************************************************************)
EXTENDS GuiLayout

CONSTANTS Elements,     \* the model the job has built
          Offers,       \* the layouts it may set, a sequence
          Operated,     \* the indices of those that are operated, too
          Values,       \* the values a key may be given
          Ranges,       \* the constraints a key may be given
          OptionSets,   \* the restriction sets a key may be given
          MaxActs       \* how often anyone changes anything

VARIABLES model,        \* the exposed model
          silent,       \* keys whose value was changed without a stamp
          outdated,     \* parts that a posted slot leaves behind
          layout, live, \* the layout, and whether it is operated
          job,          \* "setup", "running", or how it ended
          desk,         \* [state, parts, widget]
          stack, queue,
          web,          \* [state, copy, parts, widget]
          acts

vars == <<model, silent, outdated, layout, live, job, desk, stack, queue, web,
          acts>>

NoDesk == [state |-> "none", parts |-> <<>>, widget |-> <<>>]
NoWeb  == [state |-> "none", copy |-> <<>>, parts |-> <<>>, widget |-> <<>>]

Init ==
    /\ model = Elements
    /\ silent = {} /\ outdated = {}
    /\ layout = None /\ live = FALSE
    /\ job = "setup"
    /\ desk = NoDesk /\ stack = <<>> /\ queue = <<>>
    /\ web = NoWeb
    /\ acts = 0

(***************************************************************************)
(* The job sets its layout, or none.  A layout that is refused throws out  *)
(* of the job.                                                             *)
(***************************************************************************)
SetGUILayout ==
    \E i \in DOMAIN Offers :
        LET verdict == ValidateGUI(Offers[i], model) IN
        /\ job = "setup"
        /\ job' = IF verdict = "ok" THEN "running" ELSE verdict
        /\ layout' = IF verdict = "ok" THEN Offers[i] ELSE layout
        /\ live' = (verdict = "ok" /\ i \in Operated)
        /\ UNCHANGED <<model, silent, outdated, desk, stack, queue, web, acts>>

NoLayout ==
    /\ job = "setup" /\ job' = "running"
    /\ UNCHANGED <<model, silent, outdated, layout, live, desk, stack, queue, web, acts>>

\* getGUILayout makes the default layout when it is first asked.
TheLayout == IF layout = None THEN DefaultGUILayout(model) ELSE layout

(***************************************************************************)
(* Desktop widgets.  `shown' is what the widget shows, `current' what its  *)
(* StringController believes it shows; Empty for a caption, a combo box    *)
(* without a current item and radio buttons none of which is checked.      *)
(***************************************************************************)
RangeWidgets == {"SpinBox", "DoubleSpinBox", "HorizontalSlider"}
Choosers     == {"ComboBox", "RadioButtons"}
TextWidgets  == {"TextInput", "Label", "PopupButton", "FileDialogButton"}

Clamped(v, range) ==
    IF range = <<>> THEN v ELSE IF v < range[1] THEN range[1]
    ELSE IF v > range[2] THEN range[2] ELSE v

Among(v, options) == IF v \in options THEN v ELSE Empty

NumberShown(el) == Clamped(el.value, el.range)
ChoiceShown(el) == Among(el.value, el.options)
SwitchShown(el) == el.value

\* A string controller shows the value, or a caption.
TextShown(e, el) == IF e.show THEN el.value ELSE Empty

Shown(e, el) ==
    CASE e.kind \in RangeWidgets -> NumberShown(el)
      [] e.kind \in Choosers     -> ChoiceShown(el)
      [] e.kind = "CheckBox"     -> SwitchShown(el)
      [] e.kind \in TextWidgets  -> TextShown(e, el)
      [] OTHER                   -> Empty

Widget(e, el) ==
    [shown |-> Shown(e, el), current |-> Shown(e, el), range |-> el.range,
     options |-> el.options, visible |-> TRUE, enabled |-> TRUE]

\* A layout without a key: nothing is shown.
Frame(e) == Widget(e, Element("string", Empty))

\* VisibilityController and EnabledController: the key's value, or not it.
On(part, v) ==
    (v = 1) # (IF part.role = "visible" THEN part.el.visInv ELSE part.el.enInv)

ValueParts(parts) == {j \in DOMAIN parts : parts[j].role = "value"}
PathsOf(parts)    == {parts[j].path : j \in {j \in DOMAIN parts : parts[j].role # "title"}}

Built(parts, m) ==
    LET own(p) == {j \in ValueParts(parts) : parts[j].path = p}
        first(p) == IF own(p) = {} THEN Frame(El("Grid", NoKey, FALSE, 0, <<>>))
                    ELSE LET part == parts[CHOOSE j \in own(p) : TRUE]
                         IN  Widget(part.el, m.elements[part.key])
        on(p, role) == \A j \in DOMAIN parts :
                          parts[j].path = p /\ parts[j].role = role
                          => On(parts[j], m.elements[parts[j].key].value)
    IN  [p \in PathsOf(parts) |->
            [first(p) EXCEPT !.visible = on(p, "visible"), !.enabled = on(p, "enabled")]]

\* Checking the button of the current value writes the value back.
RadioKeys(parts, m) ==
    {parts[j].key : j \in {j \in ValueParts(parts) :
        /\ parts[j].el.kind = "RadioButtons"
        /\ m.elements[parts[j].key].value \in m.elements[parts[j].key].options}}

StartDesktop ==
    LET parts == DeskParts(TheLayout, <<>>)
        fine  == \A j \in DOMAIN parts : DeskBuilds(parts[j], model)
    IN  /\ job = "running" /\ desk.state = "none"
        /\ layout' = TheLayout
        /\ desk' = IF fine THEN [state |-> "shown", parts |-> parts, widget |-> Built(parts, model)]
                   ELSE [desk EXCEPT !.state = "failed"]
        /\ model' = IF fine THEN [model EXCEPT !.news = @ \cup RadioKeys(parts, model)] ELSE model
        /\ job' = IF fine THEN job ELSE "ended"
        /\ UNCHANGED <<silent, outdated, live, stack, queue, web, acts>>

(***************************************************************************)
(* The calls on the stack: telling the state or schema listeners that are  *)
(* left, and the slots of the widget at path p.                            *)
(***************************************************************************)
Call(op, p, key, v, rest) == [op |-> op, path |-> p, key |-> key, value |-> v, rest |-> rest]
Slot(op, p, v)            == Call(op, p, NoKey, v, <<>>)

Locked == \E i \in DOMAIN stack : stack[i].op \in {"state", "schema"}

Listens(part) ==
    \/ part.role \in {"visible", "enabled"}
    \/ /\ part.role = "value"
       /\ \/ part.el.kind \in RangeWidgets \cup Choosers \cup {"CheckBox"}
          \/ part.el.kind \in TextWidgets /\ part.el.show

ListensToSchema(part) == part.role = "value" /\ part.el.kind \in RangeWidgets \cup Choosers

Listeners(k)       == SelectSeq(desk.parts, LAMBDA part : part.key = k /\ Listens(part))
SchemaListeners(k) == SelectSeq(desk.parts, LAMBDA part : part.key = k /\ ListensToSchema(part))

\* The calls a model operation makes.
Calls(calls) ==
    [i \in DOMAIN calls |->
        LET c == calls[i] IN
        Call(c.call, <<>>, c.key, c.value,
             IF c.call = "state" THEN Listeners(c.key) ELSE SchemaListeners(c.key))]

(***************************************************************************)
(* One listener is told the value v of its key: the widget it leaves and   *)
(* the slots it signals.  A spin box reads the model again; a combo box    *)
(* turns the value into an index into the options it has at that moment.   *)
(***************************************************************************)
Index(v, options) == IF v \in options THEN Cardinality({x \in options : x < v}) + 1 ELSE 0
Option(i, options) == IF \E x \in options : Index(x, options) = i
                      THEN CHOOSE x \in options : Index(x, options) = i ELSE Empty

Signals(w, slots) == [widget |-> w, slots |-> slots]

\* A visibility or enabled controller.
HearToggle(part, v, w) == Signals(w, <<Slot(part.role, part.path, IF On(part, v) THEN 1 ELSE 0)>>)

HearSpinBox(part, w, m) == Signals(w, <<Slot("set", part.path, m.elements[part.key].value)>>)

HearSwitch(part, v, w) == Signals(w, <<Slot("set", part.path, v)>>)

HearComboBox(part, v, w) == Signals(w, <<Slot("set", part.path, Index(v, w.options))>>)

\* Each radio button checks itself, if it is for this value.
HearRadioButton(part, v, w) ==
    Signals(w, IF v \in w.options /\ w.shown # v THEN <<Slot("set", part.path, v)>> ELSE <<>>)

\* A string controller signals a text, but sets the text of a button itself.
HearText(part, v, w) ==
    LET told == [w EXCEPT !.current = v] IN
    IF w.current = v THEN Signals(w, <<>>)
    ELSE IF part.el.kind \in {"TextInput", "Label"}
    THEN Signals(told, <<Slot("set", part.path, v)>>)
    ELSE Signals([told EXCEPT !.shown = v], <<>>)

Hear(part, v, w, m) ==
    CASE part.role # "value"                             -> HearToggle(part, v, w)
      [] part.el.kind \in {"SpinBox", "DoubleSpinBox"}   -> HearSpinBox(part, w, m)
      [] part.el.kind \in {"HorizontalSlider", "CheckBox"} -> HearSwitch(part, v, w)
      [] part.el.kind = "ComboBox"                       -> HearComboBox(part, v, w)
      [] part.el.kind = "RadioButtons"                   -> HearRadioButton(part, v, w)
      [] OTHER                                           -> HearText(part, v, w)

\* A schema listener: new limits at once, which may move the value; a
\* refresh of the options by a slot.
HearSchema(part, w, m) ==
    LET range == m.elements[part.key].range
        v     == Clamped(w.shown, range)
    IN  IF part.el.kind \in RangeWidgets
        THEN Signals([w EXCEPT !.range = range, !.shown = v],
                     IF v = w.shown THEN <<>> ELSE <<Slot("changed", part.path, v)>>)
        ELSE Signals(w, <<Slot("refresh", part.path, Empty)>>)

Told(call, part, widget, m) ==
    IF call.op = "state" THEN Hear(part, call.value, widget[part.path], m)
    ELSE HearSchema(part, widget[part.path], m)

(***************************************************************************)
(* The main thread                                                         *)
(***************************************************************************)
Running == job = "running" /\ desk.state = "shown"
Top     == Head(stack)
PartAt(p) == LET j == CHOOSE j \in ValueParts(desk.parts) : desk.parts[j].path = p
             IN  desk.parts[j]

\* The next listener of the innermost model call, or its return.
TellNext ==
    /\ Running /\ stack # <<>> /\ Top.op \in {"state", "schema"}
    /\ IF Top.rest = <<>>
       THEN stack' = Tail(stack) /\ desk' = desk
       ELSE LET part == Head(Top.rest)
                r    == Told(Top, part, desk.widget, model)
            IN  /\ desk' = [desk EXCEPT !.widget[part.path] = r.widget]
                /\ stack' = r.slots \o <<[Top EXCEPT !.rest = Tail(@)]>> \o Tail(stack)
    /\ UNCHANGED <<model, silent, outdated, layout, live, job, queue, web, acts>>

\* The widgets whose setter signals what it changed.
ChangeSignalledByUser(kind, old, new) == new # old /\ kind \notin {"ComboBox", "Label"} \cup RangeWidgets

ChangeSignalled(kind, old, new) == new # old /\ kind \notin {"ComboBox", "Label"}

\* A setter: it signals a change to the slot that writes to the model.
SetWidget ==
    /\ Running /\ stack # <<>> /\ Top.op = "set"
    /\ LET p   == Top.path
           w   == desk.widget[p]
           k   == PartAt(p).el.kind
           new == CASE k \in RangeWidgets -> Clamped(Top.value, w.range)
                    [] k = "ComboBox"     -> Option(Top.value, w.options)
                    [] OTHER              -> Top.value
           tells == ChangeSignalled(k, w.shown, new)
       IN  /\ desk' = [desk EXCEPT !.widget[p].shown = new]
           /\ stack' = (IF tells THEN <<Slot("changed", p, new)>> ELSE <<>>) \o Tail(stack)
    /\ UNCHANGED <<model, silent, outdated, layout, live, job, queue, web, acts>>

Toggle ==
    /\ Running /\ stack # <<>> /\ Top.op \in {"visible", "enabled"}
    /\ desk' = IF Top.op = "visible"
               THEN [desk EXCEPT !.widget[Top.path].visible = (Top.value = 1)]
               ELSE [desk EXCEPT !.widget[Top.path].enabled = (Top.value = 1)]
    /\ stack' = Tail(stack)
    /\ UNCHANGED <<model, silent, outdated, layout, live, job, queue, web, acts>>

\* updateRestrictions of a combo box, updateRestriction of radio buttons:
\* the old buttons are gone with the slots posted to them.
Refresh ==
    /\ Running /\ stack # <<>> /\ Top.op = "refresh"
    /\ LET p  == Top.path
           el == model.elements[PartAt(p).key]
           radio == PartAt(p).el.kind = "RadioButtons"
           shown == IF radio THEN Among(el.value, el.options) ELSE Option(1, el.options)
       IN  /\ desk' = [desk EXCEPT !.widget[p].options = el.options, !.widget[p].shown = shown]
           /\ queue' = IF radio THEN SelectSeq(queue, LAMBDA c : ~ (c.path = p /\ c.op = "set"))
                       ELSE queue
           /\ stack' = (IF radio /\ shown # Empty THEN <<Slot("changed", p, shown)>> ELSE <<>>)
                       \o Tail(stack)
    /\ UNCHANGED <<model, silent, outdated, layout, live, job, web, acts>>

\* What the change of a widget does to the model.
WriteNumber(k, v) == UpdateElement(model, k, model.elements[k].type, v)
WriteSwitch(k, v) == UpdateElement(model, k, "bool", v)
WriteText(k, v)   == UpdateElementFromString(model, k, v)

Written(part, v) ==
    CASE part.el.kind \in RangeWidgets           -> WriteNumber(part.key, v)
      [] part.el.kind \in {"CheckBox", "Button"} -> WriteSwitch(part.key, v)
      [] OTHER                                   -> WriteText(part.key, v)

\* The keys whose value the browser's next update will not bring.
Silenced(k, r) ==
    IF k \in r.model.news THEN silent \ {k}
    ELSE IF r.model.elements[k].value # model.elements[k].value THEN silent \cup {k} ELSE silent

\* The parts that are left behind.  Main thread: a part that only listens is
\* given an older value later, by a posted slot or by a call further out.
\* Other threads: a text is being taken; a combo box has other options than
\* the ones its index was looked up in.
OnlyListens(part) ==
    part.role \in {"visible", "enabled"} \/ part.el.kind \in {"ComboBox", "Label"}

OlderToCome(part) ==
    \/ \E i \in DOMAIN stack : /\ stack[i].op = "state"
                               /\ \E j \in DOMAIN stack[i].rest : stack[i].rest[j] = part
    \/ \E i \in DOMAIN queue : /\ queue[i].path = part.path
                               /\ queue[i].op = IF part.role = "value" THEN "set" ELSE part.role

PartsOf(k) == {desk.parts[j] : j \in {j \in DOMAIN desk.parts : desk.parts[j].key = k}}

Overtaken(k, calls) ==
    outdated \cup {part \in PartsOf(k) : calls # <<>> /\ OnlyListens(part) /\ OlderToCome(part)}

Crossed(k, m) ==
    outdated \cup {part \in PartsOf(k) :
        \/ \E i \in DOMAIN stack : stack[i].op = "current" /\ stack[i].path = part.path
        \/ part.el.kind = "ComboBox" /\ m.elements[k].options # model.elements[k].options}

\* The slot of a changed widget.  Nothing catches what it throws but the
\* text field, which puts the old text back.
Changed ==
    /\ Running /\ stack # <<>> /\ Top.op = "changed"
    /\ LET p    == Top.path
           v    == Top.value
           part == PartAt(p)
           r    == Written(part, v)
           w    == desk.widget[p]
           text == part.el.kind = "TextInput"
           old  == IF v = Empty THEN Empty ELSE w.current
       IN  \/ /\ text /\ w.current = v
              /\ stack' = Tail(stack)
              /\ UNCHANGED <<model, silent, outdated, desk, queue, job>>
           \/ /\ ~ (text /\ w.current = v) /\ ~ r.thrown
              /\ model' = r.model /\ silent' = Silenced(part.key, r)
              /\ outdated' = Overtaken(part.key, r.calls)
              /\ stack' = Calls(r.calls)
                          \o (IF text THEN <<Slot("current", p, v)>> ELSE <<>>) \o Tail(stack)
              /\ UNCHANGED <<desk, queue, job>>
           \/ /\ text /\ w.current # v /\ r.thrown
              /\ model' = r.model /\ silent' = Silenced(part.key, r)
              /\ desk' = [desk EXCEPT !.widget[p].current = old]
              /\ stack' = <<Slot("set", p, old)>> \o Tail(stack)
              /\ UNCHANGED <<outdated, queue, job>>
           \/ /\ ~ text /\ r.thrown
              /\ desk' = [desk EXCEPT !.state = "ended"]
              /\ stack' = <<>> /\ queue' = <<>> /\ job' = "ended"
              /\ model' = r.model /\ silent' = Silenced(part.key, r) /\ outdated' = outdated
    /\ UNCHANGED << layout, live, web, acts>>

\* textChangeFromQt, when the model has taken the text.
TextTaken ==
    /\ Running /\ stack # <<>> /\ Top.op = "current"
    /\ desk' = [desk EXCEPT !.widget[Top.path].current = Top.value]
    /\ stack' = Tail(stack)
    /\ UNCHANGED <<model, silent, outdated, layout, live, job, queue, web, acts>>

\* The main loop takes a posted slot.
Deliver ==
    /\ Running /\ stack = <<>> /\ queue # <<>>
    /\ stack' = <<Head(queue)>> /\ queue' = Tail(queue)
    /\ UNCHANGED <<model, silent, outdated, layout, live, job, desk, web, acts>>

\* A widget can be used if it and all it is in are visible and enabled.
Usable(widget, p) ==
    \A q \in DOMAIN widget : IsPrefix(q, p) => widget[q].visible /\ widget[q].enabled

\* What the user can make of a widget.
UserChoices(part, w) ==
    CASE part.el.kind \in RangeWidgets -> {v \in Values[part.key] : Within(v, w.range)} \ {w.shown}
      [] part.el.kind = "ComboBox"     -> w.options
      [] part.el.kind = "RadioButtons" -> w.options \ {w.shown}
      [] part.el.kind \in {"CheckBox", "Checkbox"} -> {1 - w.shown}
      [] part.el.kind = "TextInput"    -> (Values[part.key] \cup {Empty, NoNumber}) \ {w.shown}
      [] part.el.kind = "Button"       -> {1}
      [] OTHER                         -> {}

\* The user acts: the widget changes, then its slot runs.
UserSets ==
    /\ Running /\ live /\ stack = <<>> /\ acts < MaxActs
    /\ \E j \in ValueParts(desk.parts) :
          LET part == desk.parts[j]
              p    == part.path
          IN  \E v \in UserChoices(part, desk.widget[p]) :
                 /\ Usable(desk.widget, p)
                 /\ desk' = IF part.el.kind = "Button" THEN desk
                            ELSE [desk EXCEPT !.widget[p].shown = v]
                 /\ stack' = <<Slot("changed", p, v)>>
    /\ acts' = acts + 1
    /\ UNCHANGED <<model, silent, outdated, layout, live, job, queue, web>>

(***************************************************************************)
(* The job changes the model.                                              *)
(***************************************************************************)
LayoutKeys == {desk.parts[j].key : j \in DOMAIN desk.parts}

JobUpdates(k) ==
    LET type == model.elements[k].type IN
    {UpdateElement(model, k, type, v) : v \in Values[k]}
    \cup {UpdateConstraints(model, k, v, g[1], g[2]) : v \in Values[k], g \in Ranges[k]}
    \cup {UpdateRestrictions(model, k, v, o) : v \in Values[k], o \in OptionSets[k]}

\* On the main thread: a listener of the job's, or a script.
JobChangesOnMain ==
    /\ Running /\ live /\ stack = <<>> /\ acts < MaxActs
    /\ \E k \in LayoutKeys : \E r \in JobUpdates(k) :
          /\ ~ r.thrown /\ r.calls # <<>>
          /\ model' = r.model /\ silent' = Silenced(k, r)
          /\ outdated' = Overtaken(k, r.calls)
          /\ stack' = Calls(r.calls)
    /\ acts' = acts + 1
    /\ UNCHANGED <<layout, live, job, desk, queue, web>>

\* On another thread all the listeners are told under the lock; what they
\* signal is posted, but limits are set on the widgets at once.
ToldElsewhere(calls, m) ==
    FoldLeft(LAMBDA s, call :
        FoldLeft(LAMBDA t, part :
            LET r == Told(call, part, t.widget, m)
            IN  [widget |-> [t.widget EXCEPT ![part.path] = r.widget], queue |-> t.queue \o r.slots],
            s, call.rest),
        [widget |-> desk.widget, queue |-> queue], Calls(calls))

JobChangesElsewhere ==
    /\ Running /\ live /\ ~ Locked /\ acts < MaxActs
    /\ \E k \in LayoutKeys : \E r \in JobUpdates(k) :
          /\ ~ r.thrown /\ r.calls # <<>>
          /\ LET t == ToldElsewhere(r.calls, r.model)
             IN  desk' = [desk EXCEPT !.widget = t.widget] /\ queue' = t.queue
          /\ model' = r.model /\ silent' = Silenced(k, r)
          /\ outdated' = Crossed(k, r.model)
    /\ acts' = acts + 1
    /\ UNCHANGED <<layout, live, job, stack, web>>

(***************************************************************************)
(* The browser.  A widget shows what it was last told; the listeners of a  *)
(* key read the copy, so that they are left with what it holds.            *)
(***************************************************************************)
WebValue(el) == Cast(el.type, el.value)

WebShown(e, el) ==
    CASE e.kind = "RadioButtons"          -> Among(WebValue(el), el.options)
      [] e.kind \in ShowWidgets \ {"Tab"} -> IF e.show THEN WebValue(el) ELSE Empty
      [] e.kind \in {"Button", "Canvas"}  -> Empty
      [] OTHER                            -> WebValue(el)

WebOn(part, copy) ==
    (WebValue(copy[part.key]) = 1) # (IF part.role = "visible" THEN part.el.visInv ELSE part.el.enInv)

\* The part is told: radio buttons keep the options they were made with.
WebTold(widget, part, copy) ==
    LET p  == part.path
        el == copy[part.key]
    IN  CASE part.role = "visible" -> [widget EXCEPT ![p].visible = WebOn(part, copy)]
          [] part.role = "enabled" -> [widget EXCEPT ![p].enabled = WebOn(part, copy)]
          [] part.role = "title"   -> widget
          [] part.el.kind = "RadioButtons" ->
                 IF WebValue(el) \in widget[p].options
                 THEN [widget EXCEPT ![p].shown = WebValue(el)] ELSE widget
          [] OTHER -> [widget EXCEPT ![p].shown = WebShown(part.el, el), ![p].options = el.options]

WebAllTold(widget, parts, copy, keys) ==
    FoldLeft(LAMBDA w, part : IF part.key \in keys THEN WebTold(w, part, copy) ELSE w,
             widget, parts)

WebBuilt(parts, copy) ==
    LET valued == {parts[j].path : j \in ValueParts(parts)}
        first(p) == IF p \in valued
                    THEN LET part == parts[CHOOSE j \in ValueParts(parts) : parts[j].path = p]
                         IN  [shown |-> WebShown(part.el, copy[part.key]),
                              options |-> copy[part.key].options, visible |-> TRUE, enabled |-> TRUE]
                    ELSE [shown |-> Empty, options |-> {}, visible |-> TRUE, enabled |-> TRUE]
        toggles == SelectSeq(parts, LAMBDA part : part.role \in {"visible", "enabled"})
    IN  WebAllTold([p \in PathsOf(parts) |-> first(p)], toggles, copy, DOMAIN copy)

\* main.js: the first update is parsed and the page built from it once.
FirstPoll ==
    LET xml   == BuildGUILayout(TheLayout)
        r     == Parsed(model, <<>>, DOMAIN model.elements)
        tree  == MakeGUIElement(xml)
        parts == WebParts(tree, <<>>)
        fine  == /\ ~ r.failed /\ XmlParses(xml) /\ WebFits(tree)
                 /\ \A j \in DOMAIN parts : WebBuilds(parts[j], r.copy)
    IN  /\ job = "running" /\ web.state = "none" /\ ~ Locked
        /\ layout' = TheLayout
        /\ IF XmlVerdict(TheLayout, "") # "ok"
           THEN job' = "gone" /\ UNCHANGED <<web, model>>
           ELSE /\ job' = job
                /\ web' = IF fine THEN [state |-> "shown", copy |-> r.copy, parts |-> parts,
                                        widget |-> WebBuilt(parts, r.copy)]
                          ELSE [web EXCEPT !.state = "failed"]
                /\ model' = [model EXCEPT !.news = {}]
        /\ UNCHANGED <<silent, outdated, live, desk, stack, queue, acts>>

\* A poll is answered only if an element is stamped; if parsing throws the
\* browser's revision stays what it was.
Poll ==
    LET r == Parsed(model, web.copy, model.news) IN
    /\ job = "running" /\ web.state = "shown" /\ ~ Locked /\ model.news # {}
    /\ web' = [web EXCEPT !.copy = r.copy,
                          !.widget = WebAllTold(@, web.parts, r.copy, r.told)]
    /\ model' = IF r.failed THEN model ELSE [model EXCEPT !.news = {}]
    /\ UNCHANGED <<silent, outdated, layout, live, job, desk, stack, queue, acts>>

(***************************************************************************)
(* A user of the browser changes a widget: the copy, everything that       *)
(* listens to it, and a post of the value, which a server thread gives to  *)
(* updateElementFromString; XMLHandler::updateState swallows what that     *)
(* throws, and an empty element is never read.  A button sets false and    *)
(* then true.                                                              *)
(***************************************************************************)
Post(k, v, m) == IF v = Empty THEN Done(m, <<>>) ELSE UpdateElementFromString(m, k, v)

WebSets ==
    /\ Running /\ live /\ web.state = "shown" /\ ~ Locked /\ acts < MaxActs
    /\ \E j \in ValueParts(web.parts) :
          LET part == web.parts[j]
              k    == part.key
              kind == part.el.kind
              w    == web.widget[part.path]
              choices == IF kind \in RangeWidgets
                         THEN {v \in Values[k] : Within(v, web.copy[k].range)} \ {w.shown}
                         ELSE IF kind = "ComboBox" THEN (w.options \cup {NoNumber}) \ {w.shown}
                         ELSE UserChoices(part, w)
          IN  \E v \in choices :
                 LET first == IF kind = "Button" THEN Post(k, 0, model) ELSE Done(model, <<>>)
                     r     == Post(k, v, first.model)
                     calls == first.calls \o r.calls
                     t     == ToldElsewhere(calls, r.model)
                     read  == Stored(k, v, [copy |-> web.copy, told |-> {}, failed |-> FALSE])
                 IN  /\ Usable(web.widget, part.path)
                     /\ web' = [web EXCEPT !.copy = read.copy,
                                   !.widget = WebAllTold(IF kind = "Button" THEN @
                                                         ELSE [@ EXCEPT ![part.path].shown = v],
                                                         web.parts, read.copy, read.told)]
                     /\ model' = r.model /\ silent' = Silenced(k, r)
                     /\ desk' = [desk EXCEPT !.widget = t.widget] /\ queue' = t.queue
                     /\ outdated' = Crossed(k, r.model)
    /\ acts' = acts + 1
    /\ UNCHANGED <<layout, live, job, stack>>

Next ==
    \/ SetGUILayout \/ NoLayout \/ StartDesktop
    \/ TellNext \/ SetWidget \/ Toggle \/ Refresh \/ Changed \/ TextTaken \/ Deliver
    \/ UserSets \/ JobChangesOnMain \/ JobChangesElsewhere
    \/ FirstPoll \/ Poll \/ WebSets

Spec == Init /\ [][Next]_vars

-----------------------------------------------------------------------------
(***************************************************************************)
(* What a layout that was accepted still has to fulfil, since the check    *)
(* does not look at it: keys that switch widgets are switches, no box is   *)
(* empty, the contents of groups and popups are in order themselves, and a *)
(* grid has something in its first row.                                    *)
(***************************************************************************)
Sound(l) ==
    /\ l.kind \notin Spaces
    /\ \A e \in Below(l) :
          /\ e.vis = NoKey \/ IsBool(model, e.vis)
          /\ e.en = NoKey \/ IsBool(model, e.en)
          /\ e.kind \in Container0D \cup Container1D => Filled(e) = DOMAIN e.children
          /\ e.kind = "Grid" => Filled(e) # {} /\ GridParses(e)
          /\ e.kind \in {"ElementGroup", "PopupButton"} /\ e.children[1] # None =>
                 /\ ValidateGUI(e.children[1], model) = "ok"
                 /\ e.children[1].kind # "Tab"
    /\ \A k \in DOMAIN model.elements : ~ AddedTwice(Entry(model.elements[k]))

(***************************************************************************)
(* A layout the model has accepted, or has made itself, can be built on    *)
(* both sides: neither the desktop's builder nor the XML builder nor the   *)
(* browser's parser and builder stops on it (setGUILayout's check against  *)
(* what the two GUIBuilders ask of the model).                             *)
(***************************************************************************)
AcceptedIsBuildable ==
    job \in {"running", "ended", "gone"} /\ Sound(TheLayout)
        => desk.state # "failed" /\ job # "gone" /\ web.state # "failed"

(***************************************************************************)
(* When the main thread has nothing left to do, every desktop widget shows *)
(* what the model holds and is visible and enabled as its keys say, however*)
(* the user's changes, the job's on either thread and the browser's were   *)
(* interleaved (the widgets' listeners and slots).  Left out are the parts *)
(* the code does leave behind, which `outdated` collects: a part that only *)
(* listens and was told an older value late, through the event queue or by *)
(* the outer of two nested changes; a text that another thread writes while*)
(* it is being taken; a combo box whose index was found among old options; *)
(* and a text field that was emptied.                                      *)
(***************************************************************************)
ShowsModel(part) ==
    LET w == desk.widget[part.path]
        e == model.elements[part.key]
    IN  CASE part \in outdated -> TRUE
          [] part.role = "visible" -> w.visible = On(part, e.value)
          [] part.role = "enabled" -> w.enabled = On(part, e.value)
          [] ~ Listens(part)       -> TRUE
          [] part.el.kind = "ComboBox" -> w.shown = Among(e.value, w.options)
          [] part.el.kind = "RadioButtons" -> e.value \in w.options => w.shown = e.value
          [] part.el.kind = "TextInput" -> w.shown = e.value \/ w.shown = Empty
          [] OTHER -> w.shown = e.value

Settled == Running /\ stack = <<>> /\ queue = <<>>

DeskSettles == Settled => \A j \in DOMAIN desk.parts : ShowsModel(desk.parts[j])

(***************************************************************************)
(* When the main thread is done and the browser has had every stamped      *)
(* change, the two sides show the same: the same widgets in the same       *)
(* places, the same of them visible and enabled, and the same values.  Left*)
(* out are what the browser cannot know, a change without a stamp and an   *)
(* emptied text, what the layout's XML loses, the inversion of an enabled  *)
(* key, and options that came later to radio buttons.                      *)
(***************************************************************************)
Emptied == {k \in DOMAIN web.copy : Empty \in {model.elements[k].value, web.copy[k].value}}

Same(part) ==
    LET w == desk.widget[part.path]
        x == web.widget[part.path]
        e == model.elements[part.key]
    IN  CASE part \in outdated -> TRUE
          [] part.role = "visible" -> w.visible = x.visible
          [] part.role = "enabled" -> part.el.enInv \/ w.enabled = x.enabled
          [] part.role = "title"   -> TRUE
          [] part.key \in Emptied \/ Empty \in {w.shown, x.shown} -> TRUE
          [] part.el.kind = "RadioButtons" -> e.value \in w.options \cap x.options => w.shown = x.shown
          [] OTHER -> w.shown = x.shown

SidesAgree ==
    Settled /\ web.state = "shown" /\ model.news = {} /\ silent = {} =>
        /\ {[path |-> desk.parts[j].path, kind |-> XmlName(desk.parts[j].el.kind)] :
               j \in ValueParts(desk.parts)}
           = {[path |-> web.parts[j].path, kind |-> web.parts[j].el.kind] :
               j \in ValueParts(web.parts)}
        /\ \A j \in DOMAIN desk.parts : Same(desk.parts[j])
=============================================================================
