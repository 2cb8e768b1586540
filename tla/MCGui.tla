-------------------------------- MODULE MCGui --------------------------------
(***************************************************************************)
(* One rich model; layouts that are only built, and layouts that are       *)
(* operated as well.                                                       *)
(***************************************************************************)
EXTENDS Gui

MCNoNumber == -1
MCEmpty == -2

MCKeyOrder == <<"cam", "file", "flag", "loose", "mat", "num", "pick", "real", "text">>

\* The job builds its model with the operations of the exposed model.
MCElements ==
    LET m1 == AddElement(NoModel, "cam", "complexType", 0).model
        m2 == AddElement(m1, "file", "file", NoNumber).model
        m3 == AddElement(m2, "flag", "bool", 1).model
        m4 == AddElement(m3, "loose", "integer", 3).model
        m5 == AddMatrixElement(m4, "mat", 0).model
        m6 == AddConstrainedElement(m5, "num", "integer", 1, 0, 2).model
        m7 == AddElementWithRestriction(m6, "pick", "string", 2, {1, 2}).model
        m8 == AddConstrainedElement(m7, "real", "double", 1, 0, 2).model
        m9 == AddElement(m8, "text", "string", 5).model
    IN  AddAnnotation(m9, "flag").model

MCValues == [k \in {"cam", "file", "flag", "loose", "mat", "num", "pick", "real", "text"} |->
    CASE k = "flag"            -> {0, 1}
      [] k \in {"num", "real"} -> {0, 1, 2}
      [] k = "pick"            -> {1, 2, 3}
      [] k = "text"            -> {5, 6}
      [] OTHER                 -> {}]

MCRanges == [k \in {"cam", "file", "flag", "loose", "mat", "num", "pick", "real", "text"} |->
    CASE k = "num"  -> {<<0, 1>>, <<1, 2>>}
      [] k = "real" -> {<<1, 2>>}
      [] OTHER      -> {}]

MCOptionSets == [k \in {"cam", "file", "flag", "loose", "mat", "num", "pick", "real", "text"} |->
    IF k = "pick" THEN {{2, 3}, {1, 2, 3}} ELSE {}]

Kinds == <<"TextInput", "ComboBox", "RadioButtons", "SpinBox", "DoubleSpinBox", "CheckBox",
           "HorizontalSlider", "Canvas", "Label", "FileDialogButton", "Button">>
Keys  == Append(MCKeyOrder, "nokey")

\* Every leaf on every key.
LeafLayouts == Flat([i \in DOMAIN Kinds |-> [j \in DOMAIN Keys |-> Leaf(Kinds[i], Keys[j])]])

Spin  == Leaf("SpinBox", "num")
Text  == Leaf("TextInput", "text")
Check == Leaf("CheckBox", "flag")
Bad   == Leaf("SpinBox", "text")
Gap   == Space("VerticalSpace")

Boxes == <<
    Row("VerticalLayout", <<Spin, Gap, Check>>),
    Row("HorizontalLayout", <<>>),
    Row("HorizontalLayout", <<Spin, None>>),
    Row("VerticalLayout", <<Row("TabLayout", <<Box("Tab", "flag", FALSE, Spin)>>), Text>>),
    Row("TabLayout", <<Box("Tab", "flag", FALSE, Gap), Box("Tab", "text", FALSE, Spin)>>),
    Row("TabLayout", <<Box("Tab", "flag", FALSE, None)>>),
    Row("TabLayout", <<None>>),
    Row("TabLayout", <<Box("Tab", "nokey", FALSE, Spin)>>),
    Row("TabLayout", <<Box("Tab", "flag", FALSE, Box("Tab", "flag", FALSE, Spin))>>),
    Row("TabLayout", <<Spin>>),
    Row("VerticalLayout", <<Box("Tab", "flag", FALSE, Spin)>>),
    SetVisibilityKey(Row("TabLayout", <<SetEnabledKey(Box("Tab", "flag", FALSE, Spin), "flag", FALSE)>>),
                     "flag", TRUE),
    Grid(2, <<None, Spin, Check, None>>),
    Grid(2, <<Spin, None, None, None>>),
    Grid(2, <<None, None, Spin, None>>),
    Grid(2, <<None, None, None, None>>),
    Grid(1, <<Grid(1, <<Check>>), None>>),
    Grid(1, <<Bad>>),
    Box("ElementGroup", "flag", FALSE, Grid(1, <<Spin, None>>)),
    Box("ElementGroup", "flag", TRUE, Spin),
    Box("ElementGroup", "flag", FALSE, None),
    Box("ElementGroup", "flag", FALSE, Bad),
    Box("ElementGroup", "flag", FALSE, Box("Tab", "flag", FALSE, Spin)),
    Box("ElementGroup", "flag", FALSE, SetVisibilityKey(Row("VerticalLayout", <<Text>>), "text", FALSE)),
    Box("ElementGroup", "nokey", FALSE, Spin),
    Box("PopupButton", "text", TRUE, Row("VerticalLayout", <<Check, Spin>>)),
    Box("PopupButton", "text", FALSE, None),
    Box("PopupButton", "text", FALSE, Bad),
    Shows("Label", "text", TRUE), Shows("Label", "nokey", TRUE),
    Gap,
    SetVisibilityKey(Spin, "text", FALSE),
    SetEnabledKey(Spin, "nokey", FALSE),
    SetEnabledKey(Spin, "flag", TRUE) >>

Live == <<
    Row("VerticalLayout", <<Spin, Leaf("HorizontalSlider", "num")>>),
    Row("VerticalLayout", <<Leaf("HorizontalSlider", "num"), Leaf("TextInput", "num")>>),
    Row("VerticalLayout", <<Check, SetVisibilityKey(Text, "flag", TRUE)>>),
    Leaf("ComboBox", "pick"),
    Row("HorizontalLayout", <<Leaf("RadioButtons", "pick"), Leaf("TextInput", "pick")>>),
    Grid(2, <<Leaf("DoubleSpinBox", "real"), Shows("Label", "real", TRUE)>>),
    Row("VerticalLayout", <<Leaf("Button", "flag"),
                            Box("ElementGroup", "flag", FALSE, SetEnabledKey(Check, "flag", FALSE))>>),
    Box("PopupButton", "text", TRUE, SetEnabledKey(Text, "flag", FALSE)) >>

MCOffers   == LeafLayouts \o Boxes \o Live
MCOperated == (Len(LeafLayouts) + Len(Boxes) + 1)..Len(MCOffers)
=============================================================================
