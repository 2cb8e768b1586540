--------------------------- MODULE QtServer_proofs ---------------------------
(***************************************************************************)
(* For any number of browsers, pool threads, changes and viewers: a        *)
(* picture is of the viewer and of the update that it was asked for with,  *)
(* and the widget ends at the value of the model.                          *)
(***************************************************************************)
EXTENDS QtServer, FiniteSetTheorems, TLAPS

-----------------------------------------------------------------------------
(* The types.                                                              *)

PollState == {"off", "queued", "checks", "unasleep", "asleep", "awake", "done", "spins"}
SnapState == {"off", "queued", "updates", "releases", "rgb", "depth", "grabs rgb",
              "grabs depth", "has rgb", "has depth", "done", "spins"}

Image == [view : View \cup {None}, rev : Nat]
Fetch == Image \cup {NotAsked}
Event == [what : {"show"}, val : Value] \cup [what : {"rgb", "depth"}, conn : Snap]

ThreadTypes ==
    /\ backlog \in Seq(Conn)
    /\ pc \in [Conn -> PollState \cup SnapState]
    /\ \A p \in Poll : pc[p] \in PollState
    /\ \A c \in Snap : pc[c] \in SnapState

ModelTypes ==
    /\ rev \in Nat /\ value \in Value
    /\ holds \in Int /\ buffer \in Seq(Value)
    /\ edited \in [Conn -> Nat]

ImageTypes ==
    /\ reply \in [Conn -> [rgb : Fetch, depth : Fetch]]
    /\ grabber \in Snap \cup {None}
    /\ frame \in Image /\ image \in Image

GuiTypes ==
    /\ events \in Seq(Event)
    /\ widget \in Value /\ main \in Value \cup {None}

Types == ThreadTypes /\ ModelTypes /\ ImageTypes /\ GuiTypes

\* A listener wakes long polls and does nothing to the others.
LEMMA AwakenedTypes ==
    ASSUME ThreadTypes
    PROVE  /\ Awakened \in [Conn -> PollState \cup SnapState]
           /\ \A p \in Poll : Awakened[p] \in PollState
           /\ \A c \in Snap : Awakened[c] = pc[c]
BY DEF ThreadTypes, Awakened, Conn, PollState, SnapState

LEMMA ToStateTypes ==
    ASSUME ThreadTypes, NEW c \in Conn, NEW s, ToState(c, s),
           c \in Poll => s \in PollState, c \in Snap => s \in SnapState,
           UNCHANGED backlog
    PROVE  ThreadTypes'
BY DEF ThreadTypes, ToState, Conn

LEMMA ShowIsEvent == \A v \in Value : Show(v) \in Event
BY DEF Show, Event

LEMMA ShowsTypes ==
    ASSUME NEW vs \in Seq(Value)
    PROVE  Shows(vs) \in Seq(Event) /\ Len(Shows(vs)) = Len(vs)
<1>1. \A i \in 1 .. Len(vs) : vs[i] \in Value
  OBVIOUS
<1>2. \A i \in 1 .. Len(vs) : Show(vs[i]) \in Event
  BY <1>1, ShowIsEvent
<1> QED
  BY <1>2 DEF Shows

LEMMA UpdateTypes ==
    ASSUME ModelTypes, NEW v \in Value, Update(v), UNCHANGED edited
    PROVE  ModelTypes'
BY DEF ModelTypes, Update

LEMMA JobChangesTypes == ASSUME Types, JobChanges PROVE Types'
<1>1. PICK v \in Value :
        /\ Update(v)
        /\ IF Fires(v) THEN events' = Append(events, Show(v)) /\ pc' = Awakened
           ELSE UNCHANGED <<events, pc>>
  BY DEF JobChanges
<1>2. UNCHANGED <<backlog, edited, reply, grabber, frame, image, widget, main>>
  BY DEF JobChanges, imageVars
<1>3. ThreadTypes'
  BY <1>1, <1>2, AwakenedTypes DEF Types, ThreadTypes, Conn, PollState, SnapState
<1>4. ModelTypes'
  BY <1>1, <1>2, UpdateTypes DEF Types
<1>5. GuiTypes'
  BY <1>1, <1>2, ShowIsEvent DEF Types, GuiTypes
<1> QED
  BY <1>2, <1>3, <1>4, <1>5 DEF Types, ImageTypes

\* Nothing but the state of threads changes.
LEMMA ThreadsMoveTypes ==
    ASSUME Types, ThreadTypes',
           UNCHANGED <<modelVars, edited, imageVars, guiVars>>
    PROVE  Types'
BY DEF Types, ModelTypes, ImageTypes, GuiTypes, modelVars, imageVars, guiVars

LEMMA ConnectTypes == ASSUME Types, NEW c \in Conn, Connect(c) PROVE Types'
<1>1. backlog' \in Seq(Conn)
  BY DEF Connect, Types, ThreadTypes
<1>2. pc' = [pc EXCEPT ![c] = "queued"]
  BY DEF Connect
<1>3. /\ pc' \in [Conn -> PollState \cup SnapState]
      /\ \A d \in Conn : pc'[d] = IF d = c THEN "queued" ELSE pc[d]
  BY <1>2 DEF Types, ThreadTypes, PollState
<1>4. /\ \A p \in Poll : pc'[p] \in PollState
      /\ \A d \in Snap : pc'[d] \in SnapState
  BY <1>3 DEF Types, ThreadTypes, PollState, SnapState, Conn
<1>5. ThreadTypes'
  BY <1>1, <1>3, <1>4 DEF ThreadTypes
<1> QED
  BY <1>5, ThreadsMoveTypes DEF Connect

LEMMA StartThreadTypes == ASSUME Types, StartThread PROVE Types'
<1>1. Head(backlog) \in Conn /\ Tail(backlog) \in Seq(Conn)
  BY DEF StartThread, Types, ThreadTypes
<1>2. ThreadTypes'
  BY <1>1, QtAssumption DEF StartThread, FirstStep, Types, ThreadTypes, Conn, PollState,
     SnapState
<1> QED
  BY <1>2, ThreadsMoveTypes DEF StartThread

LEMMA BrowserLeavesTypes == ASSUME Types, NEW c \in Conn, BrowserLeaves(c) PROVE Types'
<1>1. ThreadTypes'
  BY DEF BrowserLeaves, Types, ThreadTypes, Conn, PollState, SnapState
<1> QED
  BY <1>1, ThreadsMoveTypes DEF BrowserLeaves

LEMMA PollRunsTypes == ASSUME Types, NEW p \in Poll, PollRuns(p) PROVE Types'
<1>1. p \in Conn /\ p \notin Snap
  BY QtAssumption DEF Conn
<1>2. ThreadTypes'
  BY <1>1, ToStateTypes DEF PollRuns, PollChecks, PollSleeps, PollTimesOut, PollAnswers,
     Types, PollState
<1> QED
  BY <1>2, ThreadsMoveTypes DEF PollRuns, PollChecks, PollSleeps, PollTimesOut, PollAnswers

LEMMA ServerUpdatesTypes == ASSUME Types, NEW c \in Snap, ServerUpdates(c) PROVE Types'
<1>1. c \in Conn /\ c \notin Poll
  BY QtAssumption DEF Conn
<1>2. ThreadTypes'
  BY <1>1, ToStateTypes DEF ServerUpdates, Types, SnapState
<1>3. ModelTypes'
  <2>1. rev' \in Nat /\ value' \in Value /\ holds' \in Int
    BY DEF ServerUpdates, Types, ModelTypes
  <2>2. buffer' \in Seq(Value)
    BY DEF ServerUpdates, Types, ModelTypes
  <2>3. edited' \in [Conn -> Nat]
    BY <2>1 DEF ServerUpdates, Types, ModelTypes
  <2> QED
    BY <2>1, <2>2, <2>3 DEF ModelTypes
<1> QED
  BY <1>2, <1>3 DEF ServerUpdates, Types, ImageTypes, GuiTypes, imageVars, guiVars

LEMMA ServerReleasesTypes == ASSUME Types, NEW c \in Snap, ServerReleases(c) PROVE Types'
<1>1. c \in Conn /\ c \notin Poll
  BY QtAssumption DEF Conn
<1> DEFINE woken == IF holds = 1 /\ buffer # <<>> THEN Awakened ELSE pc
<1>2. /\ woken \in [Conn -> PollState \cup SnapState]
      /\ \A p \in Poll : woken[p] \in PollState
      /\ \A d \in Snap : woken[d] \in SnapState
  BY AwakenedTypes DEF Types, ThreadTypes
<1>3. pc' = [woken EXCEPT ![c] = "rgb"] /\ UNCHANGED backlog
  BY DEF ServerReleases
<1>4. ThreadTypes'
  <2> HIDE DEF woken
  <2>1. pc' \in [Conn -> PollState \cup SnapState]
    BY <1>2, <1>3 DEF SnapState
  <2>2. \A d \in Conn : pc'[d] = IF d = c THEN "rgb" ELSE woken[d]
    BY <1>2, <1>3
  <2>3. \A p \in Poll : pc'[p] \in PollState
    BY <1>1, <1>2, <2>2 DEF Conn
  <2>4. \A d \in Snap : pc'[d] \in SnapState
    BY <1>2, <2>2 DEF Conn, SnapState
  <2> QED
    BY <1>3, <2>1, <2>3, <2>4 DEF Types, ThreadTypes
<1>5. ModelTypes'
  <2>1. buffer' \in {buffer, <<>>} /\ UNCHANGED <<rev, value, edited>> /\ holds' = holds - 1
    BY DEF ServerReleases
  <2>2. <<>> \in Seq(Value)
    OBVIOUS
  <2>3. holds - 1 \in Int
    BY DEF Types, ModelTypes
  <2> QED
    BY <2>1, <2>2, <2>3 DEF Types, ModelTypes
<1>6. GuiTypes'
  <2>1. Shows(buffer) \in Seq(Event)
    BY ShowsTypes DEF Types, ModelTypes
  <2>2. events \in Seq(Event) /\ events' \in {events, events \o Shows(buffer)}
    BY DEF ServerReleases, Types, GuiTypes
  <2>3. events \o Shows(buffer) \in Seq(Event)
    BY <2>1, <2>2
  <2> QED
    BY <2>2, <2>3 DEF ServerReleases, Types, GuiTypes
<1> QED
  BY <1>4, <1>5, <1>6 DEF ServerReleases, Types, ImageTypes, imageVars

LEMMA GrabTypes == ASSUME Types, NEW c \in Snap, Grab(c) PROVE Types'
<1>1. c \in Conn /\ c \notin Poll
  BY QtAssumption DEF Conn
<1>2. ThreadTypes'
  BY <1>1, ToStateTypes DEF Grab, Types, SnapState
<1>3. Invoke(c, pc[c]) \in Event
  BY DEF Grab, Invoke, Event
<1>4. GuiTypes'
  <2>1. events \in Seq(Event) /\ events' = Append(events, Invoke(c, pc[c]))
    BY DEF Grab, Types, GuiTypes
  <2>2. events' \in Seq(Event)
    BY <1>3, <2>1
  <2> QED
    BY <2>2 DEF Grab, Types, GuiTypes
<1> QED
  BY <1>2, <1>4 DEF Grab, Types, ImageTypes, ModelTypes, modelVars

LEMMA FetchedTypes ==
    ASSUME ImageTypes, NEW c \in Conn, NEW k \in {"rgb", "depth"}, Fetched(c, k),
           UNCHANGED <<frame, image>>
    PROVE  ImageTypes'
<1>1. reply[c] \in [rgb : Fetch, depth : Fetch] /\ image \in Fetch
  BY DEF ImageTypes, Fetch
<1>2. [reply[c] EXCEPT ![k] = image] \in [rgb : Fetch, depth : Fetch]
  BY <1>1
<1>3. reply' = [reply EXCEPT ![c] = [reply[c] EXCEPT ![k] = image]]
  BY DEF Fetched
<1> QED
  BY <1>2, <1>3 DEF Fetched, ImageTypes

LEMMA GrabDoneTypes == ASSUME Types, NEW c \in Snap, GrabDone(c) PROVE Types'
<1>1. c \in Conn /\ c \notin Poll
  BY QtAssumption DEF Conn
<1>2. ThreadTypes'
  BY <1>1, ToStateTypes DEF GrabDone, Types, SnapState
<1>3. ImageTypes'
  BY <1>1, FetchedTypes DEF GrabDone, Types
<1> QED
  BY <1>2, <1>3 DEF GrabDone, Types, GuiTypes, ModelTypes, modelVars, guiVars

\* The event that the main thread takes.
LEMMA HeadIsEvent ==
    ASSUME Types, events # <<>>
    PROVE  /\ Head(events) \in Event /\ Head(events) = events[1] /\ Len(events) >= 1
           /\ Tail(events) \in Seq(Event) /\ Len(Tail(events)) = Len(events) - 1
           /\ \A i \in 1 .. Len(Tail(events)) : Tail(events)[i] = events[i + 1]
           /\ Head(events).what = "show" => Head(events).val \in Value
           /\ Head(events).what \in {"rgb", "depth"} => Head(events).conn \in Snap
<1>1. events \in Seq(Event)
  BY DEF Types, GuiTypes
<1>2. Head(events) \in Event /\ Head(events) = events[1] /\ Len(events) >= 1
  BY <1>1
<1>3. /\ Tail(events) \in Seq(Event) /\ Len(Tail(events)) = Len(events) - 1
      /\ \A i \in 1 .. Len(Tail(events)) : Tail(events)[i] = events[i + 1]
  BY <1>1
<1>4. \A e \in Event : /\ e.what = "show" => e.val \in Value
                       /\ e.what \in {"rgb", "depth"} => e.conn \in Snap
  BY DEF Event
<1> QED
  BY <1>2, <1>3, <1>4

\* What the main thread does with an invocation.
LEMMA MainInvokesEffect ==
    ASSUME Types, MainInvokes
    PROVE  \E c \in Snap, k \in {"rgb", "depth"} :
              /\ Head(events).what = k /\ Head(events).conn = c
              /\ ToState(c, IF k = "rgb" THEN "has rgb" ELSE "has depth")
              /\ image' = frame' /\ frame' \in Image
              /\ k = "rgb" => image'.view = Want[c] /\ image'.rev = rev
<1>1. events # <<>> /\ Head(events).what \in {"rgb", "depth"}
  BY DEF MainInvokes
<1>2. Head(events).conn \in Snap
  BY <1>1, HeadIsEvent
<1> DEFINE c == Head(events).conn
           k == Head(events).what
<1>3. FetcherRuns(c, k) /\ ToState(c, IF k = "rgb" THEN "has rgb" ELSE "has depth")
  BY DEF MainInvokes
<1>4. Want[c] \in View /\ rev \in Nat /\ frame \in Image
  BY <1>2, QtAssumption DEF Types, ModelTypes, ImageTypes
<1> HIDE DEF c, k
<1>5. CASE k = "rgb"
  <2>1. frame' = [view |-> Want[c], rev |-> rev] /\ image' = frame'
    BY <1>3, <1>5 DEF FetcherRuns, GrabRGB
  <2>2. frame' \in Image
    BY <1>4, <2>1 DEF Image
  <2> QED
    BY <1>1, <1>2, <1>3, <1>5, <2>1, <2>2 DEF c, k
<1>6. CASE k = "depth"
  <2>1. frame' \in {frame, NoImage} /\ image' = frame'
    BY <1>3, <1>6 DEF FetcherRuns, GrabDepth
  <2>2. frame' \in Image
    BY <1>4, <2>1 DEF Image, NoImage
  <2> QED
    BY <1>1, <1>2, <1>3, <1>6, <2>1, <2>2 DEF c, k
<1> QED
  BY <1>1, <1>5, <1>6 DEF k

LEMMA MainInvokesTypes == ASSUME Types, MainInvokes PROVE Types'
<1>1. PICK c \in Snap, k \in {"rgb", "depth"} :
        /\ ToState(c, IF k = "rgb" THEN "has rgb" ELSE "has depth")
        /\ image' = frame' /\ frame' \in Image
  BY MainInvokesEffect
<1>2. c \in Conn /\ c \notin Poll
  BY QtAssumption DEF Conn
<1>3. ThreadTypes'
  BY <1>1, <1>2, ToStateTypes DEF MainInvokes, Types, SnapState
<1>4. GuiTypes'
  BY HeadIsEvent DEF MainInvokes, Types, GuiTypes
<1> QED
  BY <1>1, <1>3, <1>4 DEF MainInvokes, Types, ImageTypes, ModelTypes, modelVars

LEMMA MainShowsTypes == ASSUME Types, MainShows PROVE Types'
<1>1. GuiTypes'
  BY HeadIsEvent DEF MainShows, Types, GuiTypes
<1> QED
  BY <1>1 DEF MainShows, Types, ThreadTypes, ImageTypes, ModelTypes, modelVars, imageVars

LEMMA UserMovesTypes == ASSUME Types, UserMoves PROVE Types'
BY DEF UserMoves, Types, GuiTypes, ThreadTypes, ImageTypes, ModelTypes, modelVars, imageVars

LEMMA MainWritesTypes == ASSUME Types, MainWrites PROVE Types'
<1>1. main \in Value
  BY DEF MainWrites, Types, GuiTypes
<1>2. ModelTypes'
  BY <1>1, UpdateTypes DEF MainWrites, Types
<1>3. ThreadTypes'
  BY AwakenedTypes DEF MainWrites, Types, ThreadTypes, SnapState
<1> QED
  BY <1>2, <1>3 DEF MainWrites, Types, GuiTypes, ImageTypes, imageVars

LEMMA TypesNext == ASSUME Types, [Next]_vars PROVE Types'
<1>1. CASE UNCHANGED vars
  BY <1>1 DEF vars, Types, ThreadTypes, GuiTypes, ImageTypes, ModelTypes, modelVars,
     imageVars, guiVars
<1> QED
  BY <1>1, JobChangesTypes, UserMovesTypes, StartThreadTypes, MainInvokesTypes,
     MainShowsTypes, MainWritesTypes, ConnectTypes, BrowserLeavesTypes, PollRunsTypes,
     ServerUpdatesTypes, ServerReleasesTypes, GrabTypes, GrabDoneTypes
     DEF Next, MainRuns, SnapRuns

-----------------------------------------------------------------------------
(* Who moves.                                                              *)

SnapsStay == \A d \in Snap : pc'[d] = pc[d]
SnapMoves(c, s) == \A d \in Snap : pc'[d] = IF d = c THEN s ELSE pc[d]
NobodyJumpsTheQueue == \A d \in Conn : pc[d] = "queued" => pc'[d] = "queued"

\* Listeners, polls, and what the main thread does with the widget.
LEMMA QuietSteps ==
    ASSUME Types,
           \/ JobChanges \/ UserMoves \/ MainShows \/ MainWrites
           \/ \E p \in Poll : PollRuns(p)
           \/ UNCHANGED vars
    PROVE  SnapsStay /\ NobodyJumpsTheQueue
<1>1. \A c \in Snap : Awakened[c] = pc[c]
  BY AwakenedTypes DEF Types
<1>2. \A c \in Conn : pc[c] = "queued" => Awakened[c] = "queued"
  BY DEF Awakened, Conn
<1>3. CASE \E p \in Poll : PollRuns(p)
  <2> PICK p \in Poll : PollRuns(p)
    BY <1>3
  <2>1. PICK st : pc[p] # "queued" /\ pc' = [pc EXCEPT ![p] = st]
    BY DEF PollRuns, PollChecks, PollSleeps, PollTimesOut, PollAnswers, ToState
  <2> QED
    BY <2>1, QtAssumption DEF SnapsStay, NobodyJumpsTheQueue, Types, ThreadTypes, Conn
<1>4. CASE pc' = Awakened \/ UNCHANGED pc
  BY <1>1, <1>2, <1>4 DEF SnapsStay, NobodyJumpsTheQueue
<1> QED
  BY <1>3, <1>4 DEF JobChanges, UserMoves, MainShows, MainWrites, vars

\* All others move one connection.
LEMMA MovingSteps ==
    ASSUME Types, NEW c \in Conn, NEW s, ToState(c, s)
    PROVE  /\ SnapMoves(c, s)
           /\ pc[c] # "queued" => NobodyJumpsTheQueue
BY DEF SnapMoves, NobodyJumpsTheQueue, ToState, Types, ThreadTypes, Conn

LEMMA ReleaseMoves ==
    ASSUME Types, NEW c \in Snap, ServerReleases(c)
    PROVE  SnapMoves(c, "rgb") /\ NobodyJumpsTheQueue
<1> DEFINE woken == IF holds = 1 /\ buffer # <<>> THEN Awakened ELSE pc
<1>1. /\ \A d \in Snap : woken[d] = pc[d]
      /\ \A d \in Conn : pc[d] = "queued" => woken[d] = "queued"
      /\ woken \in [Conn -> PollState \cup SnapState]
  BY AwakenedTypes DEF Types, ThreadTypes, Awakened, Conn
<1>2. pc' = [woken EXCEPT ![c] = "rgb"] /\ pc[c] = "releases" /\ c \in Conn
  BY DEF ServerReleases, Conn
<1> HIDE DEF woken
<1> QED
  BY <1>1, <1>2 DEF SnapMoves, NobodyJumpsTheQueue, Conn

-----------------------------------------------------------------------------
(* The pictures.                                                           *)

Early == {"off", "queued", "updates", "releases", "rgb", "grabs rgb"}
Grabbing == {"grabs rgb", "grabs depth", "has rgb", "has depth"}
Grabs(k) == IF k = "rgb" THEN "grabs rgb" ELSE "grabs depth"
IsCall(e) == e.what \in {"rgb", "depth"}

\* A connection waits at one place of the backlog.
Waiting ==
    /\ \A i \in 1 .. Len(backlog) : pc[backlog[i]] = "queued"
    /\ \A i, j \in 1 .. Len(backlog) : backlog[i] = backlog[j] => i = j

\* What the main thread is asked to grab is for the one that has the grabber.
Calls ==
    /\ \A i \in 1 .. Len(events) :
          IsCall(events[i]) => pc[events[i].conn] = Grabs(events[i].what)
    /\ \A i, j \in 1 .. Len(events) : IsCall(events[i]) /\ IsCall(events[j]) => i = j

Owner == \A c \in Snap : pc[c] \in Grabbing => grabber = c

Good(c, im) == im.view = Want[c] /\ im.rev >= edited[c]

\* From the grab to the answer the picture is the right one.
Pictures == \A c \in Snap :
    /\ edited[c] <= rev
    /\ pc[c] \in Early => reply[c].rgb = NotAsked
    /\ pc[c] = "has rgb" => Good(c, image)
    /\ reply[c].rgb # NotAsked => Good(c, reply[c].rgb)

PictureInv == Waiting /\ Calls /\ Owner /\ Pictures

\* Events are added that are no calls, and those that wait for theirs stay.
LEMMA CallsStay ==
    ASSUME Types, Calls, Len(events) <= Len(events'),
           \A i \in 1 .. Len(events) : events'[i] = events[i],
           \A i \in 1 .. Len(events') : i > Len(events) => events'[i].what = "show",
           \A d \in Snap : pc[d] \in Grabbing => pc'[d] = pc[d]
    PROVE  Calls'
<1>1. \A i \in 1 .. Len(events') : IsCall(events'[i]) =>
         i \in 1 .. Len(events) /\ events'[i] = events[i] /\ IsCall(events[i])
  BY DEF IsCall, Types, GuiTypes
<1>2. \A i \in 1 .. Len(events) : IsCall(events[i]) => events[i].conn \in Snap
  BY DEF IsCall, Types, GuiTypes, Event
<1>3. \A i \in 1 .. Len(events') : IsCall(events'[i]) =>
         pc'[events'[i].conn] = Grabs(events'[i].what)
  <2> TAKE i \in 1 .. Len(events')
  <2> HAVE IsCall(events'[i])
  <2>1. /\ i \in 1 .. Len(events) /\ events'[i] = events[i] /\ IsCall(events[i])
        /\ events[i].conn \in Snap
    BY <1>1, <1>2
  <2>2. pc[events[i].conn] = Grabs(events[i].what)
    BY <2>1 DEF Calls
  <2>3. Grabs(events[i].what) \in Grabbing
    BY DEF Grabs, Grabbing
  <2> QED
    BY <2>1, <2>2, <2>3
<1> QED
  BY <1>1, <1>3 DEF Calls

\* Pictures are as good as they were for a thread that is not grabbing.
LEMMA PictureStays ==
    ASSUME NEW d \in Snap, PictureInv, Types, Types',
           \/ pc'[d] = pc[d]
           \/ /\ pc[d] \notin Grabbing /\ pc'[d] \notin Grabbing
              /\ pc'[d] \in Early => pc[d] \in Early,
           edited'[d] = edited[d] \/ (edited'[d] = rev' /\ pc[d] = "updates"),
           UNCHANGED <<reply, image>>, rev' >= rev
    PROVE  /\ edited'[d] <= rev'
           /\ pc'[d] \in Early => reply'[d].rgb = NotAsked
           /\ pc'[d] = "has rgb" => Good(d, image)'
           /\ reply'[d].rgb # NotAsked => Good(d, reply[d].rgb)'
<1>1. rev \in Nat /\ rev' \in Nat /\ edited[d] \in Nat
  BY DEF Types, ModelTypes, Conn
<1>2. /\ edited[d] <= rev
      /\ pc[d] \in Early => reply[d].rgb = NotAsked
      /\ pc[d] = "has rgb" => Good(d, image)
      /\ reply[d].rgb # NotAsked => Good(d, reply[d].rgb)
  BY DEF PictureInv, Pictures
<1>3. pc[d] = "updates" => reply[d].rgb = NotAsked /\ pc'[d] # "has rgb"
  BY <1>2 DEF Early, Grabbing
<1>4. /\ pc'[d] = "has rgb" => pc[d] = "has rgb"
      /\ pc'[d] \in Early => pc[d] \in Early
  BY DEF Grabbing
<1>5. edited'[d] <= rev'
  <2>1. edited'[d] \in Nat
    BY DEF Types, ModelTypes, Conn
  <2>0. edited[d] <= rev /\ rev' >= rev
    BY <1>2
  <2>2. CASE edited'[d] = edited[d]
    BY <1>1, <2>0, <2>2
  <2>3. CASE edited'[d] = rev'
    BY <1>1, <2>3
  <2> QED
    BY <2>2, <2>3
<1>6. CASE edited'[d] = edited[d]
  <2>1. /\ Good(d, image) => Good(d, image)'
        /\ Good(d, reply[d].rgb) => Good(d, reply[d].rgb)'
    BY <1>6 DEF Good
  <2> QED
    BY <1>2, <1>4, <1>5, <2>1
<1>7. CASE pc[d] = "updates"
  BY <1>3, <1>5, <1>7
<1> QED
  BY <1>6, <1>7

\* A step that has nothing to do with a grab.
LEMMA BystanderKeeps ==
    ASSUME Types, Types', PictureInv, Waiting', Len(events) <= Len(events'),
           \A i \in 1 .. Len(events) : events'[i] = events[i],
           \A i \in 1 .. Len(events') : i > Len(events) => events'[i].what = "show",
           \A d \in Snap : \/ pc'[d] = pc[d]
                           \/ /\ pc[d] \notin Grabbing /\ pc'[d] \notin Grabbing
                              /\ pc'[d] \in Early => pc[d] \in Early,
           \A d \in Snap : edited'[d] = edited[d] \/ (edited'[d] = rev' /\ pc[d] = "updates"),
           UNCHANGED <<reply, grabber, image>>, rev' >= rev
    PROVE  PictureInv'
<1>1. Calls'
  BY CallsStay DEF PictureInv
<1>2. Owner'
  BY DEF PictureInv, Owner
<1>3. Pictures'
  BY PictureStays DEF Pictures
<1> QED
  BY <1>1, <1>2, <1>3 DEF PictureInv

LEMMA WaitingStays ==
    ASSUME Types, Waiting, UNCHANGED backlog, NobodyJumpsTheQueue
    PROVE  Waiting'
<1>1. \A i \in 1 .. Len(backlog) : backlog[i] \in Conn
  BY DEF Types, ThreadTypes
<1> QED
  BY <1>1 DEF Waiting, NobodyJumpsTheQueue

LEMMA JobChangesPictures ==
    ASSUME Types, Types', PictureInv, JobChanges PROVE PictureInv'
<1>1. SnapsStay /\ Waiting'
  BY QuietSteps, WaitingStays DEF PictureInv, JobChanges
<1>2. PICK v \in Value :
        /\ rev' = rev + 1
        /\ events' = Append(events, Show(v)) \/ UNCHANGED events
  BY DEF JobChanges, Update
<1>3. /\ Len(events) <= Len(events')
      /\ \A i \in 1 .. Len(events) : events'[i] = events[i]
      /\ \A i \in 1 .. Len(events') : i > Len(events) => events'[i].what = "show"
  BY <1>2 DEF Types, GuiTypes, Show
<1>4. UNCHANGED <<edited, reply, grabber, image>> /\ rev' >= rev
  BY <1>2 DEF JobChanges, imageVars, Types, ModelTypes
<1> QED
  BY <1>1, <1>3, <1>4, BystanderKeeps DEF SnapsStay

\* As it is with everything that puts nothing into the queue of events.
LEMMA NoEventKeeps ==
    ASSUME Types, Types', PictureInv, Waiting', UNCHANGED <<events, reply, grabber, image>>,
           rev' >= rev,
           \A d \in Snap : \/ pc'[d] = pc[d]
                           \/ /\ pc[d] \notin Grabbing /\ pc'[d] \notin Grabbing
                              /\ pc'[d] \in Early => pc[d] \in Early,
           \A d \in Snap : edited'[d] = edited[d] \/ (edited'[d] = rev' /\ pc[d] = "updates")
    PROVE  PictureInv'
<1>1. /\ Len(events) <= Len(events')
      /\ \A i \in 1 .. Len(events) : events'[i] = events[i]
      /\ \A i \in 1 .. Len(events') : i > Len(events) => events'[i].what = "show"
  BY DEF Types, GuiTypes
<1> QED
  BY <1>1, BystanderKeeps

LEMMA QuietPictures ==
    ASSUME Types, Types', PictureInv,
           \/ UserMoves \/ MainWrites \/ UNCHANGED vars
           \/ \E p \in Poll : PollRuns(p)
    PROVE  PictureInv'
<1>1. UNCHANGED <<backlog, events, reply, grabber, image, edited>>
  BY DEF UserMoves, MainWrites, vars, PollRuns, PollChecks, PollSleeps, PollTimesOut,
     PollAnswers, imageVars, guiVars
<1>2. rev' >= rev
  BY DEF UserMoves, MainWrites, Update, vars, PollRuns, PollChecks, PollSleeps,
     PollTimesOut, PollAnswers, modelVars, Types, ModelTypes
<1>3. SnapsStay /\ Waiting'
  BY <1>1, QuietSteps, WaitingStays DEF PictureInv
<1> QED
  BY <1>1, <1>2, <1>3, NoEventKeeps DEF SnapsStay

\* Whoever is at the head of the queues.
LEMMA HeadIsQueued ==
    ASSUME Types, PictureInv, backlog # <<>>
    PROVE  Head(backlog) \in Conn /\ pc[Head(backlog)] = "queued"
<1>1. Head(backlog) \in Conn /\ Head(backlog) = backlog[1] /\ 1 \in 1 .. Len(backlog)
  BY DEF Types, ThreadTypes
<1> QED
  BY <1>1 DEF PictureInv, Waiting

LEMMA HeadIsCall ==
    ASSUME Types, PictureInv, events # <<>>,
           NEW k \in {"rgb", "depth"}, NEW c, Head(events).what = k, Head(events).conn = c
    PROVE  pc[c] = Grabs(k)
<1>1. Head(events) = events[1] /\ 1 \in 1 .. Len(events)
  BY HeadIsEvent DEF Types, GuiTypes
<1>2. events[1].what = k /\ events[1].conn = c
  BY <1>1, Zenon
<1> QED
  BY <1>1, <1>2 DEF PictureInv, Calls, IsCall

LEMMA ConnectPictures ==
    ASSUME Types, Types', PictureInv, NEW c \in Conn, Connect(c) PROVE PictureInv'
<1>1. /\ pc[c] = "off" /\ backlog' = Append(backlog, c) /\ ToState(c, "queued")
      /\ UNCHANGED <<events, reply, grabber, image, edited, rev>>
  BY DEF Connect, ToState, modelVars, imageVars, guiVars
<1>2. SnapMoves(c, "queued") /\ NobodyJumpsTheQueue /\ pc'[c] = "queued"
  BY <1>1, MovingSteps DEF ToState, Types, ThreadTypes
<1>3. backlog \in Seq(Conn) /\ \A i \in 1 .. Len(backlog) : backlog[i] \in Conn
  BY DEF Types, ThreadTypes
<1>4. /\ Len(backlog') = Len(backlog) + 1 /\ backlog'[Len(backlog) + 1] = c
      /\ \A i \in 1 .. Len(backlog) : backlog'[i] = backlog[i] /\ backlog[i] # c
  BY <1>1, <1>3 DEF PictureInv, Waiting
<1>5. Waiting'
  BY <1>2, <1>3, <1>4 DEF PictureInv, Waiting, NobodyJumpsTheQueue
<1>6. rev' >= rev
  BY <1>1 DEF Types, ModelTypes
<1> QED
  BY <1>1, <1>2, <1>5, <1>6, NoEventKeeps DEF SnapMoves, Early, Grabbing

\* Whoever gets a thread has waited for it.
LEMMA StartThreadPictures ==
    ASSUME Types, Types', PictureInv, StartThread PROVE PictureInv'
<1> DEFINE c == Head(backlog)
<1>1. /\ backlog \in Seq(Conn) /\ backlog # <<>> /\ backlog' = Tail(backlog)
      /\ ToState(c, FirstStep(c))
      /\ UNCHANGED <<events, reply, grabber, image, edited, rev>>
  BY DEF StartThread, ToState, modelVars, imageVars, guiVars, Types, ThreadTypes
<1>2. /\ c = backlog[1] /\ c \in Conn /\ Len(backlog) >= 1
      /\ Len(backlog') = Len(backlog) - 1
      /\ \A i \in 1 .. Len(backlog') : backlog'[i] = backlog[i + 1]
  BY <1>1
<1>3. pc[c] = "queued"
  BY <1>2 DEF PictureInv, Waiting
<1>4. \A d \in Conn : d # c => pc'[d] = pc[d]
  BY <1>1 DEF ToState, Types, ThreadTypes
<1>5. \A i \in 1 .. Len(backlog) : backlog[i] \in Conn
  BY <1>1
<1> HIDE DEF c
<1>6. \A i \in 1 .. Len(backlog') : i + 1 \in 1 .. Len(backlog) /\ backlog'[i] # c
  BY <1>1, <1>2 DEF PictureInv, Waiting
<1>7. Waiting'
  <2>1. \A i \in 1 .. Len(backlog') : pc'[backlog'[i]] = "queued"
    BY <1>2, <1>4, <1>5, <1>6 DEF PictureInv, Waiting
  <2>2. ASSUME NEW i \in 1 .. Len(backlog'), NEW j \in 1 .. Len(backlog'),
               backlog'[i] = backlog'[j]
        PROVE  i = j
    <3>1. i + 1 = j + 1
      BY <1>2, <1>6, <2>2 DEF PictureInv, Waiting
    <3> QED
      BY <3>1
  <2> QED
    BY <2>1, <2>2 DEF Waiting
<1>8. rev' >= rev
  BY <1>1 DEF Types, ModelTypes
<1>9. SnapMoves(c, FirstStep(c)) /\ (c \in Snap => FirstStep(c) = "updates")
  BY <1>1, <1>2, MovingSteps, QtAssumption DEF FirstStep
<1> QED
  BY <1>1, <1>3, <1>7, <1>8, <1>9, NoEventKeeps DEF SnapMoves, Early, Grabbing

LEMMA BrowserLeavesPictures ==
    ASSUME Types, Types', PictureInv, NEW c \in Conn, BrowserLeaves(c) PROVE PictureInv'
<1>1. /\ pc[c] \in {"checks", "updates"} /\ ToState(c, "spins")
      /\ UNCHANGED <<backlog, events, reply, grabber, image, edited, rev>>
  BY DEF BrowserLeaves, ToState, modelVars, imageVars, guiVars
<1>2. SnapMoves(c, "spins") /\ Waiting'
  BY <1>1, MovingSteps, WaitingStays DEF PictureInv
<1>3. rev' >= rev
  BY <1>1 DEF Types, ModelTypes
<1> QED
  BY <1>1, <1>2, <1>3, NoEventKeeps DEF SnapMoves, Early, Grabbing

LEMMA ServerUpdatesPictures ==
    ASSUME Types, Types', PictureInv, NEW c \in Snap, ServerUpdates(c) PROVE PictureInv'
<1>1. /\ pc[c] = "updates" /\ ToState(c, "releases")
      /\ UNCHANGED <<backlog, events, reply, grabber, image>>
      /\ edited' = [edited EXCEPT ![c] = rev'] /\ rev' >= rev /\ c \in Conn
  BY DEF ServerUpdates, imageVars, guiVars, Types, ModelTypes, Conn
<1>2. SnapMoves(c, "releases") /\ Waiting'
  BY <1>1, MovingSteps, WaitingStays DEF PictureInv
<1>3. \A d \in Snap : edited'[d] = edited[d] \/ (edited'[d] = rev' /\ pc[d] = "updates")
  BY <1>1 DEF Types, ModelTypes, Conn
<1> QED
  BY <1>1, <1>2, <1>3, NoEventKeeps DEF SnapMoves, Early, Grabbing

LEMMA ServerReleasesPictures ==
    ASSUME Types, Types', PictureInv, NEW c \in Snap, ServerReleases(c) PROVE PictureInv'
<1>1. /\ pc[c] = "releases"
      /\ UNCHANGED <<backlog, rev, edited, reply, grabber, image>>
      /\ events' = events \o Shows(buffer) \/ UNCHANGED events
  BY DEF ServerReleases, imageVars
<1>2. SnapMoves(c, "rgb") /\ Waiting'
  BY <1>1, ReleaseMoves, WaitingStays DEF PictureInv
<1>3. events \in Seq(Event) /\ Shows(buffer) \in Seq(Event) /\ buffer \in Seq(Value)
      /\ Len(Shows(buffer)) = Len(buffer)
  BY ShowsTypes DEF Types, GuiTypes, ModelTypes
<1>4. \A i \in 1 .. Len(Shows(buffer)) : Shows(buffer)[i].what = "show"
  BY <1>3 DEF Shows, Show
<1>5. /\ Len(events) <= Len(events')
      /\ \A i \in 1 .. Len(events) : events'[i] = events[i]
      /\ \A i \in 1 .. Len(events') : i > Len(events) => events'[i].what = "show"
  <2> DEFINE more == Shows(buffer)
  <2>1. CASE UNCHANGED events
    BY <1>3, <2>1
  <2>2. CASE events' = events \o more
    <3>1. more \in Seq(Event) /\ \A i \in 1 .. Len(more) : more[i].what = "show"
      BY <1>3, <1>4
    <3> HIDE DEF more
    <3>2. /\ Len(events') = Len(events) + Len(more)
          /\ \A i \in 1 .. Len(events) : events'[i] = events[i]
          /\ \A i \in 1 .. Len(events') :
                i > Len(events) => events'[i] = more[i - Len(events)]
      BY <1>3, <2>2, <3>1
    <3>3. Len(events) \in Nat /\ Len(more) \in Nat
      BY <1>3, <3>1
    <3> QED
      BY <3>1, <3>2, <3>3
  <2> QED
    BY <1>1, <2>1, <2>2
<1>6. rev' >= rev
  BY <1>1 DEF Types, ModelTypes
<1> QED
  BY <1>1, <1>2, <1>5, <1>6, BystanderKeeps DEF SnapMoves, Early, Grabbing

\* Nobody else has asked for a grab when the grabber is free.
LEMMA GrabPictures ==
    ASSUME Types, Types', PictureInv, NEW c \in Snap, Grab(c) PROVE PictureInv'
<1>1. /\ pc[c] \in {"rgb", "depth"} /\ grabber = None /\ grabber' = c
      /\ events' = Append(events, Invoke(c, pc[c]))
      /\ ToState(c, Grabs(pc[c])) /\ c \in Conn
      /\ UNCHANGED <<backlog, rev, edited, reply, image>>
  BY DEF Grab, Grabs, modelVars, Conn
<1>2. SnapMoves(c, Grabs(pc[c])) /\ Waiting'
  BY <1>1, MovingSteps, WaitingStays DEF PictureInv
<1>3. \A d \in Snap : pc[d] \notin Grabbing
  BY <1>1, QtAssumption DEF PictureInv, Owner
<1>4. events \in Seq(Event) /\ \A i \in 1 .. Len(events) : ~IsCall(events[i])
  <2>1. \A i \in 1 .. Len(events) : IsCall(events[i]) => events[i].conn \in Snap
    BY DEF IsCall, Types, GuiTypes, Event
  <2> QED
    BY <1>3, <2>1 DEF PictureInv, Calls, Grabs, Grabbing, Types, GuiTypes
<1>5. /\ Len(events') = Len(events) + 1
      /\ \A i \in 1 .. Len(events) : events'[i] = events[i]
      /\ events'[Len(events) + 1] = Invoke(c, pc[c])
  BY <1>1, <1>4
<1>6. \A i \in 1 .. Len(events') : IsCall(events'[i]) =>
         i = Len(events) + 1 /\ events'[i] = Invoke(c, pc[c])
  BY <1>4, <1>5
<1>7. Calls'
  BY <1>2, <1>6 DEF Calls, Invoke, SnapMoves
<1>8. Owner'
  BY <1>1, <1>2, <1>3 DEF Owner, SnapMoves
<1>9. Pictures'
  BY <1>1, <1>2, <1>3 DEF PictureInv, Pictures, Good, SnapMoves, Early, Grabs, Grabbing
<1> QED
  BY <1>2, <1>7, <1>8, <1>9 DEF PictureInv

\* The image is read before somebody else may grab.
LEMMA GrabDonePictures ==
    ASSUME Types, Types', PictureInv, NEW c \in Snap, GrabDone(c) PROVE PictureInv'
<1>1. /\ pc[c] \in {"has rgb", "has depth"} /\ c \in Conn
      /\ UNCHANGED <<backlog, rev, edited, image, events>>
  BY DEF GrabDone, modelVars, guiVars, Conn
<1>2. PICK k \in {"rgb", "depth"}, s \in {"depth", "done"} :
        /\ Fetched(c, k) /\ ToState(c, s)
        /\ k = "rgb" => pc[c] = "has rgb"
  BY DEF GrabDone
<1>3. SnapMoves(c, s) /\ Waiting'
  BY <1>1, <1>2, MovingSteps, WaitingStays DEF PictureInv
<1>4. \A d \in Snap : pc[d] \in Grabbing => d = c
  BY <1>1 DEF PictureInv, Owner, Grabbing
<1>5. Calls'
  <2>1. \A i \in 1 .. Len(events) : IsCall(events[i]) => events[i].conn \in Snap
    BY DEF IsCall, Types, GuiTypes, Event
  <2>2. \A i \in 1 .. Len(events) : ~IsCall(events[i])
    BY <1>1, <1>4, <2>1 DEF PictureInv, Calls, Grabs, Grabbing
  <2> QED
    BY <1>1, <2>2 DEF Calls
<1>6. Owner'
  BY <1>2, <1>3, <1>4 DEF Owner, SnapMoves, Grabbing
<1>7. Pictures'
  <2>1. \A d \in Snap \ {c} : reply'[d] = reply[d]
    BY <1>2 DEF Fetched, Types, ImageTypes, Conn
  <2>2. reply'[c].rgb = IF k = "rgb" THEN image ELSE reply[c].rgb
    <3>1. reply[c] \in [rgb : Fetch, depth : Fetch]
      BY <1>1 DEF Types, ImageTypes
    <3>2. reply'[c] = [reply[c] EXCEPT ![k] = image]
      BY <1>1, <1>2 DEF Fetched, Types, ImageTypes
    <3> QED
      BY <3>1, <3>2
  <2>3. pc'[c] \notin Early /\ pc'[c] # "has rgb"
    BY <1>3 DEF SnapMoves, Early
  <2>4. k = "rgb" => Good(c, image)
    BY <1>2 DEF PictureInv, Pictures
  <2>5. \A d \in Snap \ {c} : pc'[d] = pc[d]
    BY <1>3 DEF SnapMoves
  <2>6. /\ \A d \in Snap : edited'[d] <= rev'
        /\ \A d \in Snap : Good(d, image)' <=> Good(d, image)
    BY <1>1 DEF PictureInv, Pictures, Good
  <2>7. \A d \in Snap : Good(d, reply[d].rgb)' <=> reply'[d].rgb.view = Want[d]
                                                   /\ reply'[d].rgb.rev >= edited[d]
    BY <1>1 DEF Good
  <2>8. reply'[c].rgb # NotAsked => Good(c, reply[c].rgb)'
    BY <1>1, <2>2, <2>4, <2>7 DEF PictureInv, Pictures, Good
  <2>9. \A d \in Snap \ {c} : reply'[d].rgb # NotAsked => Good(d, reply[d].rgb)'
    BY <2>1, <2>7 DEF PictureInv, Pictures, Good
  <2> QED
    BY <2>1, <2>3, <2>5, <2>6, <2>8, <2>9 DEF PictureInv, Pictures
<1> QED
  BY <1>3, <1>5, <1>6, <1>7 DEF PictureInv

\* The event at the head is handled.
LEMMA CallsTail ==
    ASSUME Types, Calls, events # <<>>, events' = Tail(events),
           \A i \in 2 .. Len(events) :
              IsCall(events[i]) => pc'[events[i].conn] = pc[events[i].conn]
    PROVE  Calls'
<1>1. /\ Len(events) \in Nat /\ Len(events') = Len(events) - 1
      /\ \A i \in 1 .. Len(events') : events'[i] = events[i + 1]
  BY HeadIsEvent DEF Types, GuiTypes
<1>2. \A i \in 1 .. Len(events') : i + 1 \in 2 .. Len(events) /\ i + 1 \in 1 .. Len(events)
  BY <1>1
<1> QED
  BY <1>1, <1>2 DEF Calls

LEMMA MainShowsPictures ==
    ASSUME Types, Types', PictureInv, MainShows PROVE PictureInv'
<1>1. /\ events # <<>> /\ events' = Tail(events)
      /\ UNCHANGED <<backlog, pc, rev, edited, reply, grabber, image>>
  BY DEF MainShows, modelVars, imageVars
<1>2. Calls'
  BY <1>1, CallsTail DEF PictureInv
<1> QED
  BY <1>1, <1>2 DEF PictureInv, Waiting, Owner, Pictures, Good

LEMMA MainInvokesPictures ==
    ASSUME Types, Types', PictureInv, MainInvokes PROVE PictureInv'
<1>1. PICK c \in Snap, k \in {"rgb", "depth"} :
        /\ Head(events).what = k /\ Head(events).conn = c
        /\ ToState(c, IF k = "rgb" THEN "has rgb" ELSE "has depth")
        /\ image' = frame' /\ frame' \in Image
        /\ k = "rgb" => image'.view = Want[c] /\ image'.rev = rev
  BY MainInvokesEffect
<1>2. /\ events # <<>> /\ events' = Tail(events) /\ c \in Conn
      /\ UNCHANGED <<backlog, rev, edited, reply, grabber>>
  BY DEF MainInvokes, modelVars, Conn
<1>3. Len(events) >= 1 /\ Len(events) \in Nat /\ Head(events) = events[1] /\ IsCall(events[1])
  <2>1. Len(events) \in Nat
    BY DEF Types, GuiTypes
  <2>2. Len(events) >= 1 /\ Head(events) = events[1]
    BY <1>2, HeadIsEvent
  <2> QED
    BY <1>1, <2>1, <2>2 DEF IsCall
<1>4. pc[c] = Grabs(k)
  <2>1. 1 \in 1 .. Len(events)
    BY <1>3
  <2>2. events[1].what = k /\ events[1].conn = c
    BY <1>1, <1>3, Zenon
  <2> QED
    BY <1>3, <2>1, <2>2 DEF PictureInv, Calls
<1>5. \A i \in 2 .. Len(events) : ~IsCall(events[i])
  BY <1>3 DEF PictureInv, Calls
<1>6. Calls'
  BY <1>2, <1>5, CallsTail DEF PictureInv
<1>7. SnapMoves(c, IF k = "rgb" THEN "has rgb" ELSE "has depth") /\ NobodyJumpsTheQueue
  BY <1>1, <1>2, <1>4, MovingSteps DEF Grabs
<1>8. Waiting'
  BY <1>2, <1>7, WaitingStays DEF PictureInv
<1>9. \A d \in Snap : pc[d] \in Grabbing => d = c
  BY <1>4 DEF PictureInv, Owner, Grabs, Grabbing
<1>10. Owner'
  BY <1>2, <1>4, <1>7 DEF PictureInv, Owner, SnapMoves, Grabs, Grabbing
<1>11. Pictures'
  <2>1. \A d \in Snap \ {c} : pc'[d] = pc[d] /\ pc[d] # "has rgb"
    BY <1>7, <1>9 DEF SnapMoves, Grabbing
  <2>2. pc'[c] \notin Early /\ (pc'[c] = "has rgb" => k = "rgb")
    BY <1>7 DEF SnapMoves, Early
  <2>3. k = "rgb" => Good(c, image)'
    <3>1. rev \in Nat /\ edited[c] \in Nat /\ edited[c] <= rev
      BY <1>2 DEF Types, ModelTypes, PictureInv, Pictures
    <3> QED
      BY <1>1, <1>2, <3>1 DEF Good
  <2> QED
    BY <1>2, <2>1, <2>2, <2>3 DEF PictureInv, Pictures, Good
<1> QED
  BY <1>6, <1>8, <1>10, <1>11 DEF PictureInv

LEMMA PictureInvNext == ASSUME Types, Types', PictureInv, [Next]_vars PROVE PictureInv'
BY JobChangesPictures, QuietPictures, ConnectPictures, StartThreadPictures,
   BrowserLeavesPictures, ServerUpdatesPictures, ServerReleasesPictures, GrabPictures,
   GrabDonePictures, MainShowsPictures, MainInvokesPictures
   DEF Next, MainRuns, SnapRuns

-----------------------------------------------------------------------------
(* The events that are held back.                                          *)

Releasing == {c \in Snap : pc[c] = "releases"}

\* The counter counts the locks, and events are held back by a lock only.
Counted == IsFiniteSet(Releasing) /\ holds = Cardinality(Releasing)
Held == holds = 0 => buffer = <<>>

HoldInv == Counted /\ Held

LEMMA CountedKeeps ==
    ASSUME Counted, UNCHANGED holds,
           \A d \in Snap : pc'[d] = "releases" <=> pc[d] = "releases"
    PROVE  Counted'
<1>1. Releasing' = Releasing
  BY DEF Releasing
<1> QED
  BY <1>1 DEF Counted

LEMMA MoveKeepsHolds ==
    ASSUME Types, HoldInv, NEW c \in Conn, NEW s, ToState(c, s),
           pc[c] # "releases", s # "releases", UNCHANGED modelVars
    PROVE  HoldInv'
<1>1. SnapMoves(c, s)
  BY MovingSteps
<1>2. Counted'
  BY <1>1, CountedKeeps DEF SnapMoves, modelVars, HoldInv
<1> QED
  BY <1>2 DEF HoldInv, Held, modelVars

LEMMA ServerUpdatesHolds ==
    ASSUME Types, HoldInv, NEW c \in Snap, ServerUpdates(c) PROVE HoldInv'
<1>1. /\ pc[c] = "updates" /\ ToState(c, "releases") /\ holds' = holds + 1
      /\ c \in Conn
  BY DEF ServerUpdates, Conn
<1>2. SnapMoves(c, "releases")
  BY <1>1, MovingSteps
<1>3. Releasing' = Releasing \cup {c} /\ c \notin Releasing
  BY <1>1, <1>2 DEF Releasing, SnapMoves
<1>4. Counted'
  BY <1>1, <1>3, FS_AddElement DEF HoldInv, Counted
<1>5. holds \in Nat
  BY FS_CardinalityType DEF HoldInv, Counted
<1> QED
  BY <1>1, <1>4, <1>5 DEF HoldInv, Held

\* The last lock to go sends what was held back.
LEMMA ServerReleasesHolds ==
    ASSUME Types, HoldInv, NEW c \in Snap, ServerReleases(c) PROVE HoldInv'
<1>1. /\ pc[c] = "releases" /\ holds' = holds - 1
      /\ holds = 1 => buffer' = <<>> \/ buffer = <<>>
      /\ buffer' \in {buffer, <<>>}
  BY DEF ServerReleases
<1>2. Releasing' = Releasing \ {c} /\ c \in Releasing
  BY <1>1, ReleaseMoves DEF Releasing, SnapMoves
<1>3. Counted'
  BY <1>1, <1>2, FS_RemoveElement DEF HoldInv, Counted
<1>4. holds \in Nat
  BY FS_CardinalityType DEF HoldInv, Counted
<1> QED
  BY <1>1, <1>3, <1>4 DEF HoldInv, Held

LEMMA HoldInvNext ==
    ASSUME Types, PictureInv, HoldInv, [Next]_vars PROVE HoldInv'
<1>1. ASSUME SnapsStay, UNCHANGED holds, Held' PROVE HoldInv'
  BY <1>1, CountedKeeps DEF HoldInv, SnapsStay
<1>2. ASSUME NEW v, Update(v) PROVE UNCHANGED holds /\ Held'
  BY <1>2 DEF Update, HoldInv, Held, Types, ModelTypes
<1>3. CASE JobChanges
  BY <1>1, <1>2, <1>3, QuietSteps DEF JobChanges
<1>4. CASE MainWrites
  BY <1>1, <1>2, <1>4, QuietSteps DEF MainWrites
<1>5. CASE UserMoves \/ MainShows \/ UNCHANGED vars
  BY <1>1, <1>5, QuietSteps DEF UserMoves, MainShows, vars, modelVars, HoldInv, Held
<1>6. ASSUME NEW p \in Poll, PollRuns(p) PROVE HoldInv'
  <2>1. UNCHANGED modelVars
    BY <1>6 DEF PollRuns, PollChecks, PollSleeps, PollTimesOut, PollAnswers
  <2> QED
    BY <1>1, <1>6, <2>1, QuietSteps DEF modelVars, HoldInv, Held
<1>7. ASSUME NEW c \in Conn, Connect(c) \/ BrowserLeaves(c) PROVE HoldInv'
  <2>1. pc[c] # "releases" /\ UNCHANGED modelVars /\ (ToState(c, "queued") \/ ToState(c, "spins"))
    BY <1>7 DEF Connect, BrowserLeaves, ToState
  <2> QED
    BY <2>1, MoveKeepsHolds
<1>8. ASSUME NEW c \in Snap, Grab(c) \/ GrabDone(c) PROVE HoldInv'
  <2>1. PICK s : c \in Conn /\ pc[c] # "releases" /\ s # "releases" /\ ToState(c, s)
                 /\ UNCHANGED modelVars
    BY <1>8 DEF Grab, GrabDone, Conn
  <2> QED
    BY <2>1, MoveKeepsHolds
<1>9. CASE MainInvokes
  <2>1. PICK c \in Snap, k \in {"rgb", "depth"} :
          /\ Head(events).what = k /\ Head(events).conn = c
          /\ ToState(c, IF k = "rgb" THEN "has rgb" ELSE "has depth")
    BY <1>9, MainInvokesEffect
  <2>2. c \in Conn /\ UNCHANGED modelVars /\ events # <<>>
    BY <1>9 DEF Conn, MainInvokes
  <2>3. pc[c] = Grabs(k)
    BY <2>1, <2>2, HeadIsCall
  <2> QED
    BY <2>1, <2>2, <2>3, MoveKeepsHolds DEF Grabs
<1>10. CASE StartThread
  <2>1. /\ Head(backlog) \in Conn /\ pc[Head(backlog)] = "queued"
        /\ ToState(Head(backlog), FirstStep(Head(backlog))) /\ UNCHANGED modelVars
    BY <1>10, HeadIsQueued DEF StartThread, ToState
  <2> QED
    BY <2>1, MoveKeepsHolds DEF FirstStep
<1> QED
  BY <1>3, <1>4, <1>5, <1>6, <1>7, <1>8, <1>9, <1>10, ServerUpdatesHolds,
     ServerReleasesHolds DEF Next, MainRuns, SnapRuns

-----------------------------------------------------------------------------
(* The widget.                                                             *)

\* The last value that the widget will be told of.
LastShown(v) ==
    IF buffer # <<>> THEN buffer[Len(buffer)] = v
    ELSE \E i \in 1 .. Len(events) :
            /\ events[i] = Show(v)
            /\ \A j \in 1 .. Len(events) : j > i => events[j].what # "show"

\* What is about to be written is what the widget shows; and if it does not show
\* the value of the model, it will be told.
WidgetInv ==
    /\ main # None => main = widget
    /\ main = None /\ widget # value => LastShown(value)

LEMMA TellsLater ==
    ASSUME Types, NEW v \in Value, value # v, value' = v, buffer' = Append(buffer, v)
    PROVE  LastShown(value)'
<1>1. buffer' # <<>> /\ buffer'[Len(buffer')] = v
  BY DEF Types, ModelTypes
<1> QED
  BY <1>1 DEF LastShown

LEMMA TellsNow ==
    ASSUME Types, NEW v \in Value, value' = v, buffer' = <<>>,
           events' = Append(events, Show(v))
    PROVE  LastShown(value)'
<1>1. /\ Len(events') = Len(events) + 1 /\ Len(events) \in Nat
      /\ events'[Len(events) + 1] = Show(v)
  BY DEF Types, GuiTypes
<1> QED
  BY <1>1 DEF LastShown

LEMMA JobChangesWidget ==
    ASSUME Types, HoldInv, WidgetInv, JobChanges PROVE WidgetInv'
<1>1. PICK v \in Value :
        /\ Update(v)
        /\ IF Fires(v) THEN events' = Append(events, Show(v)) ELSE UNCHANGED events
  BY DEF JobChanges
<1>2. UNCHANGED <<widget, main>>
  BY DEF JobChanges
<1>3. CASE v = value
  <2>1. UNCHANGED <<value, buffer, events>>
    BY <1>1, <1>3 DEF Update, Fires
  <2> QED
    BY <1>2, <2>1 DEF WidgetInv, LastShown
<1>4. CASE v # value /\ holds = 0
  <2>1. value' = v /\ buffer' = <<>> /\ events' = Append(events, Show(v))
    BY <1>1, <1>4 DEF Update, Fires, HoldInv, Held
  <2> QED
    BY <1>2, <2>1, TellsNow DEF WidgetInv
<1>5. CASE v # value /\ holds # 0
  <2>1. holds > 0
    BY <1>5, FS_CardinalityType DEF HoldInv, Counted
  <2>2. value' = v /\ buffer' = Append(buffer, v)
    BY <1>1, <1>5, <2>1 DEF Update
  <2> QED
    BY <1>2, <1>5, <2>2, TellsLater DEF WidgetInv
<1> QED
  BY <1>3, <1>4, <1>5

LEMMA ServerUpdatesWidget ==
    ASSUME Types, WidgetInv, NEW c \in Snap, ServerUpdates(c) PROVE WidgetInv'
<1>1. UNCHANGED <<widget, main, events>>
  BY DEF ServerUpdates, guiVars
<1>2. CASE UNCHANGED <<value, buffer>>
  BY <1>1, <1>2 DEF WidgetInv, LastShown
<1>3. ASSUME NEW v \in Value, value' = v, buffer' = IF v = value THEN buffer ELSE Append(buffer, v)
      PROVE  WidgetInv'
  <2>1. CASE v = value
    BY <1>1, <1>3, <2>1 DEF WidgetInv, LastShown
  <2>2. CASE v # value
    BY <1>1, <1>3, <2>2, TellsLater DEF WidgetInv
  <2> QED
    BY <2>1, <2>2
<1> QED
  BY <1>2, <1>3 DEF ServerUpdates

\* What was held back is told in the same order.
LEMMA ServerReleasesWidget ==
    ASSUME Types, WidgetInv, NEW c \in Snap, ServerReleases(c) PROVE WidgetInv'
<1>1. UNCHANGED <<widget, main, value>>
  BY DEF ServerReleases
<1>2. CASE UNCHANGED <<events, buffer>>
  BY <1>1, <1>2 DEF WidgetInv, LastShown
<1>3. CASE events' = events \o Shows(buffer) /\ buffer' = <<>>
  <2> DEFINE more == Shows(buffer)
  <2>1. /\ more \in Seq(Event) /\ Len(more) = Len(buffer) /\ buffer \in Seq(Value)
        /\ \A i \in 1 .. Len(buffer) : more[i] = Show(buffer[i])
        /\ events \in Seq(Event)
    BY ShowsTypes DEF Types, ModelTypes, GuiTypes, Shows
  <2>2. events' = events \o more
    BY <1>3
  <2> HIDE DEF more
  <2>3. CASE buffer = <<>>
    <3>1. more = <<>>
      BY <2>1, <2>3
    <3>2. events' = events
      BY <2>1, <2>2, <3>1
    <3> QED
      BY <1>1, <1>3, <2>3, <3>2 DEF WidgetInv, LastShown
  <2>4. CASE buffer # <<>>
    <3> SUFFICES ASSUME main = None, widget # value PROVE LastShown(value)'
      BY <1>1 DEF WidgetInv
    <3>1. buffer[Len(buffer)] = value
      BY <2>4 DEF WidgetInv, LastShown
    <3>2. Len(buffer) \in 1 .. Len(buffer) /\ Len(buffer) \in Nat /\ Len(events) \in Nat
      BY <2>1, <2>4
    <3>3. /\ Len(events') = Len(events) + Len(buffer)
          /\ events'[Len(events) + Len(buffer)] = more[Len(buffer)]
      <4>1. /\ Len(events') = Len(events) + Len(more)
            /\ \A i \in 1 .. Len(events') :
                  i > Len(events) => events'[i] = more[i - Len(events)]
        <5>1. more \in Seq(Event) /\ events \in Seq(Event)
          BY <2>1
        <5> QED
          BY <2>2, <5>1
      <4>2. /\ Len(events) + Len(buffer) \in 1 .. Len(events) + Len(more)
            /\ (Len(events) + Len(buffer)) - Len(events) = Len(buffer)
            /\ Len(events) + Len(buffer) > Len(events)
        BY <2>1, <3>2
      <4> QED
        BY <2>1, <4>1, <4>2
    <3>4. /\ Len(events') \in 1 .. Len(events')
          /\ events'[Len(events')] = Show(value)
          /\ \A j \in 1 .. Len(events') : ~(j > Len(events'))
      BY <2>1, <3>1, <3>2, <3>3
    <3> QED
      BY <1>1, <1>3, <3>4 DEF LastShown
  <2> QED
    BY <2>3, <2>4
<1> QED
  BY <1>2, <1>3 DEF ServerReleases

\* A call in the queue tells the widget nothing.
LEMMA GrabWidget ==
    ASSUME Types, WidgetInv, NEW c \in Snap, Grab(c) PROVE WidgetInv'
<1>1. /\ UNCHANGED <<widget, main, value, buffer>>
      /\ events' = Append(events, Invoke(c, pc[c])) /\ Invoke(c, pc[c]).what # "show"
  BY DEF Grab, modelVars, Invoke
<1>2. /\ Len(events') = Len(events) + 1 /\ Len(events) \in Nat
      /\ \A i \in 1 .. Len(events) : events'[i] = events[i]
      /\ events'[Len(events) + 1] = Invoke(c, pc[c])
  BY <1>1 DEF Types, GuiTypes
<1>3. \A j \in 1 .. Len(events') : j \in 1 .. Len(events) \/ j = Len(events) + 1
  BY <1>2
<1> QED
  BY <1>1, <1>2, <1>3 DEF WidgetInv, LastShown

\* An event is taken that is not the last that the widget waits for.
LEMMA TailTells ==
    ASSUME Types, NEW v \in Value, LastShown(v), events # <<>>, events' = Tail(events),
           UNCHANGED buffer, Head(events) # Show(v)
    PROVE  LastShown(v)'
<1>1. CASE buffer # <<>>
  BY <1>1 DEF LastShown
<1>2. CASE buffer = <<>>
  <2>1. PICK i \in 1 .. Len(events) :
          /\ events[i] = Show(v)
          /\ \A j \in 1 .. Len(events) : j > i => events[j].what # "show"
    BY <1>2 DEF LastShown
  <2>2. /\ Len(events) \in Nat /\ Head(events) = events[1]
        /\ Len(events') = Len(events) - 1
        /\ \A j \in 1 .. Len(events') : events'[j] = events[j + 1]
    BY HeadIsEvent DEF Types, GuiTypes
  <2>3. i # 1
    BY <2>1, <2>2
  <2>4. i - 1 \in 1 .. Len(events') /\ events'[i - 1] = Show(v)
    BY <2>1, <2>2, <2>3
  <2>5. \A j \in 1 .. Len(events') : j > i - 1 => events'[j].what # "show"
    <3> TAKE j \in 1 .. Len(events')
    <3> HAVE j > i - 1
    <3>1. j + 1 \in 1 .. Len(events) /\ j + 1 > i
      BY <2>2
    <3> QED
      BY <2>1, <2>2, <3>1
  <2> QED
    BY <1>2, <2>4, <2>5 DEF LastShown
<1> QED
  BY <1>1, <1>2

LEMMA MainInvokesWidget ==
    ASSUME Types, WidgetInv, MainInvokes PROVE WidgetInv'
<1>1. /\ UNCHANGED <<widget, main, value, buffer>>
      /\ events # <<>> /\ events' = Tail(events) /\ Head(events).what # "show"
  BY DEF MainInvokes, modelVars
<1>2. \A v \in Value : Head(events) # Show(v)
  BY <1>1 DEF Show
<1>3. \A v \in Value : LastShown(v) => LastShown(v)'
  BY <1>1, <1>2, TailTells
<1> QED
  BY <1>1, <1>3 DEF WidgetInv, Types, ModelTypes

\* The widget shows what it is told, and tells the model if that is new to it.
LEMMA MainShowsWidget ==
    ASSUME Types, WidgetInv, MainShows PROVE WidgetInv'
<1> DEFINE v == Head(events).val
<1>1. /\ UNCHANGED <<value, buffer>> /\ main = None
      /\ events # <<>> /\ events' = Tail(events) /\ Head(events).what = "show"
      /\ widget' = v /\ main' = IF v = widget THEN None ELSE v
  BY DEF MainShows, modelVars
<1>2. v \in Value /\ value \in Value
  BY <1>1, HeadIsEvent DEF Types, ModelTypes
<1>3. CASE v # widget
  BY <1>1, <1>2, <1>3, QtAssumption DEF WidgetInv
<1>4. CASE v = widget /\ widget # value
  <2>1. LastShown(value)
    BY <1>1, <1>4 DEF WidgetInv
  <2>2. Head(events) # Show(value)
    BY <1>4 DEF Show
  <2>3. LastShown(value)'
    BY <1>1, <1>2, <2>1, <2>2, TailTells
  <2> QED
    BY <1>1, <1>4, <2>3 DEF WidgetInv
<1>5. CASE v = widget /\ widget = value
  BY <1>1, <1>5 DEF WidgetInv
<1> QED
  BY <1>3, <1>4, <1>5

LEMMA MainWritesWidget ==
    ASSUME WidgetInv, MainWrites PROVE WidgetInv'
BY DEF MainWrites, Update, WidgetInv

LEMMA WidgetInvNext ==
    ASSUME Types, HoldInv, WidgetInv, [Next]_vars PROVE WidgetInv'
<1>1. CASE UNCHANGED <<value, buffer, events, widget, main>>
  BY <1>1 DEF WidgetInv, LastShown
<1>2. CASE UserMoves
  BY <1>2, QtAssumption DEF UserMoves, WidgetInv
<1>3. ASSUME NEW c \in Conn, Connect(c) \/ BrowserLeaves(c) PROVE WidgetInv'
  BY <1>1, <1>3 DEF Connect, BrowserLeaves, modelVars, guiVars
<1>4. ASSUME NEW p \in Poll, PollRuns(p) PROVE WidgetInv'
  BY <1>1, <1>4 DEF PollRuns, PollChecks, PollSleeps, PollTimesOut, PollAnswers, modelVars,
     guiVars
<1>5. ASSUME NEW c \in Snap, GrabDone(c) PROVE WidgetInv'
  BY <1>1, <1>5 DEF GrabDone, modelVars, guiVars
<1>6. CASE StartThread
  BY <1>1, <1>6 DEF StartThread, modelVars, guiVars
<1>7. CASE UNCHANGED vars
  BY <1>1, <1>7 DEF vars, modelVars, guiVars
<1> QED
  BY <1>2, <1>3, <1>4, <1>5, <1>6, <1>7, JobChangesWidget, MainInvokesWidget,
     MainShowsWidget, MainWritesWidget, ServerUpdatesWidget, ServerReleasesWidget,
     GrabWidget DEF Next, MainRuns, SnapRuns

-----------------------------------------------------------------------------

QtInv == Types /\ PictureInv /\ HoldInv /\ WidgetInv

LEMMA QtInvFirst == ASSUME Init PROVE QtInv
<1>1. Types
  <2>1. /\ backlog = <<>> /\ pc = [c \in Conn |-> "off"] /\ rev = 0 /\ value = InitialValue
        /\ holds = 0 /\ buffer = <<>> /\ edited = [c \in Conn |-> 0]
        /\ reply = [c \in Conn |-> [rgb |-> NotAsked, depth |-> NotAsked]]
        /\ grabber = None /\ frame = NoImage /\ image = NoImage
        /\ events = <<>> /\ widget = value /\ main = None
    BY DEF Init
  <2>2. ThreadTypes
    BY <2>1 DEF ThreadTypes, PollState, SnapState, Conn
  <2>3. ModelTypes
    BY <2>1, QtAssumption DEF ModelTypes
  <2>4. ImageTypes
    BY <2>1 DEF ImageTypes, Fetch, Image, NoImage
  <2>5. GuiTypes
    BY <2>1, QtAssumption DEF GuiTypes
  <2> QED
    BY <2>2, <2>3, <2>4, <2>5 DEF Types
<1>2. PictureInv
  <2>1. \A c \in Snap : pc[c] = "off" /\ edited[c] = 0 /\ reply[c].rgb = NotAsked
    BY DEF Init, Conn
  <2>2. backlog = <<>> /\ events = <<>> /\ rev = 0
    BY DEF Init
  <2>3. Waiting /\ Calls
    BY <2>2 DEF Waiting, Calls
  <2>4. Owner
    BY <2>1 DEF Owner, Grabbing
  <2>5. Pictures
    <3>1. \A c \in Snap : edited[c] <= rev
      BY <2>1, <2>2
    <3> QED
      BY <2>1, <3>1 DEF Pictures
  <2> QED
    BY <2>3, <2>4, <2>5 DEF PictureInv
<1>3. HoldInv
  <2>1. Releasing = {}
    BY DEF Init, Releasing, Conn
  <2> QED
    BY <2>1, FS_EmptySet DEF HoldInv, Counted, Held, Init
<1>4. WidgetInv
  BY DEF Init, WidgetInv
<1> QED
  BY <1>1, <1>2, <1>3, <1>4 DEF QtInv

LEMMA QtInvHolds == Spec => []QtInv
<1>1. Init => QtInv
  BY QtInvFirst
<1>2. QtInv /\ [Next]_vars => QtInv'
  BY TypesNext, PictureInvNext, HoldInvNext, WidgetInvNext DEF QtInv
<1> QED
  BY <1>1, <1>2, PTL DEF Spec

\* However the pool's threads and the main thread overtake each other, a picture
\* is of the viewer that was asked for and not older than the update that came
\* with the request.
THEOREM PicturesAreRight == Spec => []ImageIsOfItsView
<1>1. QtInv => ImageIsOfItsView
  BY DEF QtInv, PictureInv, Pictures, Good, ImageIsOfItsView
<1> QED
  BY <1>1, QtInvHolds, PTL

\* The widget and the model agree whenever there is nothing left to tell, though
\* the widget writes back what it is told.
THEOREM WidgetsAgree == Spec => []WidgetFollowsModel
<1>1. QtInv => WidgetFollowsModel
  <2> SUFFICES ASSUME WidgetInv, main = None, events = <<>>, buffer = <<>>
               PROVE  widget = value
    BY DEF QtInv, WidgetFollowsModel
  <2>1. ~LastShown(value)
    BY DEF LastShown
  <2> QED
    BY <2>1 DEF WidgetInv
<1> QED
  BY <1>1, QtInvHolds, PTL
=============================================================================
