------------------------------- MODULE QtServer -------------------------------
(***************************************************************************)
(* The desktop controller with its web server switched on: a pool of       *)
(* threads that serve browsers, the main thread with the only OpenGL       *)
(* context and the widgets, and the application's threads.                 *)
(*                                                                         *)
(* They share the model, whose mutex is held for one step at a time and is *)
(* no variable, the grabber with its frame buffer and its pixel buffer,    *)
(* and the event queue of the main thread: what is emitted in another      *)
(* thread is queued there, what is emitted in the main thread is a call.   *)
(***************************************************************************)
EXTENDS Integers, Sequences, FiniteSets

CONSTANTS
    Poll, Snap,     \* connections: long polls and snapshots
    View, SizeOf,   \* viewers, and the sizes of their pictures
    Want,           \* the viewer that a snapshot is of
    Value, InitialValue,    \* of the element that the widget shows
    MaxThreads,     \* of the pool
    MaxChanges,     \* by the application and by browsers: a bound
    MaxMoves,       \* of the widget by the user: a bound
    MaxGone         \* connections that end in the middle of a request: a bound

None == "none"

ASSUME QtAssumption ==
    /\ Poll \cap Snap = {} /\ MaxThreads \in Nat \ {0}
    /\ Want \in [Snap -> View] /\ InitialValue \in Value
    /\ None \notin Snap \cup Value

VARIABLES
    rev, value,     \* the model
    holds, buffer,  \* holdEventCounter, and the events that are held back
    backlog,        \* the requests that wait for a thread
    pc,             \* of the threads, by connection
    edited,         \* the revision of its own update
    reply,          \* the images of its answer
    grabber,        \* who has exclusiveAccessMutex
    frame, image,   \* m_fbo and m_buffer
    events,         \* of the main thread
    widget,         \* the value it shows
    main,           \* the value that the main thread is about to write
    changes, moves

modelVars == <<rev, value, holds, buffer>>
imageVars == <<reply, grabber, frame, image>>
guiVars   == <<events, widget, main>>
bounds    == <<changes, moves>>
vars == <<modelVars, backlog, pc, edited, imageVars, guiVars, bounds>>

Conn    == Poll \cup Snap
Idle    == {"off", "queued", "done"}
Active  == {c \in Conn : pc[c] \notin Idle}
NoImage  == [view |-> None, rev |-> 0]      \* undefined content
NotAsked == [view |-> None, rev |-> -1]
Show(v)      == [what |-> "show", val |-> v]
Invoke(c, k) == [what |-> k, conn |-> c]
Shows(vs)    == [i \in 1 .. Len(vs) |-> Show(vs[i])]

-----------------------------------------------------------------------------
(* Listeners.  The widget's is a signal, the one of a long poll wakes its  *)
(* thread if that is asleep already.                                       *)

Awakened == [c \in Conn |-> IF pc[c] = "asleep" THEN "awake" ELSE pc[c]]

\* updateElement outside the pool.  No event if it changes nothing, or if a
\* lock holds the events back.
Fires(v) == v # value /\ holds = 0
Update(v) ==
    /\ value' = v /\ rev' = rev + 1
    /\ buffer' = IF v # value /\ holds > 0 THEN Append(buffer, v) ELSE buffer
    /\ UNCHANGED holds

\* An application thread.
JobChanges ==
    /\ changes < MaxChanges /\ changes' = changes + 1
    /\ \E v \in Value :
          /\ Update(v)
          /\ IF Fires(v) THEN events' = Append(events, Show(v)) /\ pc' = Awakened
             ELSE UNCHANGED <<events, pc>>
    /\ UNCHANGED <<backlog, edited, imageVars, widget, main, moves>>

-----------------------------------------------------------------------------
(* The pool.                                                               *)

\* incomingConnection
Connect(c) ==
    /\ pc[c] = "off"
    /\ backlog' = Append(backlog, c)
    /\ pc' = [pc EXCEPT ![c] = "queued"]
    /\ UNCHANGED <<modelVars, edited, imageVars, guiVars, bounds>>

\* isLongPoll and handleNonStatic: by the name that is asked for.
FirstStep(c) == IF c \in Poll THEN "checks" ELSE "updates"

\* A thread takes the oldest request.
StartThread ==
    /\ backlog # <<>> /\ Cardinality(Active) < MaxThreads
    /\ pc' = [pc EXCEPT ![Head(backlog)] = FirstStep(Head(backlog))]
    /\ backlog' = Tail(backlog)
    /\ UNCHANGED <<modelVars, edited, imageVars, guiVars, bounds>>

\* run, for a browser that goes away before it has sent the whole request: the
\* loop that waits for the rest has no other end.
BrowserLeaves(c) ==
    /\ pc[c] \in {"checks", "updates"}
    /\ Cardinality({d \in Conn : pc[d] = "spins"}) < MaxGone
    /\ pc' = [pc EXCEPT ![c] = "spins"]
    /\ UNCHANGED <<modelVars, backlog, edited, imageVars, guiVars, bounds>>

ToState(c, s) == pc' = [pc EXCEPT ![c] = s]

-----------------------------------------------------------------------------
(* LongPollHandler::handle.  Browsers have seen revision 0.                *)

PollChecks(p) ==
    /\ pc[p] = "checks"
    /\ ToState(p, IF rev > 0 THEN "done" ELSE "unasleep")
    /\ UNCHANGED <<modelVars, backlog, edited, imageVars, guiVars, bounds>>

\* What is fired before this has woken nobody.
PollSleeps(p) ==
    /\ pc[p] = "unasleep" /\ ToState(p, "asleep")
    /\ UNCHANGED <<modelVars, backlog, edited, imageVars, guiVars, bounds>>

\* wait ends after 500 s.
PollTimesOut(p) ==
    /\ pc[p] = "asleep" /\ ToState(p, "awake")
    /\ UNCHANGED <<modelVars, backlog, edited, imageVars, guiVars, bounds>>

\* An update or, if there is none, code 408.
PollAnswers(p) ==
    /\ pc[p] = "awake" /\ ToState(p, "done")
    /\ UNCHANGED <<modelVars, backlog, edited, imageVars, guiVars, bounds>>

-----------------------------------------------------------------------------
(* A snapshot, with the browser's update before it.                        *)

\* updateState, under an ExposedModelLock; a request may also come without one.
ServerUpdates(c) ==
    /\ pc[c] = "updates" /\ ToState(c, "releases")
    /\ holds' = holds + 1
    /\ \/ /\ changes < MaxChanges /\ changes' = changes + 1
          /\ \E v \in Value :
                /\ value' = v /\ rev' = rev + 1
                /\ buffer' = IF v = value THEN buffer ELSE Append(buffer, v)
       \/ UNCHANGED <<value, rev, buffer, changes>>
    /\ edited' = [edited EXCEPT ![c] = rev']
    /\ UNCHANGED <<backlog, imageVars, guiVars, moves>>

\* ~ExposedModelLock, after its mutex was unlocked.
ServerReleases(c) ==
    /\ pc[c] = "releases"
    /\ holds' = holds - 1
    /\ LET woken == IF holds = 1 /\ buffer # <<>> THEN Awakened ELSE pc
       IN  pc' = [woken EXCEPT ![c] = "rgb"]
    /\ IF holds = 1 THEN events' = events \o Shows(buffer) /\ buffer' = <<>>
                    ELSE UNCHANGED <<events, buffer>>
    /\ UNCHANGED <<value, rev, backlog, edited, imageVars, widget, main, bounds>>

\* SnapshotAsTextFetcher's constructor and invokeInMainThread.
Grab(c) ==
    /\ pc[c] \in {"rgb", "depth"} /\ grabber = None
    /\ grabber' = c
    /\ events' = Append(events, Invoke(c, pc[c]))
    /\ ToState(c, IF pc[c] = "rgb" THEN "grabs rgb" ELSE "grabs depth")
    /\ UNCHANGED <<modelVars, backlog, edited, reply, frame, image, widget, main,
                   bounds>>

\* MUTANT of GrabDone: the mutex is released before the image is read.
GrabDoneUnlocked(c) ==
    /\ pc[c] \in {"has rgb", "has depth"}
    /\ IF grabber = c
       THEN grabber' = None /\ UNCHANGED <<reply, pc>>
       ELSE /\ reply' = [reply EXCEPT ![c][IF pc[c] = "has rgb" THEN "rgb" ELSE "depth"] = image]
            /\ ToState(c, IF pc[c] = "has rgb" THEN "depth" ELSE "done")
            /\ UNCHANGED grabber
    /\ UNCHANGED <<modelVars, backlog, edited, frame, image, guiVars, bounds>>

\* The fetcher's destructor: its image is read, then the mutex is released.
Fetched(c, k) == reply' = [reply EXCEPT ![c][k] = image] /\ grabber' = None

\* Only a bundle has a depth buffer.
GrabDone(c) ==
    /\ \/ /\ pc[c] = "has rgb" /\ Fetched(c, "rgb")
          /\ ToState(c, "depth") \/ ToState(c, "done")
       \/ pc[c] = "has depth" /\ Fetched(c, "depth") /\ ToState(c, "done")
    /\ UNCHANGED <<modelVars, backlog, edited, frame, image, guiVars, bounds>>

-----------------------------------------------------------------------------
(* The main thread.  It handles one event at a time.                       *)

\* MUTANT of MainInvokes: nobody is told that the work is done.
MainInvokesSilently ==
    /\ main = None /\ events # <<>> /\ Head(events).what \in {"rgb", "depth"}
    /\ events' = Tail(events)
    /\ UNCHANGED <<modelVars, backlog, pc, edited, imageVars, widget, main, bounds>>

GrabRGB(c) == frame' = [view |-> Want[c], rev |-> rev]

\* Does not render: reads what is in the frame buffer, from which a resize has
\* taken everything.
GrabDepth(c) ==
    frame' = IF frame # NoImage /\ SizeOf[frame.view] = SizeOf[Want[c]] THEN frame
             ELSE NoImage

\* SnapshotAsTextFetcher::run
FetcherRuns(c, k) ==
    /\ IF k = "rgb" THEN GrabRGB(c) ELSE GrabDepth(c)
    /\ image' = frame'

\* handleMainThreadInvocation
MainInvokes ==
    /\ main = None /\ events # <<>>
    /\ LET e == Head(events) IN
       /\ e.what \in {"rgb", "depth"}
       /\ FetcherRuns(e.conn, e.what)
       /\ ToState(e.conn, IF e.what = "rgb" THEN "has rgb" ELSE "has depth")
    /\ events' = Tail(events)
    /\ UNCHANGED <<modelVars, backlog, edited, reply, grabber, widget, main, bounds>>

\* MUTANT of MainShows: a value from the model is not written back.
MainShowsQuietly ==
    /\ main = None /\ events # <<>> /\ Head(events).what = "show"
    /\ widget' = Head(events).val
    /\ events' = Tail(events)
    /\ UNCHANGED <<modelVars, backlog, pc, edited, imageVars, main, bounds>>

\* setValue, queued by the listener; the widget tells of a new value, and does
\* not know whose it is.
MainShows ==
    /\ main = None /\ events # <<>> /\ Head(events).what = "show"
    /\ LET v == Head(events).val
       IN  widget' = v /\ main' = (IF v = widget THEN None ELSE v)
    /\ events' = Tail(events)
    /\ UNCHANGED <<modelVars, backlog, pc, edited, imageVars, bounds>>

UserMoves ==
    /\ main = None
    /\ moves < MaxMoves /\ moves' = moves + 1
    /\ \E v \in Value \ {widget} : widget' = v /\ main' = v
    /\ UNCHANGED <<modelVars, backlog, pc, edited, imageVars, events, changes>>

\* setValueFromQt.  Its own event finds the widget as it is.
MainWrites ==
    /\ main # None
    /\ Update(main) /\ main' = None
    /\ pc' = IF Fires(main) THEN Awakened ELSE pc
    /\ UNCHANGED <<events, backlog, edited, imageVars, widget, bounds>>

-----------------------------------------------------------------------------

Init ==
    /\ rev = 0 /\ value = InitialValue /\ holds = 0 /\ buffer = <<>>
    /\ backlog = <<>> /\ pc = [c \in Conn |-> "off"]
    /\ edited = [c \in Conn |-> 0]
    /\ reply = [c \in Conn |-> [rgb |-> NotAsked, depth |-> NotAsked]]
    /\ grabber = None /\ frame = NoImage /\ image = NoImage
    /\ events = <<>> /\ widget = value /\ main = None
    /\ changes = 0 /\ moves = 0

PollRuns(p) == PollChecks(p) \/ PollSleeps(p) \/ PollTimesOut(p) \/ PollAnswers(p)
SnapRuns(c) == ServerUpdates(c) \/ ServerReleases(c) \/ Grab(c) \/ GrabDone(c)
MainRuns == MainInvokes \/ MainShows \/ MainWrites

Next ==
    \/ JobChanges \/ UserMoves \/ StartThread \/ MainRuns
    \/ \E c \in Conn : Connect(c) \/ BrowserLeaves(c)
    \/ \E p \in Poll : PollRuns(p)
    \/ \E c \in Snap : SnapRuns(c)

Spec == Init /\ [][Next]_vars

\* Threads run.
FairSpec ==
    /\ Spec /\ WF_vars(StartThread) /\ WF_vars(MainRuns)
    /\ \A p \in Poll : WF_vars(PollRuns(p))
    /\ \A c \in Snap : WF_vars(SnapRuns(c))

-----------------------------------------------------------------------------
(* Properties.                                                             *)

TypeOK ==
    /\ rev \in Nat /\ value \in Value /\ widget \in Value
    /\ holds = Cardinality({c \in Snap : pc[c] = "releases"})
    /\ buffer \in Seq(Value) /\ main \in Value \cup {None}
    /\ grabber \in Snap \cup {None}
    /\ Cardinality(Active) <= MaxThreads

\* The picture in an answer is one of the viewer that was asked for, and not older
\* than the update that came with the request.
ImageIsOfItsView ==
    \A c \in Snap : reply[c].rgb # NotAsked =>
        reply[c].rgb.view = Want[c] /\ reply[c].rgb.rev >= edited[c]

\* When the main thread has nothing left to do and no event is held back, the
\* widget shows the value of the model.
WidgetFollowsModel ==
    main = None /\ events = <<>> /\ buffer = <<>> => widget = value

\* Every request is answered, unless its browser has left: one thread is enough
\* to do all the work, however long the others sleep.
RequestsAreServed ==
    \A c \in Conn : pc[c] = "queued" ~> pc[c] \in {"done", "spins"}

\* OpenGLServerGrabber.cpp, grabDepth: "we will always have rendered for the
\* RGB-grab before doing a depth-grab".
DepthIsOfItsImage ==
    \A c \in Snap : reply[c].depth # NotAsked =>
        reply[c].depth = reply[c].rgb
=============================================================================
