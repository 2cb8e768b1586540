# Tinia: TLA+ models and proofs

Tinia lets a program on a server (a *job*) show its state, its *model*, in web
browsers.  A browser talks to an Apache module, the module to the job through a
shared memory messenger, and a *master* process starts and watches the jobs.
The same program can run with a desktop user interface instead, which has a
small web server of its own.

This directory holds TLA+ modules for the parts of that system whose
correctness depends on the order of events or on two programs reading the same
thing the same way, the TLC configurations that check them, and TLAPS proofs.
Source references are relative to the repository root; `src/ipc`, `src/trell`
and so on are directories of `src/`, `model/` and `modelxml/` headers are below
`include/tinia/`.

## The system

| component | sources | state | operations |
|---|---|---|---|
| IPC messenger | `src/ipc`, `include/tinia/ipc` | the segment: a header with two mutexes, four condition variables, `state`, `part`, `more`, predicates, flags; a buffer for one message part | server: create, mainloop, notify, mainloop_break, delete; client: init, sendrecv, release |
| IPC controller, job controller | `src/trell` | job state, master id, callbacks, `m_updateOngoing` | run, handle, heartbeats, finish, fail, shutdown; GET_POLICY_UPDATE, UPDATE_STATE, snapshots, render lists, scripts |
| GL job controller | `src/trell/IPCGLJobController.cpp` | render environments, the cached render list | snapshot, render list |
| ExposedModel | `src/model` | elements with revisions, the model's revision, listeners, held-back events, the GUI layout, `m_selfMutex` | add, update, remove, constrain, restrict; hold and release events; listen; set and check a layout |
| model XML | `src/modelxml` | | the model, its changes and its layout as documents |
| Master | `src/trell_master` | job table, applications, rendering devices, dump file | add, kill, wipe, message from a job, periodic, restart |
| mod_trell | `src/mod_trell` | Apache processes, each with a thread for a request; `/trell_lock`, the master's pid file | decode a URL, forward a request, long-poll, encode images, restart the master |
| JavaScript client | `js/` | model copy, revision, queue of updates, images, proxy models, widgets | receiver loop, sender loop, canvas, parsers, GUI builder |
| render list | `src/renderlist`, `src/renderlistgl`, `js/renderlist` | database of buffers, shaders and actions, draw order; the renderers' copies | create, set, delete, order, process; export, pull, parse |
| Qt controller | `src/qtcontroller` | widgets, event queue, embedded server with its thread pool, grabber | build the user interface, listen, write; serve polls, updates, snapshots |
| job controllers, utilities | `src/jobcontroller`, `src/utils` | | base classes, debug views |

How they meet:

- A request travels browser → mod_trell → `tinia_ipc_msg_client_sendrecv` →
  shared memory → mainloop → `IPCJobController::handle` → model, and the answer
  back.  Two locks in the segment order it: `transaction_lock` is a client's for
  the whole exchange, `operation_lock` protects header and buffer and moves
  back and forth between client and server at every part of a message.
- A browser that is up to date sends a request with a long-poll: the answer is
  "nothing new", and the client sleeps on `notification_event` until the job
  calls `ipc_msg_server_notify`.  The job does so from the listeners of its
  model, in whichever thread changed it.
- Images come with the answer to an update, or are asked for when an update from
  the job has been parsed.  With depth they become proxy models, which the
  browser draws from other directions until newer ones arrive.
- Master and jobs are each server of one messenger and client of the other's.
  mod_trell kills the master and starts another when it is asked to.
- On the desktop every listener and every slot runs in the main thread or is
  posted to it; the threads of the embedded web server call the model directly
  and ask the main thread for pictures.

What is hard: two processes that can each fail, time out or be woken for no
reason at every part of a message; a notification that must not be lost between
a client's decision to sleep and its sleep, although notifier and client share
no lock; threads of the job that change the model under locks of their own
while a request is handled; answers that overtake each other on their way to a
browser; processes that die, and a master that comes back and believes its dump;
a layout, an element or a render list that is checked in one place and built,
under other rules, in three.  `PROJECT.json` lists the hazards at the lines
where they bite, with the properties that cover them.

What makes each component correct:

- messenger: a message arrives whole, in order, and belongs to this exchange; a
  request is carried out at most once and never after its caller was told it
  failed; a failure on either side never wedges the other; a break stops the
  mainloop.
- notification: a client never sleeps past a change.
- model: events are delivered exactly once; a client that applies the updates
  it gets ends up with the model's values.
- master: the state of a job in the table is that of the process that has the
  id now; a job's id leads to its own segment; a dead job is found; what is
  dumped is what was known.
- mod_trell: what is refused has changed nothing, what is acknowledged is done
  if the job could read it;
  every request is answered; restarts leave one master.
- browser: updates are sent in order and none is dropped; the image that is
  shown is current when nothing is under way; a proxy model is of one snapshot.
- render list: a client at a revision has what the database had then.
- desktop: the widgets end at the model's values, whoever changed them; a
  picture is of the viewer that was asked for; both sides show the same.

## The modules

| module | models | uses |
|---|---|---|
| `Pthread` | mutexes and condition variables, as far as the messenger uses them | |
| `IpcCall` | what a caller of the messenger is promised | |
| `IpcMessenger` | request and reply, one server, any number of clients | `Pthread`, instance of `IpcCall` |
| `LongPoll` | notification and long-polling across messenger, job controller and model | `Pthread` |
| `ExposedModel` | the elements of a job's model and their revisions | |
| `ModelSync` | the browsers' copies of the model: polls, edits, retries | `ExposedModel` |
| `JobRegistry` | what those who use the master are promised | |
| `Master` | the master's table, the jobs' processes, their segments' names, the dump | instance of `JobRegistry` |
| `RenderList` | the database of a render list, a renderer and a browser that follow it | |
| `RenderEnvironments` | the job's frame buffers | |
| `ProxyModels` | the proxy models of a canvas | |
| `ImagePath` | who asks for images, what comes back, what the canvas shows | `ProxyModels`, `RenderEnvironments` |
| `QtServer` | the desktop's embedded web server, its main thread and one widget | |
| `ModelElements` | types, constraints, restrictions of elements; what their XML tells a browser | |
| `GuiLayout` | layouts, their check, their XML, what both builders make of them | `ModelElements` |
| `Gui` | widgets of desktop and browser under one model | `GuiLayout` |
| `TrellUrl` | decoding of a request's path and arguments | |
| `TrellAnswers` | a job's answers, byte counts included, and what the consumers make of them | |
| `ModTrell` | Apache's threads, the jobs' locks, restarts of the master | `TrellUrl`, `TrellAnswers` |
| `MC...` | constants and symmetry sets for TLC | the module |
| `..._proofs` | theorems | the module and `TLAPS` |

`IpcCall` is the promise that `LongPoll`, `ModelSync`, `Master` and `ModTrell`
build on: in them an exchange happens once or fails, and one that failed is not
carried out later.

### Pthread

A mutex is a variable that names its owner.  A thread in a condition wait is
`asleep`; a signal makes it `signalled`, the deadline `expired`; either way it
still has to get the mutex back.  `CondSignal` is nondeterministic in which
waiter it wakes; a spurious wakeup is `asleep` to `signalled`; a deadline may pass
even after the signal.

### IpcMessenger

The header is only touched under `operation_lock`, so a stretch of code that
holds it is one action, with two exceptions: a producer, consumer or handler is
called with the lock held and takes time (the action ends at the call), and a
condition wait gives the lock up (the action ends at the wait).  `spc` and
`cpc[c]` name the place where a thread is; `sPart`/`cPart` are the loop counters
of `ipc_msg_server_send`/`recv` and `ipc_msg_client_send`/`recv`.

| code | actions |
|---|---|
| `ipc_msg_server_mainloop` | `ServerStart`, `EndIteration`, `ServerJoin` |
| `ipc_msg_server_mainloop_iteration` | `ServerPoll`, `ServerEvent`, `ServerFinish` |
| `ipc_msg_server_recv`, `_send` | `ServerConsume`, `ServerRecvNext`, `ServerProduce`, `ServerSendNext` |
| `tinia_ipc_msg_client_sendrecv` | `ClientStart`, `ClientTakeTx`, `ClientEnter`, `ClientReady`, `ClientReturns` |
| `ipc_msg_client_send`, `_recv` | `ClientProduce`, `ClientSendNext`, `ClientRecvNext`, `ClientConsume` |
| `ipc_msg_server_mainloop_break`, signal thread | `BreakCalled`, `BreakTakeTx`, `BreakTakeOp` |

A message part is a record of the request it belongs to, its number and whether
it is the last; `sGot` and `cGot` are what the consumers have been given.
`executed` counts how often the handler finished with a request.  What may go
wrong is a constant, `Faults`: callbacks that report an error, handlers that
return no callback, deadlines, spurious wakeups, a break from a handler or from
another thread (`break`) or from `periodic()` (`finish`).

### IpcCall

The promise: `ipc_msg.h` says a client "has exclusive ownership of the server"
during a request.  A call that owns the server is carried out at most once; it
succeeds only if it was carried out, and with its own answer; a call that failed
will not be carried out later.  `IpcMessenger` implements it with `outcome`
mapped to `Outcome(c)` (a successful call whose answer is not the complete reply
to this very request is "garbled", which `IpcCall` never allows) and `owner` to
`CallOwner`, the client between READY and the end of its exchange.

### LongPoll

Three kinds of threads: clients, the mainloop, the job's workers; three mutexes:
`txLock`, `opBusy` (only whether the mainloop has `operation_lock` matters
here), `modelLock`.  The exchange is reduced to a request, an answer and its
receipt, and may fail.  Values of the model are reduced to its revision, `rev`.

| code | actions |
|---|---|
| `tinia_ipc_msg_client_sendrecv` 462-602 | `ClientCalls`, `ClientAsks`, `ClientReceives`, `ClientWaits`, `ClientWakes`, `ClientGivesUp` |
| mainloop_iteration 942-1013, the deferred notification | `ServerPollDeferred`, `ServerTryTx`, `ServerBroadcast`, `ServerClearDeferred`, `ServerRelock` |
| `Job::periodic` within the mainloop | `ServerPeriodic`, `ServerPeriodicNotify` |
| `IPCJobController::onUpdateState` | `ServerUpdates` ... `ServerNotifies` |
| `ipc_msg_server_notify` | `ServerNotifies`, `ServerPeriodicNotify` (mainloop thread); `WorkerTriesTx`, `WorkerBroadcasts`, `WorkerDefers` (others) |
| `ExposedModel::updateElement`, `ExposedModelLock`, `stateElementModified` | `WorkerUpdates`, `WorkerLocksModel`, `WorkerUnlocksModel`, `WorkerReleasesEvents` |

Modelling decisions a reader should know of:

- the answer to a poll and the revision in it are read in one step.  The code
  reads them under three separate locks; that gap is the subject of `ModelSync`.
- a revision counts only changes of a value: an update with the same value bumps
  the code's revision without an event, which no client has to be told.
- changes of the schema are delivered at once, changes of values are held back
  while somebody holds the events; `WorkerUpdates` allows both.
- `m_updateOngoing` is a `volatile bool` written by the mainloop and read by
  workers without a common lock.  It is taken to be one memory cell with atomic
  reads and writes, as on the x86 machines the project builds for.
- a change that `Job::periodic` makes and broadcasts itself is broadcast
  without `transaction_lock` and may miss a client that is about to wait.
  `owed` is the newest change that was *not* made and notified that way: a
  change of `periodic()` that is held back, and everything that workers and
  updates do.  The promises are about `owed`, in runs in which `periodic()`
  changes the model as it likes.

### ExposedModel

`stateHash` and `revisionNumber`.  Each operation of the class runs under
`m_selfMutex` and is one step; the job's own, when they throw, change nothing
and are no steps.  `Ranges[k]` are the sets of values that an element may be
limited to, by its type and by its constraints or restrictions, and `legal` the
one that holds now; so a run without refusals gives `Ranges[k]` one member, all
values.
`AddElement`, `UpdateElement` and every element of a document
(`UpdateFromDocument`) take the next revision as their stamp;
`UpdateConstraints` (also for `updateRestrictions`) and `RemoveElement` take
none.  `StateUpdate(r)` is `getStateUpdate`: what was stamped `r` or later.  A
value is a model value whether the element is an integer, a matrix or composite;
annotations are schema data that no property here tells apart, and what limits
look like is in `ModelElements`.  A document's keys are handled in the order in
which it lists them, which may be any: stamps are dealt out accordingly.
`updateElementFromString` stamps an element before `setStringValue` checks the
value: an element that refuses its value (`Refused`) keeps the old one under a
new stamp, and ends the document.

### ModelSync

| code | actions |
|---|---|
| `XMLHandler::getExposedModelUpdate` | `ServerReadsSchema`, `ServerReadsState`, `ServerReadsRevision` |
| `IPCJobController::onUpdateState`, `XMLHandler::updateState`, `XMLReader::parseDocument` | `ServerUpdates` |
| the application (listeners, `Job::periodic`, threads) | `JobWrites` (external) |
| `ExposedModelReceiver`, `ExposedModelParser` | `Poll`, `PollFails`, `HandleUpdate` |
| `ExposedModelSender` | `Edit`, `Retry`, `PostDone`, `PostFails`, `PostError`; `StartUpdate` is `_update`, `Send` is `_send` |

`copy[b]` and `brev[b]` are the browser's model and revision, `keys`,
`pendingXML` and `parsing` the sender's fields of these names, `retry` counts
the timers that `_updateError` has set.  `_updateInProgress` is `post # "none"`.
`srv` says how far the mainloop is with the answer of `serving`.

- JavaScript runs one callback at a time, so a callback is a step.  The mainloop
  handles one request at a time, and an update of the model (`UPDATE_STATE`) holds
  an `ExposedModelLock` throughout, so it is one step; the three reads of an
  answer are three, and `JobWrites` comes in between if `WorkersWrite`.
- A poll with nothing to report is parked (`LongPoll`); here it is just asked
  again, and every field of the discarded answer is reset.
- A document ends at the first element that is gone or refuses its value; the
  reply is OK in each case.  `AckedIsApplied` is what an OK still says: every
  value is in the model, or one of the elements was gone, or one refused its
  value and was stamped, so that its value goes to every browser, the sender's
  too.
- A POST that fails was executed before the failure, or it never will be: that
  is what `IpcCall` promises, and the reason why a retry can do no harm later.
- A new element has no value of its own in a browser until one arrives:
  `Blank` is the parser's placeholder.  `TypeOK` says that it never gets into a
  document.
- What is left out: composite elements, whose values the parser ignores; local
  listeners that edit while an update is parsed; the time between two tries.

### Master

A process is at one place of its way: after fork (`forked`), after exec
(`start`), with a segment (`init`), about to send its first heartbeat (`hello`),
in the mainloop (`run`), in a heartbeat of `periodic()` (`beat`); then `ended`,
`shut`, `delete` on the way out, `zombie` until its parent waits for it, `gone`.
The master is in the middle of one message at most: `dump` is the writing of the
file, `die` its own call to a job it was told to kill.

| code | actions |
|---|---|
| `IPCController::run` and `Master::init`, `snarfMasterState` | `Start` |
| SIGTERM and `cleanup`; SIGKILL or a crash, also in the middle of a dump | `Stop`; `Crash` |
| `encodeMasterState` | `Dump` |
| `addJob`, with a fork that fails | `Add`, `AddFails` |
| `wipeJob`; `killJob` with and without force; the call's timeout | `Wipe`; `ForceKill`, `Kill`; `KillTimesOut` |
| `Master::periodic` | `Check` |
| `sendHeartBeat` and `setJobState` | `Tell` within the job's steps |
| the child of `addJob` | `Exec`, `TellNoExec` |
| `IPCController::run` of a job, from its segment to `shutdown()` | `Create`, `InitJob`, `Hello`, `Periodic`, `Beat`, `Finish`, `AnswerDie`, `LastBeat`, `Shutdown`, `Delete` |
| crash or SIGKILL of a job | `Die` |

- A heartbeat reaches the master or fails; one that fails while the master is
  down or busy is what the code logs and forgets.
- `spoilt` is a history: a dump was cut short, or a job was wiped before its
  process was gone.  Both lose what the properties speak of; the code guards
  against neither, so most properties hold until then.  `DumpIsCurrent` holds
  regardless.
- `wipeJob` waits for the process of its job without blocking; if the fork had
  failed the process is -1, and the wait ends any one zombie (`WaitedFor`).
- A process id is used once: what happens to one that the operating system has
  given to somebody else is not modelled.

### JobRegistry

The promise of the master: a registry in which an id is free, starting, running
or over, in that order, belongs to one process until it is free again, is over
only when that process has left its mainloop or never was, and is free again
only when it is gone.  The registry has no master.  `Master` implements it with
`life` and `serves` mapped to what the table says or, while the master is down,
what its dump says (`Known`), and `phase` to how far a process is on its way;
`trusted` is `~spoilt`, and a registry that is not trusted promises nothing.
So a restart, a crash, a dump, a lost call and a late heartbeat are stutters.

### RenderList

What an item holds is the revision it was set at; a client's objects are `made`
from items or they are not.

| code | actions |
|---|---|
| a message handler of the job: any number of `createAction`, `set...`, `deleteAction`, `drawOrderClear`, `drawOrderAdd`, then `DataBase::process` | `Application` (`Create`, `Set`, `Delete`, `DrawOrderClear`, `DrawOrderAdd`, `Process`) |
| `Renderer::pull` and the `pull` of each kind | `Pull` |
| `Canvas._getRenderList`; `onGetRenderlist` with its cached answer; `RenderListParser.parse` and the store's updates; an answer that never comes | `Ask`, `Serve`, `Parse`, `Lose` |
| `RenderListRenderer` | `Render` |

`Reached`, `Stays` and `Refreshed` are the loop of `process()`: which actions
are looked at, which stay in the order, whose revision is raised because they
use something newer.  `Finds...` and `Throws` say what a client's update needs
of the objects that are there already.  `missed` and `overtaken` are histories:
an action that was out of the order when it was due is not raised later, and a
browser takes an answer whatever revision it was computed for.

### RenderEnvironments, ProxyModels, ImagePath

`RenderEnvironments` is `getRenderEnvironment`: the list of frame buffers, least
recently used last, and the two of a multisampled snapshot.  `ProxyModels` is
`ProxyModel`, `ProxyRenderer` and the three coverage strategies; directions and
distances are left out, and where the code compares them either outcome is
possible.

`ImagePath` puts both into the loop of a canvas:

| code | actions |
|---|---|
| `trell_handler_body`: a POST's update, then its image; a GET | `ExecutePost`, `RenderPost`; `RenderGet` |
| the listener of `updateParsed` in `Canvas.js` | `UpdateParsed` |
| `_requestImageIfNotBusy` and the `load` of a GET | `RequestImageIfNotBusy`, `GetDone`, `GetFails` |
| `ExposedModelSender`, and the listener of the partial answer | `Edit`, `PostDone`, `PostFails`, `Retry` |
| listeners of `ap_useAutoProxy`, `ap_useJpgProxy`, `ap_depthWidth`, `ap_autoProxyAlgo`; `resize`; mouse handlers | `User` |
| `ProxyModel.setAll`'s `onload`, `renderMain` | `Decoding`, `Frame`, `InvalidatingFrame` |

The model is its revision, and an answer has the revision it was rendered at.
`outrun` is a history: an older image arrived later, an update was parsed
between the rendering of a POST's image and its arrival, a GET failed, or the
depth size changed while an answer was under way.  In these cases the canvas
does show something older, see the findings.

### QtServer

| code | actions |
|---|---|
| `HTTPServer::incomingConnection`, `ServerThread::run` in a `QThreadPool` | `Connect`, `StartThread`, `BrowserLeaves` |
| `LongPollHandler` | `PollChecks`, `PollSleeps`, `PollTimesOut`, `PollAnswers` |
| `updateState` | `ServerUpdates`, `ServerReleases` |
| `SnapshotAsTextFetcher`, `Invoker`, `OpenGLServerGrabber` | `Grab`, `GrabDone`; `MainInvokes` with `GrabRGB`, `GrabDepth` |
| the widget's listener and slot (`HorizontalSlider`) | `MainShows`, `MainWrites` |
| the application in a thread, the user | `JobChanges`, `UserMoves` |

`main` is the value the widget is about to write to the model: a slot that sets
the widget makes it emit `valueChanged`, whose slot writes the model.  A write
of a value the model has fires no event, which is what ends that exchange.
`grabber` is the grabber's mutex; a thread that has it waits for the main thread.

### ModelElements, GuiLayout, Gui

`ModelElements` has the operations of the model with their checks, one element
at a time: types, constraints (`range`), restrictions (`options`), what throws
and what an operation has changed before it throws; and the way of an element
through `XMLBuilder` into the browser's copy.  `GuiLayout` has the layouts:
`ValidateGUI` is `validateGUI.cpp`, `DefaultGUILayout` is
`makeDefaultGUILayout`, `BuildGUILayout` is the XML and `MakeGUIElement` what the
browser's parser makes of it, `DeskParts`/`DeskBuilds` and `WebParts`/`WebBuilds`
are the two `GUIBuilder`s.  A value is a number: 0 and 1 for a switch, a member
of the range, an option or a text.

In `Gui` the model tells its listeners one by one:

| code | actions |
|---|---|
| `setGUILayout`, `getGUILayout`, `QTController::run` | `SetGUILayout`, `NoLayout`, `StartDesktop` |
| `StateListenerHandler::fire...`: the next listener of the innermost call | `TellNext` |
| slots: set a widget, show or enable it, new options, a text | `SetWidget`, `Toggle`, `Refresh`, `Changed`, `TextTaken` |
| the main loop: a posted slot | `Deliver` |
| the user; the job in the main thread; the job or a server thread elsewhere | `UserSets`, `JobChangesOnMain`, `JobChangesElsewhere` |
| the browser, in one step each | `FirstPoll`, `Poll`, `WebSets` |

`stack` has the calls of the main thread, the innermost first, for a slot that
writes the model makes it tell its listeners before the outer call goes on;
`queue` has the slots that were posted from other threads.  `outdated` collects
the parts that the code does leave behind (see the findings), `silent` the
values that were changed without a new revision.

### TrellUrl, TrellAnswers, ModTrell

`TrellUrl` is `mod_trell_url_decode.c`; a path is a sequence of tokens, numbers
keep their width.  `TrellAnswers` is what a job makes of a message and what
`pass_reply*.c` make of the bytes that come back, with their sizes.  To an
update the answer is always OK (`XMLHandler::updateState` catches everything and
returns true), so `AnswersAreRight` says of an update that is answered 200, and
of an image that came with one, that it was executed if it can be parsed
(`BringsUpdate`).

| code | actions |
|---|---|
| `trell_handler`, `trell_decode_path_info` | `Request`, `Decode` |
| `trell_handler_body`, `trell_handle_*` before a call | `RefuseCall`, `NoSegment`, `LockTimesOut` |
| `tinia_ipc_msg_client_sendrecv` | `Exchange`, `ExchangeFails`, `PollNotified`, `PollTimesOut` |
| `trell_pass_reply_png_bundle`, `_jpg`: encoding, while the job waits | `LastPart`, `EncodeImage`, `EncodeFails`, `NextKey`, `ImagesDone` |
| `trell_ops_do_restart_master` | `TakeLock`, `GetMasterPid`, `SendTerm`, `WaitTerm`, `SendKill`, `WaitKill`, `StartFails`, `StartMaster`, `SetMasterPid` |
| `IPCController::run` of a master | `MasterRuns`, `MasterStops` |
| a process of Apache dies | `Crash` |

Apache runs one thread in each process here (`PreforkAssumption`): the
installation guide asks for `apache2-prefork-dev` (`static/doc/install.md` 65).
The consumers need it, because they keep `num_of_keys` in a static variable: with
two threads in a process and requests to two jobs, TLC finds images under the
wrong keys.  So no property covers that hazard.  A crash while the job's lock is
held is only modelled while images are encoded.

## Runs

| run | question | bounds | distinct states |
|---|---|---|---|
| `ipc_safety` | locks, lockstep, and is it an implementation of `IpcCall`, under all faults? | 2 clients, 2 calls, parts 0..2 | 459,487 |
| `ipc_liveness` | recovery, return of calls, break | 2 clients, 1 call, parts 0..1 | 29,375 |
| `long_poll` | held-back events, leaky notifications, circles of waiting, the wake-up of stale clients | 2 clients, 2 workers, 3 changes, 1 call | 220,752 |
| `sync_converges` | one writer for each element: is anything missed, does an edit get stuck, do all agree in the end? | 2 browsers, 2 elements, 1 change and 2 edits, 1 failure | 277,632 |
| `sync_anything` | every operation, every thread: stamps, acknowledged edits, recovery of a parser that threw | 1 browser, 2 changes and 2 edits, 1 failure, limits on one of the elements | 770,512 |
| `sync_workers` | finding | 1 browser, 1 change | violation |
| `master_jobs` | table, dump, processes and names; is it an implementation of `JobRegistry`? dead jobs | 1 id, 2 processes, 2 starts of the master | 25,884 |
| `render_list` | does a client have what it should at its revision, does it draw in the database's order? | 8 items, 10 revisions, order of 3, 2 requests in flight | 1,054,423 |
| `image_path` | current image, whole proxy models, live frame buffers, progress of models | ring of 2, 2 frame buffers, 2 GETs, 1 edit, 1 change, 1 failure | 1,353,074 |
| `qt_server` | pictures, widget, answers | 1 poll, 2 snapshots of 2 viewers, 2 threads, 3 values, 1 change, 1 move, 1 browser that leaves | 387,197 |
| `gui` | what is accepted can be built; desktop at rest shows the model; both sides agree | 110 leaves and 34 boxes built, 8 layouts operated, 3 changes | 713,565 |
| `mod_trell` | answers, one master, progress | 2 processes, 2 requests of a menu of up to 19, 3 masters, 2 tries, 1 crash | 82,522 |

Why the bounds are enough to see the interesting cases:

- with two clients one can hold `transaction_lock` while the other waits for it,
  one can give up and the other follow on what it left; with two calls a client
  can meet remains of its own last call; three parts give a first, a middle and
  a last one;
- with two workers one can release the events another one buffered, one can
  defer while another broadcasts; with three changes a client can be stale after
  an answer that was already outdated while `periodic()` changes the model too;
- in `ModelSync` a second edit can be made while the first is under way, a
  failure can come before or after the job executed the POST, an answer can be
  older than the browser's own edit, and an element that is added late meets a
  browser that has a revision already;
- one id and two processes let a second process follow the first under the same
  id while the first still has its last words to say, and two starts of the
  master put a restart anywhere into that; two ids share nothing but the file;
- the items of `render_list` are one of each kind that depends on another, half
  of them still to be drawn, and one that is created later; the constraint
  `OneClient` lets renderer or browser run, which know nothing of each other;
- the image can be asked for on both paths at once, outrun and overtaken; with
  a ring of two a model is replaced, with two frame buffers one is evicted while
  the other is in use;
- two snapshots of different size share one frame buffer and two threads with a
  poll that may hold one of them;
- in `gui` every widget meets every type, every box the boxes it may and may not
  contain; three changes are enough to nest one in another and post a third;
- a request of `mod_trell` can meet another one of its kind or any other of its
  menu at every step; three masters are the first one and one for each restart.
  Menus keep requests apart that share nothing: those with images, those of the
  model, those of the master.

Symmetry is used in the safety run of the messenger only.  Where deadlock is not
checked the system may stop: calls, edits and changes are bounded, a mainloop
that ended leaves nothing to do.

**Fairness.** Threads that can go on do go on (weak fairness of each thread);
clocks advance (weak fairness of deadlines); nobody has to start a call, ask for
a break, fail, crash, or change anything.

- `LongPoll`: a client that wants the operation lock gets it at last (strong
  fairness of `ClientAsks` and `ClientIsDropped`): the mainloop gives that lock
  up in a wait of 0.1 s every turn, and a timed lock of 1 s cannot lose that race
  for ever.  `StaleClientsWake` also rests on the bound on calls: the deferred
  notification needs one turn of the mainloop at which `transaction_lock` is
  free, and an unending, gapless stream of other transactions could keep it from
  that; then the long-poll timeout of 30 s is what ends the wait.
- `ModelSync`: a browser runs the callbacks and timers that are due, polls again
  after every answer, and the mainloop finishes an answer it has begun (weak
  fairness); a request that arrived is served although others come before it
  (strong fairness of `ServerReadsSchema` and `ServerUpdates`), which
  `CallsReturn` justifies: a call returns, and one that fails is repeated.
- `Master`: a process goes on, the dump is finished, a call returns within its
  second (weak fairness); the master comes round to `periodic()` between
  messages (strong fairness of `Check`: the mainloop calls it at every turn).
- `ImagePath`: images are decoded or break, frames are drawn while the browser
  shows the canvas (weak fairness of `Decoding` and `Frame`).
- `QtServer`: the pool starts threads, the main loop and the threads run (weak
  fairness of each).
- `ModTrell`: a thread that has work goes on with it, because all its waits have
  limits (weak fairness of `Work(t)`).

## What the runs found

`sync_workers`: the elements of an answer are read under one lock, its revision
under another.  A worker's change in between is covered by the revision and not
among the elements, and the browser never asks for it again
(`XMLHandler.hpp` 46 says a client needs what is newer than its revision).

The models rest on a close reading, and the reading and the counterexamples met
on the way showed more places where the code does not do what a comment, a test
or its other half expects.  They are not kept as runs.  Each is left out of a
property by name, with a history variable or with a condition, and where it says
so the property fails without that.

**Messenger and notification.**

- `ipc_msg.h` 435-437 says a break on the mainloop's own thread makes the mainloop
  return "in the next iteration".  Called from `periodic()` (where
  `Job::periodic` runs, and thus `finish()`), it only clears `mainloop_running`,
  which the loop that waits for a client does not test (`ipc_msg_server.c`
  773); the mainloop stays there until a client begins an exchange, and for ever
  if none does.  `ipc_liveness` has that break (`finish`), and `BreakStops` is
  what the code keeps of the promise: a break in a handler, or from another
  thread that got its locks, stops the mainloop, and one in `periodic()` does
  when the next exchange has begun (`Heeded`; `BreakStops` fails without it).
- `ipc_msg.h` 437-438 says a break from another thread "first waits for any
  currently active clients to finish".  The code waits one second and then
  gives up (`ipc_msg_server.c` 797); `SIGTERM` is then forgotten.
- `ipc_msg_internal.h` 59-60 says the server never takes `transaction_lock`; the
  mainloop does, with a trylock, to deliver a deferred notification.
- `ipc_msg_internal.h` 144-146 requires `transaction_lock` for a notification.
  On the mainloop thread `ipc_msg_server_notify` broadcasts without it.  Within
  a handler that is safe (the lock is its client's, see the proof); from
  `periodic()` it is not, and a client between its answer and its sleep misses
  the notification: hence `owed`.

**Synchronisation of models.**

- `updateConstraints` and `updateRestrictions` change a value and stamp nothing
  (`model/ExposedModel.hpp` 536-564, 798).  A browser that is up to date is
  woken, finds nothing new, and never gets the value.
- `ExposedModelSender.js` 44: while a POST is under way the browser refuses the
  job's values of its keys, but takes the revision that came with them.  A job
  that corrects a value in a listener is not heard (`Converges` fails if
  `JobKeys` has the user's key).
- `XMLHandler.hpp` 39 says `updateState` returns false if something went wrong.
  It catches everything and returns true: a document that cannot be parsed is
  acknowledged with 200; one with a key that is gone, or with a value that its
  element refuses, is dropped from there on and answered OK.  The browser unmarks
  all its keys.  The element that refused has a new stamp, so its value is sent,
  but to no avail while the key is marked (the item before this one); the keys
  after it have none.  `NothingMissed` fails as soon as an element can refuse
  what its user enters (`sync_converges` with `Ranges <- LimitedK1`).
- `XMLHandler.cpp` 65: an element that a worker adds between the reads of schema
  and elements arrives with a value and no declaration, and the parser throws.
  Until another update is parsed the sender drops edits; `ParserRecovers` shows
  that this ends, unless the element is removed again before the next poll.
- An exception in the handler of the partial answer leaves `_updateInProgress`
  set (`ExposedModelSender.js` 82-90), and nothing is sent any more.

**Master.**

- `Master.hpp` 108-112: `often()`, which waits for children, is never called; a
  crashed child stays a zombie, and `kill(pid, 0)` finds it alive.
  `DeadAreFound` is about processes that are gone.
- Every job that ends by itself ends as TERMINATED_UNSUCCESSFULLY, because `failHard()`
  first marks it failed: the heartbeat of `shutdown()` follows the one that said otherwise.
- A job can be wiped as soon as it says it has terminated, and its id used
  again, before it has unlinked its segment: it then unlinks the new one
  (`NameLeadsHome` fails without `spoilt`).
- `killJob` with force on a job whose fork failed is `kill(-1, SIGKILL)`.
- A dump that is cut short loses jobs whose processes go on; a restored master
  does not know them, and its table refuses nobody their ids.
- `encodeMasterState` does not escape arguments; `cleanJobRemains` unlinks names
  nobody uses; a failing `ipc_msg_server_create` leads to
  `mainloop_break(NULL)`; `Applications::refresh` clears its list when `stat`
  fails and keeps the time of its last scan.

**mod_trell.**

- A consumer's positive return value, as in `snapshot.png` without base64 or
  when compression fails, is taken for "long poll wanted" (`pass_reply.c` 33):
  the browser gets 200 and no body.  An ERROR of a job, a consumer's -1 and a
  missing segment all become 408, only lock failures 500; `mod_trell.h` says
  `get_model_update` returns 404 and polls 15 times, which it does not.
- An image answer of more than one part fails always, because its sizes are local
  variables that are set at part 0; an RGB image whose size is not a multiple of
  four is refused by the job as an overflow.
- `depth_width` is set from `depth_h`; `depth_h` is not checked; `m_width` is
  tested twice and the height has no lower limit; numbers are cut to an int.
- The schema filter never rejects: its verdict is overwritten by the result of
  `apr_brigade_destroy`.  Virtual hosts are never well formed and answer 500.
- `success` and `failure` are the wrong way round in the answer to a restart.
- `/trell_lock` stays taken if a process of Apache dies with it, and nobody can
  restart the master again; likewise a job's transaction lock.
- A SIGTERM that reaches a master before it has its segment makes the restart
  take it for dead; later it deletes the segment of the new one.  A master whose
  pid could not be written is never told to end (`unrecorded`); if the file can
  be opened and not written to, that is a success to `trell_set_master_pid`
  (`mod_trell_ops.c` 148).
- A POST whose snapshot is refused as too large has applied its edit and answers
  507; a request `rpc.xml` of a job answers 404.

**Images.**

- `Canvas.js` 533 says the image that came with a POST "is a perfect match for
  our current exposedmodel".  It was rendered before an update that was parsed
  in between (`CompleteIsMatch` in `ImagePath` fails).  The answer to an older
  GET can replace a newer image, and a GET that failed is not repeated.  All of
  them set `outrun`.
- A change of the depth size makes the answer of a POST under way unusable; an
  image that cannot be decoded leaves its model in state 1 for good;
  `ap_invalidateAllModels` forgets neither `mostRecentModel` nor the model that
  is being loaded; `snapshotURL` stays at `ap`.

**Render list.**

- `DataBase::process` never compares a `SetInputs` with its shader
  (`DataBase.cpp` 454-488); it takes actions out of the draw order without a new
  `draworder_rev`, so that clients go on drawing them; `pruneItems` does
  nothing.
- `RenderList.js` is "assured that the actions are always updated when a buffer
  is modified".  They are not, if the action was out of the order at that time
  (`ActionsFollowBuffers` fails).
- The parser applies an answer whatever revision it is for; a deleted buffer is a
  TypeError; a request that times out is not repeated; every loaded list starts
  another `_render` loop; `deleteAction` leaves a pointer in the draw order.

**Desktop.**

- `OpenGLServerGrabber.cpp` says "we will always have rendered for the RGB-grab
  before doing a depth-grab".  Another thread's grab may come in between, so
  depth and colours are of two viewers (`DepthIsOfItsImage` in `QtServer`
  fails).  Its view and projection matrices are read after the grab.
- A change between a long poll's check and its wait wakes nobody, for up to
  500 s; every long poll occupies a thread of the pool; a browser that leaves
  lets its thread spin; `startServer(false)` deletes what other threads use.
- A widget that only listens (`ComboBox`, a label, visibility, enabling) keeps an
  old value if the slot that another thread posted is delivered after a newer
  change of the main thread, or if the outer of two nested changes tells it
  last: a spin box that clamps its value writes it while its label's listener
  is still to be called.  `StringController::m_current_value` is not
  synchronised.  These are `outdated`.
- A user's value that meets a worker's change of its constraints is an exception
  that leaves a slot.

**User interface and its XML.**

- `XMLBuilder.cpp` 535-551 writes `enabledKey()` for the inversion, under a name
  the browser's parser does not read.
- `checkTab` is called with the NULL child of a tab; NULL children of rows and
  columns pass the check and crash the XML builder; contents of groups and
  popups, and visibility and enabled keys, are not checked (`Sound` asks for
  them).
- The browser's grid drops empty rows and columns at its end and fails on an
  empty first row; its `!indexOf(type) < 0` never rejects a type.
- `updateConstrainedElement` in the browser sets one bound when both changed and
  fails if there were none; radio buttons there never get new options; an
  element with enumerations and constraints is added twice.
- Emptied texts are read by neither side; `emptyConstraints` tests the minimum
  twice; `RestrictionException` derives privately from its base and cannot be caught
  by it.

## Proofs

For all values of the constants, from the modules' named assumptions only
(`MessengerAssumption`, `SomeClient`, `LongPollAssumption`,
`ExposedModelAssumption`, `ModelSyncAssumption`, `IdAssumption`,
`NoPidAssumption`, `NoJobAssumption`, `ThreadAssumption`, `BoundsAssumption`,
`MasterAssumption`, `CanvasAssumption`, `RingSizeAssumption`,
`EnvironmentsAssumption`, `QtAssumption`, `PreforkAssumption`, `KeysAssumption`,
`KindAssumption`, `ReferencesAssumption`, `FirstAssumption`), all of which TLC
evaluates.  Those that say more than the type of a constant: `PreforkAssumption`,
one thread for each Apache process, as the installation guide has it
(`static/doc/install.md` 65); `ReferencesAssumption`, an action of a render list
uses items that were created before it.

| theorem | statement |
|---|---|
| `IpcMessenger_proofs!TypeCorrect` | `Spec => []TypeOK` |
| `IpcMessenger_proofs!LocksProtect` | `Spec => []LockDiscipline` |
| `IpcMessenger_proofs!PartsStayInStep` | `Spec => []Lockstep` |
| `IpcMessenger_proofs!MessengerImplementsCall` | `Spec => CallsAreAtomic`, the refinement of `IpcCall` |
| `LongPoll_proofs!TypeCorrect` | `Spec => []TypeOK` |
| `LongPoll_proofs!EventsAreDelivered` | `Spec => []EventsHeldBack` |
| `LongPoll_proofs!NotificationsDoNotLeak` | `Spec => []NoLeakyNotification` |
| `LongPoll_proofs!NobodyGetsStuck` | `Spec => []NobodyIsStuck` |
| `ModelSync_proofs!TypeCorrect` | `Spec => []TypeOK` |
| `ModelSync_proofs!StampsStayFresh` | `Spec => []StampsAreFresh` |
| `ModelSync_proofs!UpdatesAlwaysParse` | `Spec => []UpdatesParse`, if `NoLateKeys` |
| `ModelSync_proofs!NothingIsMissed` | `Spec => []NothingMissed`, if `OneWriter` |
| `ModelSync_proofs!EditsAreSent` | `Spec => []EditsAreOnTheirWay`, if `NoLateKeys` |
| `ModelSync_proofs!SentIsCurrent` | `Spec => []InFlightIsCurrent`, if `NoLateKeys` |
| `ModelSync_proofs!AcknowledgedIsApplied` | `Spec => AckedIsApplied` |
| `Master_proofs!TypeCorrect` | `Spec => []TypeOK` |
| `Master_proofs!DumpStaysCurrent` | `Spec => []DumpIsCurrent` |
| `Master_proofs!NobodyIsOrphaned` | `Spec => []NoOrphans` |
| `Master_proofs!TerminatedStaysOver` | `Spec => []TerminatedIsOver` |
| `Master_proofs!NamesLeadHome` | `Spec => []NameLeadsHome` |
| `Master_proofs!TerminatedStaysFinal` | `Spec => TerminatedIsFinal` |
| `Master_proofs!MasterKeepsRegistry` | `Spec => KeepsRegistry`, the refinement of `JobRegistry` |
| `ModTrell_proofs!TypeCorrect` | `Spec => []TypeOK` |
| `ModTrell_proofs!OneMasterStays` | `Spec => []OneMaster` |
| `ModTrell_proofs!AnswersStayRight` | `Spec => []AnswersAreRight` |
| `ImagePath_proofs!ImageIsTheLatest` | `Spec => []ImageIsCurrent` |
| `ImagePath_proofs!ModelsAreOfOneSnapshot` | `Spec => []ProxiesAreWhole` |
| `ImagePath_proofs!SnapshotsAreThere` | `Spec => []RendersIntoLive` |
| `RenderList_proofs!ClientsKeepUp` | `Spec => []LInv`, the inductive invariant of the next two |
| `RenderList_proofs!HonestClients` | `Spec => []ClientsAreHonest` |
| `RenderList_proofs!CoveredOrder` | `Spec => []OrderIsCovered` |
| `QtServer_proofs!PicturesAreRight` | `Spec => []ImageIsOfItsView` |
| `QtServer_proofs!WidgetsAgree` | `Spec => []WidgetFollowsModel` |

**IpcMessenger.** `TypeOK` alone is not inductive: `sPart + 1` stays in range only
because a part that has a successor is not the last, and a consumer looks at the
part its thread expects.  `PartsKept` says so, and is itself only preserved
because nobody writes to the buffer while another thread has the operation lock,
which is `LockDiscipline`.  So `IInv == TypeOK /\ LockDiscipline /\ PartsKept`
is shown to be preserved, one lemma per action; `EndIterationKeeps`,
`ClientReturnsKeeps` and the like are shared by the actions that end the same
way.

The second half of the module: the locks do not say that two parties who each hold the lock in
turn speak of the same message.  `Exchange` does, and its parts are the argument
for the protocol: the header's `state` tells how far the mainloop is (`Phases`);
while it is C2S the request is that of the client in its transaction and has not
been carried out (`Sending`); while it is S2C that request has been carried out
once and the parts in the buffer answer it (`Answering`); `BufferFits`,
`ServerParts` and `ClientParts` say which parts each party has by then, and
`Calls` what callers know.  A failure on either side sets `state` so that the
other side leaves the exchange at its next look, which is why a client that gave
up never lends its place to another's answer.  The refinement is then a case
analysis: what a caller can see (`Seen`) changes in a step as in one of
`IpcCall`'s, or not at all.

**LongPoll.** `Ownership` reads the owner of each mutex off the control points.
`EventsHeldBack` needs counting: a thread enters or leaves `Holders` and the
counter follows (`HoldBegins`, `HoldEnds`, `HoldKept`).  For
`NotificationsDoNotLeak` the invariant is `NInv`: a client *relies* on a
notification if it is stale with respect to `owed`, or has an unread answer that
already is; whoever relies on one has one coming.  The step is shown in four
lemmas, which are the argument for the protocol:

1. `BroadcastReachesAll`: after a broadcast that is made with the transaction
   lock, or in a handler, nobody relies on another.  Sleepers are awake, and
   nobody is between answer and sleep, because `transaction_lock` is the
   notifier's or that of the client whose request is being handled.
2. `DueUntilBroadcast`: a notification that is due stays due until then; in
   particular the flag can be cleared without its lock, because whatever is
   deferred in that window concerns nobody.
3. `ChangeIsNotified`: whoever changes the model, but for `periodic()` that
   notifies itself, makes one due.
4. `ReliesBefore`: without such a change nobody new comes to rely on one.

`NobodyGetsStuck` is freedom from deadlock as an invariant.  `CanGoOn(t)` says
that a thread has a step, in terms of the locks it wants, and `Blocker(t)` who
has what it wants; TLC compared `CanGoOn` with `ENABLED` of the thread's actions
in every reachable state of the `long_poll` run (they differ only where a bound
ends the model, for a sleeper that need not wake, and for `Job::periodic`, which
may also leave the model alone).  The chain of blockers ends after three:
client, the client with `transaction_lock`, mainloop, the worker with the
model.  The last link is the one to look at (`ModelIsFreed`): a worker notifies
from a listener, with the model locked, and would close the circle if it waited
for `transaction_lock`; it uses a trylock and defers instead.  The invariant adds
to the owners of the locks that the buffer is between two exchanges when the
mainloop sleeps (`Settled`), so a client that waits for its turn at the buffer is
not waiting for one that has gone.

**ModelSync.** `TypeOK` needs `Entered` (what the sender has marked was
entered by the user) to be inductive.  `AcknowledgedIsApplied` needs no more than
that.  The next layer is `PInv`, under `NoLateKeys`: no thread of the job other
than the mainloop's adds elements.  Anything else may be written by anybody.

1. `Explained`: the keys of an answer's values are among those of its schema,
   which was read first.  This is what a thread that adds an element in between
   breaks, and all that it breaks.
2. So no parser throws, none is left in `parsing`, and the sender never drops an
   edit: `Sending`, the marked keys are under way or have a timer, and what is
   under way is what the user sees or has a successor noted in `pendingXML`.

`NothingIsMissed` needs more: `OneWriter` says that the job has no writing
threads, adds, updates and removes only, that no element has two writers, and
that the elements which users edit take whatever a user may enter.
Under it the invariant `IInv` adds to `PInv` a part for each link of the chain
from a stamp to a browser:

1. `AnswerFits`: an answer with revision `r` `Covers` what was stamped before
   `r` and not before the browser's own revision.  It survives the step in which
   the job stamps something new, because that stamp is `r` or later: hence the
   `>=` of `getStateUpdate`.
2. `CaughtUp`: what a browser shows wrongly, and has not marked as its own, is
   stamped late enough for its next poll.  `HandleUpdate` keeps it because of
   `Covers`; refused keys are marked ones.  An element that is removed and added
   again has a new stamp, so that it is never mistaken for the old one.
3. `Arriving`: what has been acknowledged and is still marked is in the model.
   So when `PostDone` forgets the marks, the values are those of the model, since
   nobody else writes these elements.
4. `InTune`: the browser is never ahead of the model, and what its user may edit
   is there.

`ServerUpdates` is the step that touches all of them, and only here the stamps of
a document matter (`DocumentArrives`).  Both conditions are needed:
`sync_workers` is a counterexample to `NothingMissed` with a writing thread, a
change of constraints, a refused value and the refused correction (above) are
others, and TLC
violates `UpdatesParse` as soon as a thread adds an element.
`StampsStayFresh` needs no such assumption; its invariant `SInv` adds that an
answer under way is not ahead of the model either, and every change of the model
is shown to be of one kind (`Restamped`): a fresh stamp for each element it
touches, or none.

**Master.** `IInv == TypeOK /\ DumpIsCurrent /\ NoOrphans /\ Bond /\ NamesLead`.
`NoOrphans` is what keeps an id from being used by two live processes, and is
needed for the rest: with it a heartbeat changes the record of its own process.
`Bond` is `TerminatedIsOver` turned round, from processes to records, which is
the direction a step of a job goes; `NamesLead` extends `NameLeadsHome` to the
places before the first heartbeat and after the last, since a segment is created
and unlinked by name there.  All are stated over `Known`, the table or, while
the master is down, the dump: so `DumpIsCurrent` carries them through a crash.
The steps of a job are all one lemma (`JobGoesOn`): it goes from a place to one of
the same kind or on its way out, and says nothing that belies it.

`MasterKeepsRegistry` is then a case analysis over the steps of `Master`, with one
addition to the invariant (`OwnRecords`: a record's process was born under the
record's id, so that no other id knows it).  A step of the master or of a job is one
step of the registry, or a stutter; a heartbeat that is lost while a process
leaves is a step of the process only, and a check that finds a dead one is the
end of its job.  `Start`, `Stop` and `Crash` are stutters because `DumpIsCurrent`
makes `Known` the same before and after.  `TerminatedIsFinal` follows from it, so
the run checks `KeepsRegistry` instead.

**ModTrell.** `WhoStays` reads the one master that may stay off the lock: the one
in the pid file if the lock is free, the one the holder is about to kill or has
just started, none in between; and if the holder crashed, whoever that was.
`LockIsHeld` makes the holder unique, `PidIsKnown` and `Numbered` type what a
thread remembers, `Shaped` lets a thread's record be updated.

`AnswersAreRight` compares a reply with what was executed under its request's
number.  `Routed` ties the place where a thread is to the decoded request, to
the answer that it has so far, and to whether its number is in `executed`
already; `Distinct` says that no two requests have a number in common, so that what
one thread executes is not taken for another's.  The consumers of images are
followed by an invariant of their own: from the first part that a consumer accepts,
the number of keys, the bytes that are left and the images that were cut out of
the buffer belong together, and `Tokens` is as long as the number of keys only if
no key is empty.  Everything a job answers comes from `Handle`, and the
lemmas on it are about every request, so the menu's size does not matter.

**ImagePath.** `ProxiesAreWhole`: the two textures of the model that is being
loaded are of one snapshot, as far as they are there (`OneSnapshot`), because a
snapshot is taken for a model only when none is being loaded; what the strategies
keep was complete (`KeptWhole`).  `ImageIsCurrent`: `Coming` says that an image
at least as new as the browser's model is under way unless it is shown or
outrun; `Busy` ties `_imageLoading` to the POST it waits for, without which
`_requestImageIfNotBusy` might not ask; `Fresh` says an answer's image is the
browser's model unless an update has been parsed since; and `Typed` bounds
revisions by the model's.  `RendersIntoLive` is about the list alone: it has no
environment twice, it is one longer than the limit at most, and the first of it
is the one just asked for (`Listed`), so the second lookup of a snapshot, for
the buffer without samples, drops another than the first.

**RenderList.** `LInv` has a part for each place where a copy may be.  The
database: an item has been set by `current` and was set last at `val` (`Counts`,
`Items`), an action in the order is there (`Order`), and once `process()` has run,
each sound action of the order is as new as what it uses (`Processed`).  The
renderer: what it has made is made of what the database has, as far as it has
reached both revisions (`IsMade`, `IsReady`), and its order is part of the
database's (`Native`).  A browser has the same, and one more thing: what is in its
store, and what an answer on its way will put there, must be enough for whatever
comes after it, because the answer was computed for the revision that the browser
had when it asked (`AnswerComplete`).

A batch of the application is abstracted to what it may do to an item: set it
at the next revision, delete it, or leave it with a revision that `process()` may
have raised (`Anew`, `Gone`, `Same`, together `Changed`).  Each of the clients'
parts is preserved by every `Changed` step, whatever the batch was, because what
a client may say of an item at its revision it could say before
(`StillThere`, `ShaderWasThere`, `OrderWas`).  Orders are sequences with some places left out, at the
end of the database, in a pull and in a frame; `RankIn` counts the kept places up to one,
and what is part of a sequence at kept places is part of what is kept.

**QtServer.** Pictures: what the main thread is asked to grab is for the one
connection that has the grabber (`Calls`, `Owner`), a connection that waits for a
thread is in the backlog once (`Waiting`), and from the grab to the answer the
picture is the right one (`Pictures`).  Widgets: if the widget does not show the
model's value, the last value it will be told is that value (`LastShown`), from
the events held back or from the queue, or it is about to write its own value
(`WidgetInv`); `HoldInv` counts those who hold events back, as in `LongPoll`.

## Model-checked only

Liveness, which the prover does not do: `ServerRecovers`, `BreakStops`,
`CallsReturn`, `StaleClientsWake`, `Converges`, `ParserRecovers`,
`DeadAreFound`, `ProxiesKeepComing`, `RequestsAreServed`, `RequestsAreAnswered`.

`Gui`'s `AcceptedIsBuildable`, `SidesAgree` and `DeskSettles`.  The first two are
about layouts, which are trees: what a recursive definition computes for every
argument takes an induction the prover's library cannot instantiate.
`DeskSettles` is about the listeners of the parts that such a definition builds;
`Gui` reaches recursive operators through `GuiLayout`, and the prover has no
arithmetic and no set reasoning by SMT in a module that does.

## Not modelled

- What `ipc_msg_server_create` and a client's `init` do inside a segment that is
  just being created: a client may attach before `initialized` is set
  (`ipc_msg_client.c` 139), and the outcome depends on the order of stores to a
  page with no mutex yet.
- A process that dies while it holds a mutex of the segment: the mutexes are not
  robust, and everything waits for ever or until its timeout.  `ModTrell` has the
  case of an Apache process that dies while it encodes.
- The deadline 0.1 s ahead is normalised with `> 1000000000L`
  (`ipc_msg_server.c` 1040): one nanosecond value in 10^9 is invalid, and the
  wait returns at once; that is a spurious wakeup to the model.
- Applications, rendering devices and job listings of the master: read from
  files and listed.
- XML text, base64, PNG and JPEG; OpenGL, depth conversion, shaders' contents.
- The automatic choice of an image format and the log of snapshot timings in the
  browser; cameras and mouse strategies.
- The Qt OpenGL canvas, file dialogs, spin boxes that round to two decimals;
  scripts, resources and render lists of the embedded server.
- `src/jobcontroller` and `src/utils`: base classes and debug views without state
  of their own.

What would come next: the segment from its creation to the first exchange, with
the stores in their order; a robust mutex in `Pthread` and the death of a lock
holder anywhere; several threads in an Apache process, once `num_of_keys` is no
longer static; and the `SetInputs` of `process()` in `ClientsAreHonest`, once it
is compared with its shader.
