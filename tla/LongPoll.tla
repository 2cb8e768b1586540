------------------------------ MODULE LongPoll ------------------------------
(***************************************************************************)
(* How a long-polling client learns that the model of a job has changed:   *)
(* ipc_msg_server_notify and the deferred notifications of the mainloop    *)
(* (src/ipc), the wait at the end of tinia_ipc_msg_client_sendrecv, and    *)
(* IPCJobController, which listens to the ExposedModel and turns its       *)
(* events into notifications (src/trell, src/model).                       *)
(*                                                                         *)
(* The threads are the clients, the mainloop and the workers of the job,   *)
(* which change the model.  They meet in three mutexes: transaction_lock,  *)
(* operation_lock and the model's m_selfMutex.  The exchange of a request  *)
(* and its reply is the one IpcMessenger models in detail; here it is a    *)
(* request, an answer and its receipt, and it may fail.                    *)
(***************************************************************************)
EXTENDS Integers, FiniteSets, Pthread

CONSTANTS Client,          \* the processes that talk to the job
          Worker,          \* the job's own threads
          MaxRev,          \* bound: changes of the model
          MaxCalls,        \* bound: calls per client
          PeriodicWrites   \* does Job::periodic change the model?

ASSUME LongPollAssumption ==
    /\ MaxRev \in Nat /\ MaxCalls \in Nat
    /\ PeriodicWrites \in BOOLEAN
    /\ Client \cap Worker = {}
    /\ IsFiniteSet(Worker)
    /\ "none" \notin Client \cup Worker
    /\ "server" \notin Client \cup Worker

VARIABLES
    txLock, modelLock,         \* owners of transaction_lock and m_selfMutex
    opBusy,                    \* the mainloop has the operation lock
    exch, query, reply,        \* the shared buffer: state, request, answer
    cpc, nWait, seen, calls,   \* clients; their waits on notification_event
    spc, deferred,             \* the mainloop; deferred_notification_event
    updateOngoing,             \* IPCJobController::m_updateOngoing
    rev, holds, pending,       \* model: revision, holdEventCounter, m_buffer
    owed,                      \* history: the newest change that was not made,
                               \* and notified, by Job::periodic
    wpc                        \* the workers

clientVars == <<cpc, nWait, seen, calls>>
buffer     == <<opBusy, exch, query, reply>>
serverVars == <<spc, deferred, updateOngoing>>
model      == <<rev, holds, pending, owed>>
vars == <<txLock, modelLock, buffer, clientVars, serverVars, model, wpc>>

Query == {"poll", "update"}

Init ==
    /\ txLock = "none" /\ modelLock = "none"
    /\ opBusy = FALSE /\ exch = "ready" /\ query = "poll" /\ reply = 0
    /\ cpc = [c \in Client |-> "out"]
    /\ nWait = [c \in Client |-> "awake"]
    /\ seen = [c \in Client |-> 0] /\ calls = [c \in Client |-> 0]
    /\ spc = "idle" /\ deferred = FALSE /\ updateOngoing = FALSE
    /\ rev = 0 /\ holds = 0 /\ pending = FALSE /\ owed = 0
    /\ wpc = [w \in Worker |-> "out"]

-----------------------------------------------------------------------------
(* Clients.  A poll asks for what is new since the revision seen and waits *)
(* if there is nothing; an update makes the job change the model.          *)

ClientCalls(c) ==
    /\ cpc[c] = "out" /\ calls[c] < MaxCalls
    /\ txLock = "none"
    /\ txLock' = c
    /\ cpc' = [cpc EXCEPT ![c] = "enter"]
    /\ calls' = [calls EXCEPT ![c] = @ + 1]
    /\ UNCHANGED <<modelLock, buffer, nWait, seen, serverVars, model, wpc>>

\* A call that was notified asks again, and that is always a poll.
ClientAsks(c) ==
    /\ cpc[c] \in {"enter", "again"}
    /\ ~opBusy /\ exch = "ready"
    /\ \E q \in Query :
          /\ q = "update" => cpc[c] = "enter"
          /\ query' = q
    /\ exch' = "asked"
    /\ cpc' = [cpc EXCEPT ![c] = "asked"]
    /\ UNCHANGED <<txLock, modelLock, opBusy, reply, nWait, seen, calls,
                   serverVars, model, wpc>>

\* The consumer asks for a notification if the answer brought nothing new.
\* Between the unlock of the operation lock and the wait, the client still
\* has the transaction lock.
ClientReceives(c) ==
    /\ cpc[c] = "asked"
    /\ ~opBusy /\ exch = "answered"
    /\ exch' = "done"
    /\ \/ /\ query = "poll" /\ reply = seen[c]
          /\ cpc' = [cpc EXCEPT ![c] = "toWait"]
          /\ UNCHANGED <<txLock, seen>>
       \/ /\ query = "poll" /\ reply # seen[c]
          /\ seen' = [seen EXCEPT ![c] = reply]
          /\ cpc' = [cpc EXCEPT ![c] = "out"]
          /\ txLock' = "none"
       \/ /\ query = "update"
          /\ cpc' = [cpc EXCEPT ![c] = "out"]
          /\ txLock' = "none"
          /\ UNCHANGED seen
    /\ UNCHANGED <<modelLock, opBusy, query, reply, nWait, calls, serverVars,
                   model, wpc>>

\* MUTANT of ClientGivesUp: an error path that forgets the transaction lock.
ClientGivesUpKeepingTx(c) ==
    /\ cpc[c] = "asked" /\ ~opBusy
    /\ exch' = "error"
    /\ cpc' = [cpc EXCEPT ![c] = "out"]
    /\ UNCHANGED <<txLock, modelLock, opBusy, query, reply, nWait, seen, calls,
                   serverVars, model, wpc>>

\* The exchange failed or ran out of time: the client leaves state = ERROR.
ClientGivesUp(c) ==
    /\ cpc[c] = "asked" /\ ~opBusy
    /\ exch' = "error"
    /\ cpc' = [cpc EXCEPT ![c] = "out"]
    /\ txLock' = "none"
    /\ UNCHANGED <<modelLock, opBusy, query, reply, nWait, seen, calls,
                   serverVars, model, wpc>>

\* pthread_cond_timedwait( notification_event, transaction_lock ).
ClientWaits(c) ==
    /\ cpc[c] = "toWait"
    /\ cpc' = [cpc EXCEPT ![c] = "waiting"]
    /\ nWait' = [nWait EXCEPT ![c] = "asleep"]
    /\ txLock' = "none"
    /\ UNCHANGED <<modelLock, buffer, seen, calls, serverVars, model, wpc>>

\* The wait returns: another round, or the long-poll has timed out.
ClientWakes(c) ==
    /\ cpc[c] = "waiting" /\ Returning(nWait[c])
    /\ txLock = "none"
    /\ nWait' = [nWait EXCEPT ![c] = "awake"]
    /\ \/ /\ nWait[c] = "signalled"
          /\ txLock' = c
          /\ cpc' = [cpc EXCEPT ![c] = "again"]
       \/ /\ nWait[c] = "expired"
          /\ cpc' = [cpc EXCEPT ![c] = "out"]
          /\ UNCHANGED txLock
    /\ UNCHANGED <<modelLock, buffer, seen, calls, serverVars, model, wpc>>

\* The long-poll timeout of 30 s, or a wakeup for no reason.
LongPollEnds(c) ==
    /\ nWait[c] \in {"asleep", "signalled"}
    /\ \E s \in {"signalled", "expired"} : nWait' = [nWait EXCEPT ![c] = s]
    /\ UNCHANGED <<txLock, modelLock, buffer, cpc, seen, calls, serverVars,
                   model, wpc>>

\* The server has dropped the exchange: the client is signalled and finds a
\* state it did not expect, or its timeout of 1 s runs out.
ClientIsDropped(c) == exch \notin {"asked", "answered"} /\ ClientGivesUp(c)

ClientNext(c) == \/ ClientAsks(c) \/ ClientReceives(c) \/ ClientWaits(c)
                 \/ ClientWakes(c) \/ ClientIsDropped(c)

-----------------------------------------------------------------------------
(* The mainloop.                                                           *)

\* MUTANT of ReleaseEvents: the buffered events are not cleared on delivery.
ReleaseEventsKeepsBuffer ==
    /\ holds' = holds - 1
    /\ UNCHANGED pending

\* What a thread with m_selfMutex does when it releases the state events
\* (ExposedModel::releaseStateEvents): the last to release them delivers
\* those that were held back.
ReleaseEvents ==
    /\ holds' = holds - 1
    /\ pending' = (pending /\ holds > 1)

EventsDelivered == holds = 1 /\ pending

\* A turn of mainloop_iteration without a client event.
ServerTurn ==
    /\ spc = "idle" /\ ~opBusy /\ exch \in {"ready", "error"}
    /\ exch' = "ready"
    /\ opBusy' = TRUE
    /\ spc' = "poll"
    /\ UNCHANGED <<txLock, modelLock, query, reply, clientVars, deferred,
                   updateOngoing, model, wpc>>

\* MUTANT of ServerPollDeferred: the flag is never looked at.
ServerPollDeferredNever ==
    /\ spc = "poll"
    /\ spc' = "periodic"
    /\ UNCHANGED <<txLock, modelLock, buffer, clientVars, deferred,
                   updateOngoing, model, wpc>>

\* Is a notification deferred?  If so, the operation lock is let go first.
ServerPollDeferred ==
    /\ spc = "poll"
    /\ \/ deferred /\ spc' = "tryTx" /\ opBusy' = FALSE
       \/ ~deferred /\ spc' = "periodic" /\ UNCHANGED opBusy
    /\ UNCHANGED <<txLock, modelLock, exch, query, reply, clientVars, deferred,
                   updateOngoing, model, wpc>>

\* MUTANT of ServerTryTx: the broadcast does not wait for the lock.
ServerTryTxIgnoresBusy ==
    /\ spc = "tryTx"
    /\ spc' = "broadcast"
    /\ txLock' = IF txLock = "none" THEN "server" ELSE txLock
    /\ UNCHANGED <<modelLock, buffer, clientVars, deferred, updateOngoing,
                   model, wpc>>

ServerTryTx ==
    /\ spc = "tryTx"
    /\ \/ txLock = "none" /\ txLock' = "server" /\ spc' = "broadcast"
       \/ txLock # "none" /\ spc' = "relock" /\ UNCHANGED txLock
    /\ UNCHANGED <<modelLock, buffer, clientVars, deferred, updateOngoing,
                   model, wpc>>

ServerBroadcast ==
    /\ spc = "broadcast"
    /\ nWait' = CondBroadcast(nWait)
    /\ spc' = "clear"
    /\ UNCHANGED <<txLock, modelLock, buffer, cpc, seen, calls, deferred,
                   updateOngoing, model, wpc>>

\* The flag is cleared without its lock, the transaction lock given back.
ServerClearDeferred ==
    /\ spc = "clear"
    /\ deferred' = FALSE
    /\ txLock' = "none"
    /\ spc' = "relock"
    /\ UNCHANGED <<modelLock, buffer, clientVars, updateOngoing, model, wpc>>

ServerRelock ==
    /\ spc = "relock" /\ ~opBusy
    /\ opBusy' = TRUE
    /\ spc' = "periodic"
    /\ UNCHANGED <<txLock, modelLock, exch, query, reply, clientVars, deferred,
                   updateOngoing, model, wpc>>

\* Job::periodic, if it changes the model: the listener runs on the mainloop
\* thread, outside any transaction.
ServerPeriodic ==
    /\ spc = "periodic"
    /\ \/ spc' = "settle" /\ UNCHANGED <<modelLock, model>>
       \/ /\ PeriodicWrites /\ rev < MaxRev /\ modelLock = "none"
          /\ rev' = rev + 1
          /\ \/ holds > 0 /\ pending' = TRUE /\ spc' = "settle"
                /\ owed' = rev'
                /\ UNCHANGED modelLock
             \/ modelLock' = "server" /\ spc' = "periodicNotify"
                /\ UNCHANGED <<pending, owed>>
          /\ UNCHANGED holds
    /\ UNCHANGED <<txLock, buffer, clientVars, deferred, updateOngoing, wpc>>

\* ipc_msg_server_notify on the mainloop thread: a broadcast, no lock.
ServerPeriodicNotify ==
    /\ spc = "periodicNotify"
    /\ nWait' = CondBroadcast(nWait)
    /\ modelLock' = "none"
    /\ spc' = "settle"
    /\ UNCHANGED <<txLock, buffer, cpc, seen, calls, deferred, updateOngoing,
                   model, wpc>>

\* Back to sleep.
ServerSleeps ==
    /\ spc = "settle"
    /\ spc' = "idle" /\ opBusy' = FALSE
    /\ UNCHANGED <<txLock, modelLock, exch, query, reply, clientVars, deferred,
                   updateOngoing, model, wpc>>

\* A request has arrived; its handler runs with the operation lock.
ServerTakes ==
    /\ spc = "idle" /\ ~opBusy /\ exch = "asked"
    /\ opBusy' = TRUE
    /\ spc' = IF query = "poll" THEN "answer" ELSE "update"
    /\ UNCHANGED <<txLock, modelLock, exch, query, reply, clientVars, deferred,
                   updateOngoing, model, wpc>>

\* onUpdateState: ExposedModelLock, m_updateOngoing = true, the new values.
ServerUpdates ==
    /\ spc = "update" /\ modelLock = "none"
    /\ modelLock' = "server"
    /\ updateOngoing' = TRUE
    /\ holds' = holds + 1
    /\ \/ rev < MaxRev /\ rev' = rev + 1 /\ pending' = TRUE /\ owed' = rev'
       \/ UNCHANGED <<rev, pending, owed>>   \* malformed, or nothing changed
    /\ spc' = "updated"
    /\ UNCHANGED <<txLock, buffer, clientVars, deferred, wpc>>

\* ~ExposedModelLock: the mutex first, then the events, each on its own.
ServerUnlocksModel ==
    /\ spc = "updated"
    /\ modelLock' = "none"
    /\ spc' = "release"
    /\ UNCHANGED <<txLock, buffer, clientVars, deferred, updateOngoing, model,
                   wpc>>

\* The listener finds m_updateOngoing set and notifies nobody.
ServerReleasesEvents ==
    /\ spc = "release" /\ modelLock = "none"
    /\ ReleaseEvents
    /\ spc' = "updateDone"
    /\ UNCHANGED <<txLock, modelLock, buffer, clientVars, deferred,
                   updateOngoing, rev, owed, wpc>>

ServerUpdateDone ==
    /\ spc = "updateDone"
    /\ updateOngoing' = FALSE
    /\ spc' = "notify"
    /\ UNCHANGED <<txLock, modelLock, buffer, clientVars, deferred, model, wpc>>

\* ipc_msg_server_notify on the mainloop thread, within a transaction.
ServerNotifies ==
    /\ spc = "notify"
    /\ nWait' = CondBroadcast(nWait)
    /\ spc' = "answer"
    /\ UNCHANGED <<txLock, modelLock, buffer, cpc, seen, calls, deferred,
                   updateOngoing, model, wpc>>

\* The reply is written and the client signalled.
ServerAnswers ==
    /\ spc = "answer" /\ modelLock = "none"
    /\ reply' = rev
    /\ exch' = "answered" /\ opBusy' = FALSE
    /\ spc' = "fin"
    /\ UNCHANGED <<txLock, modelLock, query, clientVars, deferred,
                   updateOngoing, model, wpc>>

\* The exchange is over, or the client too slow: READY for the next one.
ServerFinishes ==
    /\ spc = "fin" /\ ~opBusy
    /\ exch' = "ready" /\ opBusy' = TRUE
    /\ spc' = "poll"
    /\ UNCHANGED <<txLock, modelLock, query, reply, clientVars, deferred,
                   updateOngoing, model, wpc>>

ServerNext == \/ ServerTurn \/ ServerPollDeferred \/ ServerTryTx
              \/ ServerBroadcast \/ ServerClearDeferred \/ ServerRelock
              \/ ServerPeriodic \/ ServerPeriodicNotify \/ ServerSleeps
              \/ ServerTakes \/ ServerUpdates \/ ServerUnlocksModel
              \/ ServerReleasesEvents \/ ServerUpdateDone \/ ServerNotifies
              \/ ServerAnswers \/ ServerFinishes

-----------------------------------------------------------------------------
(* Workers: ExposedModel::updateElement, alone or under an ExposedModelLock. *)
(* The listener runs in the thread that delivers the event, which has       *)
(* m_selfMutex.  Only changes of values are held back, not those of the     *)
(* schema.                                                                  *)

WorkerUpdates(w) ==
    /\ wpc[w] = "out" /\ rev < MaxRev /\ modelLock = "none"
    /\ rev' = rev + 1 /\ owed' = rev'
    /\ \/ /\ holds > 0                    \* a value: held back
          /\ pending' = TRUE
          /\ UNCHANGED <<modelLock, wpc>>
       \/ /\ updateOngoing                \* left to onUpdateState
          /\ UNCHANGED <<modelLock, pending, wpc>>
       \/ /\ ~updateOngoing
          /\ modelLock' = w
          /\ wpc' = [wpc EXCEPT ![w] = "notify"]
          /\ UNCHANGED pending
    /\ UNCHANGED <<txLock, buffer, clientVars, serverVars, holds>>

\* Under an ExposedModelLock, which may protect any number of changes.
WorkerLocksModel(w) ==
    /\ wpc[w] = "out" /\ rev < MaxRev /\ modelLock = "none"
    /\ modelLock' = w
    /\ holds' = holds + 1
    /\ rev' = rev + 1 /\ pending' = TRUE /\ owed' = rev'
    /\ wpc' = [wpc EXCEPT ![w] = "locked"]
    /\ UNCHANGED <<txLock, buffer, clientVars, serverVars>>

WorkerUnlocksModel(w) ==
    /\ wpc[w] = "locked"
    /\ modelLock' = "none"
    /\ wpc' = [wpc EXCEPT ![w] = "release"]
    /\ UNCHANGED <<txLock, buffer, clientVars, serverVars, model>>

WorkerReleasesEvents(w) ==
    /\ wpc[w] = "release" /\ modelLock = "none"
    /\ ReleaseEvents
    /\ \/ /\ EventsDelivered /\ ~updateOngoing
          /\ modelLock' = w
          /\ wpc' = [wpc EXCEPT ![w] = "notify"]
       \/ /\ ~EventsDelivered \/ updateOngoing
          /\ wpc' = [wpc EXCEPT ![w] = "out"]
          /\ UNCHANGED modelLock
    /\ UNCHANGED <<txLock, buffer, clientVars, serverVars, rev, owed>>

\* ipc_msg_server_notify on another thread: trylock on the transaction lock.
WorkerTriesTx(w) ==
    /\ wpc[w] = "notify"
    /\ \/ /\ txLock = "none" /\ txLock' = w
          /\ wpc' = [wpc EXCEPT ![w] = "broadcast"]
       \/ /\ txLock # "none" /\ UNCHANGED txLock
          /\ wpc' = [wpc EXCEPT ![w] = "defer"]
    /\ UNCHANGED <<modelLock, buffer, clientVars, serverVars, model>>

WorkerBroadcasts(w) ==
    /\ wpc[w] = "broadcast"
    /\ nWait' = CondBroadcast(nWait)
    /\ txLock' = "none" /\ modelLock' = "none"
    /\ wpc' = [wpc EXCEPT ![w] = "out"]
    /\ UNCHANGED <<buffer, cpc, seen, calls, serverVars, model>>

WorkerDefers(w) ==
    /\ wpc[w] = "defer"
    /\ deferred' = TRUE
    /\ modelLock' = "none"
    /\ wpc' = [wpc EXCEPT ![w] = "out"]
    /\ UNCHANGED <<txLock, buffer, clientVars, spc, updateOngoing, model>>

WorkerNext(w) == \/ WorkerUnlocksModel(w) \/ WorkerReleasesEvents(w)
                 \/ WorkerTriesTx(w) \/ WorkerBroadcasts(w) \/ WorkerDefers(w)

Next == \/ ServerNext
        \/ \E c \in Client : ClientCalls(c) \/ ClientNext(c) \/ ClientGivesUp(c)
                             \/ LongPollEnds(c)
        \/ \E w \in Worker : WorkerUpdates(w) \/ WorkerLocksModel(w)
                             \/ WorkerNext(w)

\* Every thread that can go on does.  Nobody has to call, to change the model
\* or to give up early, and no long-poll needs to time out.  A client blocked on
\* the operation lock gets it at last: the mainloop sleeps without it, 0.1 s a
\* turn.
Fairness ==
    /\ WF_vars(ServerNext)
    /\ \A c \in Client : WF_vars(ClientNext(c))
                         /\ SF_vars(ClientAsks(c) \/ ClientIsDropped(c))
    /\ \A w \in Worker : WF_vars(WorkerNext(w))

Spec == Init /\ [][Next]_vars
FairSpec == Spec /\ Fairness

-----------------------------------------------------------------------------
(* Properties.                                                             *)

ClientPC == {"out", "enter", "again", "asked", "toWait", "waiting"}
ServerPC == {"idle", "poll", "tryTx", "broadcast", "clear", "relock",
             "periodic", "periodicNotify", "settle", "update", "updated",
             "release", "updateDone", "notify", "answer", "fin"}
WorkerPC == {"out", "locked", "release", "notify", "broadcast", "defer"}

\* Every variable holds a value of its type.
TypeOK ==
    /\ txLock \in Client \cup Worker \cup {"none", "server"}
    /\ modelLock \in Worker \cup {"none", "server"}
    /\ opBusy \in BOOLEAN /\ query \in Query /\ reply \in 0..MaxRev
    /\ exch \in {"ready", "asked", "answered", "done", "error"}
    /\ cpc \in [Client -> ClientPC] /\ nWait \in [Client -> WaitState]
    /\ seen \in [Client -> 0..MaxRev] /\ calls \in [Client -> 0..MaxCalls]
    /\ spc \in ServerPC
    /\ deferred \in BOOLEAN /\ updateOngoing \in BOOLEAN /\ pending \in BOOLEAN
    /\ rev \in 0..MaxRev /\ owed \in 0..rev /\ holds \in Nat
    /\ wpc \in [Worker -> WorkerPC]

\* The threads that hold the state events back.
Holders == {w \in Worker : wpc[w] \in {"locked", "release"}}
           \cup {t \in {"server"} : spc \in {"updated", "release"}}

\* StateListenerHandler counts the threads that hold the state events back, and
\* has buffered events only while there is one: the last to release delivers
\* them, so none is lost and none delivered twice.
EventsHeldBack == /\ holds = Cardinality(Holders)
                  /\ pending => Holders # {}

\* A client that has been told that revision seen[c] is the newest, and waits
\* or is about to wait for a notification, although the model has moved on.
\* What Job::periodic changes on the mainloop thread is announced by a
\* broadcast without any lock, and a client that is about to wait misses it.
Stale(c) == /\ cpc[c] = "toWait" \/ (cpc[c] = "waiting" /\ nWait[c] = "asleep")
            /\ seen[c] < owed

\* A notification is still on its way: deferred and not about to be cleared,
\* due from a worker or the handler, or behind events that are held back.
NotificationDue ==
    \/ deferred /\ spc # "clear"
    \/ spc \in {"broadcast", "notify"}
    \/ updateOngoing
    \/ pending
    \/ \E w \in Worker : wpc[w] \in {"notify", "broadcast", "defer"}

\* No leaky notification (ipc_msg_internal.h): a client never waits for a
\* change that already happened without a notification coming, whatever
\* Job::periodic changes and announces meanwhile, and although the notifier
\* and the waiter share no lock, the deferred flag is cleared without its own,
\* and events are held back and suppressed on the way.
NoLeakyNotification == \A c \in Client : Stale(c) => NotificationDue

\* What a thread needs for its next step.  Whoever would call, or change the
\* model, needs a lock for that; a sleeping client needs nothing.
ClientCan(c) ==
    \/ cpc[c] = "out" /\ txLock = "none"
    \/ cpc[c] \in {"enter", "again"} /\ ~opBusy /\ exch = "ready"
    \/ cpc[c] = "asked" /\ ~opBusy /\ exch # "asked"
    \/ cpc[c] = "toWait"
    \/ cpc[c] = "waiting" /\ (nWait[c] = "asleep" \/ txLock = "none")

ServerCan ==
    /\ spc \in {"update", "release", "periodic", "answer"} => modelLock = "none"
    /\ spc \in {"idle", "relock", "fin"} => ~opBusy
    /\ spc = "idle" => exch \in {"ready", "error", "asked"}

WorkerCan(w) == wpc[w] \in {"out", "release"} => modelLock = "none"

Thread == Client \cup Worker \cup {"server"}

CanGoOn(t) == \/ t \in Client /\ ClientCan(t)
              \/ t \in Worker /\ WorkerCan(t)
              \/ t = "server" /\ ServerCan

\* Who keeps it from that: the owner of the lock that it wants, or the server.
Blocker(t) == IF CanGoOn(t) THEN t
              ELSE IF t \notin Client THEN modelLock
              ELSE IF cpc[t] \in {"out", "waiting"} THEN txLock
              ELSE "server"

\* No circle of waiting, although workers notify with the model locked, the
\* handler of a client with the transaction lock wants the model, and more
\* clients queue for that lock: a client waits for the one with the transaction
\* lock, that one for the server, the server for the worker with the model, and
\* that worker for nobody.
NobodyIsStuck == \A t \in Thread : CanGoOn(Blocker(Blocker(Blocker(t))))

\* The notification does come: a stale client stops waiting, without the help
\* of its long-poll timeout.
StaleClientsWake == \A c \in Client : Stale(c) ~> ~Stale(c)
=============================================================================
