--------------------------- MODULE LongPoll_proofs ---------------------------
(***************************************************************************)
(* Held-back events are never lost, and no notification leaks, for any     *)
(* number of clients and workers.                                          *)
(***************************************************************************)
EXTENDS LongPoll, FiniteSetTheorems, TLAPS

\* Who has which lock, and who is in the wait for a notification, can be read
\* off the threads' control points.
Ownership ==
    /\ (txLock = "server") <=> spc \in {"broadcast", "clear"}
    /\ (modelLock = "server") <=> spc \in {"updated", "periodicNotify"}
    /\ opBusy <=> spc \notin {"idle", "tryTx", "broadcast", "clear", "relock",
                              "fin"}
    /\ updateOngoing <=> spc \in {"updated", "release", "updateDone"}
    /\ \A c \in Client :
          /\ (txLock = c) <=> cpc[c] \in {"enter", "again", "asked", "toWait"}
          /\ (nWait[c] = "awake") <=> (cpc[c] # "waiting")
    /\ \A w \in Worker :
          /\ (txLock = w) <=> (wpc[w] = "broadcast")
          /\ (modelLock = w) <=>
                wpc[w] \in {"locked", "notify", "broadcast", "defer"}

IInv == TypeOK /\ Ownership /\ EventsHeldBack

-----------------------------------------------------------------------------
(* Counting the threads that hold the events back.                         *)

LEMMA HoldersFinite == IsFiniteSet(Holders)
<1>1. IsFiniteSet({w \in Worker : wpc[w] \in {"locked", "release"}})
  BY LongPollAssumption, FS_Subset
<1>2. IsFiniteSet({t \in {"server"} : spc \in {"updated", "release"}})
  BY FS_Singleton, FS_Subset
<1> QED
  BY <1>1, <1>2, FS_Union DEF Holders

\* One more thread holds the events back.
LEMMA HoldBegins ==
    ASSUME IInv, NEW t, t \notin Holders,
           Holders' = Holders \cup {t}, holds' = holds + 1
    PROVE  EventsHeldBack' /\ holds' \in Nat
BY HoldersFinite, FS_AddElement, FS_CardinalityType DEF IInv, EventsHeldBack

\* One thread less does, and it is the last one that empties the buffer.
LEMMA HoldEnds ==
    ASSUME IInv, NEW t \in Holders, Holders' = Holders \ {t}, ReleaseEvents
    PROVE  EventsHeldBack' /\ holds' \in Nat
<1>1. /\ Cardinality(Holders') = holds - 1
      /\ Cardinality(Holders') \in Nat
      /\ IsFiniteSet(Holders')
  BY HoldersFinite, FS_RemoveElement, FS_CardinalityType
     DEF IInv, EventsHeldBack
<1>2. pending' => Cardinality(Holders') # 0
  <2>1. holds \in Nat
    BY DEF IInv, TypeOK
  <2>2. pending' => holds > 1
    BY Zenon DEF ReleaseEvents
  <2> QED
    BY <1>1, <2>1, <2>2
<1>3. pending' => Holders' # {}
  BY <1>2, FS_EmptySet
<1> QED
  BY <1>1, <1>3 DEF EventsHeldBack, ReleaseEvents

\* The same threads do: events are buffered only if there is one.
LEMMA HoldKept ==
    ASSUME IInv, Holders' = Holders, holds' = holds,
           pending' => pending \/ holds > 0
    PROVE  EventsHeldBack' /\ holds' \in Nat
<1>1. pending' => Holders # {}
  <2>1. CASE pending
    BY <2>1 DEF IInv, EventsHeldBack
  <2>2. CASE holds > 0
    BY <2>2, FS_EmptySet DEF IInv, EventsHeldBack
  <2> QED
    BY <2>1, <2>2
<1> QED
  BY <1>1 DEF IInv, EventsHeldBack, TypeOK

LEMMA HoldStep ==
    ASSUME IInv, [Next]_vars PROVE EventsHeldBack' /\ holds' \in Nat
<1> USE DEF Holders, clientVars, buffer, serverVars, model
<1>1. CASE ServerUpdates
  <2>1. /\ "server" \notin Holders
        /\ Holders' = Holders \cup {"server"}
    BY <1>1, LongPollAssumption DEF ServerUpdates
  <2> QED
    BY <1>1, <2>1, HoldBegins DEF ServerUpdates
<1>2. CASE ServerReleasesEvents
  <2>1. "server" \in Holders /\ Holders' = Holders \ {"server"}
    BY <1>2, LongPollAssumption DEF ServerReleasesEvents
  <2> QED
    BY <1>2, <2>1, HoldEnds DEF ServerReleasesEvents
<1>3. ASSUME NEW w \in Worker, WorkerLocksModel(w)
      PROVE  EventsHeldBack' /\ holds' \in Nat
  <2>1. w \notin Holders /\ Holders' = Holders \cup {w}
    BY <1>3, LongPollAssumption DEF WorkerLocksModel, IInv, TypeOK
  <2> QED
    BY <1>3, <2>1, HoldBegins DEF WorkerLocksModel
<1>4. ASSUME NEW w \in Worker, WorkerReleasesEvents(w)
      PROVE  EventsHeldBack' /\ holds' \in Nat
  <2>1. wpc' \in [Worker -> WorkerPC] /\ wpc'[w] \in {"notify", "out"}
        /\ \A v \in Worker \ {w} : wpc'[v] = wpc[v]
    BY <1>4 DEF WorkerReleasesEvents, IInv, TypeOK, WorkerPC
  <2>2. w \in Holders /\ Holders' = Holders \ {w}
    BY <1>4, <2>1, LongPollAssumption DEF WorkerReleasesEvents
  <2> QED
    BY <1>4, <2>2, HoldEnds DEF WorkerReleasesEvents
<1>5. CASE \E w \in Worker : WorkerUpdates(w)
  <2> PICK w \in Worker : WorkerUpdates(w)
    BY <1>5
  <2>1. wpc[w] = "out" /\ wpc'[w] \in {"out", "notify"}
        /\ \A v \in Worker \ {w} : wpc'[v] = wpc[v]
    BY DEF WorkerUpdates, IInv, TypeOK
  <2>2. Holders' = Holders
    BY <2>1 DEF WorkerUpdates
  <2> QED
    BY <2>2, HoldKept DEF WorkerUpdates
<1>6. CASE \E w \in Worker : \/ WorkerUnlocksModel(w) \/ WorkerTriesTx(w)
                             \/ WorkerBroadcasts(w) \/ WorkerDefers(w)
  <2> PICK w \in Worker : \/ WorkerUnlocksModel(w) \/ WorkerTriesTx(w)
                          \/ WorkerBroadcasts(w) \/ WorkerDefers(w)
    BY <1>6
  <2>1. /\ (wpc[w] \in {"locked", "release"}) <=> (wpc'[w] \in {"locked", "release"})
        /\ \A v \in Worker \ {w} : wpc'[v] = wpc[v]
        /\ UNCHANGED <<spc, holds, pending>>
    BY DEF WorkerUnlocksModel, WorkerTriesTx, WorkerBroadcasts, WorkerDefers,
           IInv, TypeOK
  <2>2. Holders' = Holders
    BY <2>1
  <2> QED
    BY <2>1, <2>2, HoldKept
<1>7. CASE ServerPeriodic
  BY <1>7, HoldKept DEF ServerPeriodic
<1>8. CASE \/ ServerTurn \/ ServerPollDeferred \/ ServerTryTx \/ ServerBroadcast
           \/ ServerClearDeferred \/ ServerRelock \/ ServerPeriodicNotify
           \/ ServerSleeps \/ ServerTakes \/ ServerUnlocksModel
           \/ ServerUpdateDone \/ ServerNotifies \/ ServerAnswers
           \/ ServerFinishes
  <2>1. /\ (spc \in {"updated", "release"}) <=> (spc' \in {"updated", "release"})
        /\ UNCHANGED <<wpc, holds, pending>>
    BY <1>8 DEF ServerTurn, ServerPollDeferred, ServerTryTx, ServerBroadcast,
       ServerClearDeferred, ServerRelock, ServerPeriodicNotify, ServerSleeps,
       ServerTakes, ServerUnlocksModel, ServerUpdateDone, ServerNotifies,
       ServerAnswers, ServerFinishes
  <2> QED
    BY <2>1, HoldKept
<1>9. CASE UNCHANGED <<spc, wpc, holds, pending>>
  BY <1>9, HoldKept
<1>10. CASE \E c \in Client : \/ ClientCalls(c) \/ ClientNext(c)
                              \/ ClientGivesUp(c) \/ LongPollEnds(c)
  BY <1>9, <1>10 DEF ClientCalls, ClientNext, ClientGivesUp, LongPollEnds,
     ClientAsks, ClientReceives, ClientWaits, ClientWakes, ClientIsDropped
<1>11. CASE UNCHANGED vars
  BY <1>9, <1>11 DEF vars
<1> QED
  BY <1>1, <1>2, <1>3, <1>4, <1>5, <1>6, <1>7, <1>8, <1>10, <1>11
     DEF Next, ServerNext, WorkerNext

-----------------------------------------------------------------------------
(* The locks, thread by thread.                                            *)

\* The count of the threads that hold events back is HoldStep's.

LEMMA ClientKeeps ==
    ASSUME IInv, NEW c \in Client,
           ClientCalls(c) \/ ClientNext(c) \/ ClientGivesUp(c) \/ LongPollEnds(c)
    PROVE  TypeOK' /\ Ownership'
<1> USE LongPollAssumption
    DEF IInv, TypeOK, Ownership, serverVars, model, buffer, ClientPC
<1>1. CASE ClientCalls(c)
  BY <1>1 DEF ClientCalls
<1>2. CASE ClientAsks(c)
  BY <1>2 DEF ClientAsks
<1>3. CASE ClientReceives(c)
  BY <1>3 DEF ClientReceives
<1>4. CASE ClientWaits(c)
  BY <1>4 DEF ClientWaits, WaitState
<1>5. CASE ClientWakes(c)
  BY <1>5 DEF ClientWakes, WaitState
<1>6. CASE ClientGivesUp(c)
  BY <1>6 DEF ClientGivesUp
<1>7. CASE LongPollEnds(c)
  BY <1>7 DEF LongPollEnds, WaitState
<1> QED
  BY <1>1, <1>2, <1>3, <1>4, <1>5, <1>6, <1>7 DEF ClientNext, ClientIsDropped

\* A change of the model stays within the bound on revisions.
LEMMA RevisionKept ==
    ASSUME IInv, rev' = rev \/ (rev < MaxRev /\ rev' = rev + 1)
    PROVE  rev' \in 0..MaxRev
BY LongPollAssumption DEF IInv, TypeOK

\* A broadcast wakes the sleepers and puts nobody to sleep.
LEMMA BroadcastKeepsWaiters ==
    ASSUME NEW S, NEW w \in [S -> WaitState]
    PROVE  /\ CondBroadcast(w) \in [S -> WaitState]
           /\ \A c \in S : /\ CondBroadcast(w)[c] # "asleep"
                           /\ CondBroadcast(w)[c] = "awake" <=> w[c] = "awake"
BY DEF CondBroadcast, Signalled, WaitState

LEMMA ServerKeeps ==
    ASSUME IInv, ServerNext, holds' \in Nat PROVE TypeOK' /\ Ownership'
<1> USE LongPollAssumption
    DEF IInv, TypeOK, Ownership, clientVars, model, buffer, ServerPC
<1>1. CASE ServerTurn
  BY <1>1 DEF ServerTurn
<1>2. CASE ServerPollDeferred
  BY <1>2 DEF ServerPollDeferred
<1>3. CASE ServerTryTx
  BY <1>3 DEF ServerTryTx
<1>4. CASE ServerBroadcast
  BY <1>4, BroadcastKeepsWaiters DEF ServerBroadcast
<1>5. CASE ServerClearDeferred
  BY <1>5 DEF ServerClearDeferred
<1>6. CASE ServerRelock
  BY <1>6 DEF ServerRelock
<1>7. CASE ServerPeriodic
  <2>1. rev' = rev \/ (rev < MaxRev /\ rev' = rev + 1)
    BY <1>7 DEF ServerPeriodic
  <2>2. rev' \in 0..MaxRev
    BY <2>1, RevisionKept
  <2>3. owed' = owed \/ owed' = rev'
    BY <1>7 DEF ServerPeriodic
  <2>4. owed' \in 0..rev'
    BY <2>1, <2>2, <2>3
  <2>5. TypeOK'
    <3>1. pending' = TRUE \/ pending' = pending
      BY <1>7 DEF ServerPeriodic
    <3>2. pending' \in BOOLEAN
      BY <3>1
    <3> QED
      BY <1>7, <2>2, <2>4, <3>2 DEF ServerPeriodic
  <2>6. Ownership'
    BY <1>7, <2>2 DEF ServerPeriodic
  <2> QED
    BY <2>5, <2>6
<1>8. CASE ServerPeriodicNotify
  BY <1>8, BroadcastKeepsWaiters DEF ServerPeriodicNotify
<1>9. CASE ServerSleeps
  BY <1>9 DEF ServerSleeps
<1>10. CASE ServerTakes
  BY <1>10 DEF ServerTakes
<1>11. CASE ServerUpdates
  <2>1. rev' = rev \/ (rev < MaxRev /\ rev' = rev + 1)
    BY <1>11 DEF ServerUpdates
  <2>2. rev' \in 0..MaxRev
    BY <2>1, RevisionKept
  <2>3. pending' = TRUE \/ pending' = pending
    BY <1>11 DEF ServerUpdates
  <2>4. pending' \in BOOLEAN
    BY <2>3
  <2> QED
    BY <1>11, <2>2, <2>4 DEF ServerUpdates
<1>12. CASE ServerUnlocksModel
  BY <1>12 DEF ServerUnlocksModel
<1>13. CASE ServerReleasesEvents
  BY <1>13 DEF ServerReleasesEvents, ReleaseEvents
<1>14. CASE ServerUpdateDone
  BY <1>14 DEF ServerUpdateDone
<1>15. CASE ServerNotifies
  BY <1>15, BroadcastKeepsWaiters DEF ServerNotifies
<1>16. CASE ServerAnswers
  BY <1>16 DEF ServerAnswers
<1>17. CASE ServerFinishes
  BY <1>17 DEF ServerFinishes
<1> QED
  BY <1>1, <1>2, <1>3, <1>4, <1>5, <1>6, <1>7, <1>8, <1>9, <1>10, <1>11, <1>12,
     <1>13, <1>14, <1>15, <1>16, <1>17 DEF ServerNext

LEMMA WorkerKeeps ==
    ASSUME IInv, holds' \in Nat, NEW w \in Worker,
           WorkerUpdates(w) \/ WorkerLocksModel(w) \/ WorkerNext(w)
    PROVE  TypeOK' /\ Ownership'
<1> USE LongPollAssumption
    DEF IInv, TypeOK, Ownership, clientVars, serverVars, model, buffer,
        WorkerPC
<1>1. CASE WorkerUpdates(w)
  <2>1. rev < MaxRev /\ rev' = rev + 1
    BY <1>1 DEF WorkerUpdates
  <2>2. rev' \in 0..MaxRev
    BY <2>1, RevisionKept
  <2>3. pending' = TRUE \/ pending' = pending
    BY <1>1 DEF WorkerUpdates
  <2>4. pending' \in BOOLEAN
    BY <2>3
  <2> QED
    BY <1>1, <2>2, <2>4 DEF WorkerUpdates
<1>2. CASE WorkerLocksModel(w)
  BY <1>2 DEF WorkerLocksModel
<1>3. CASE WorkerUnlocksModel(w)
  BY <1>3 DEF WorkerUnlocksModel
<1>4. CASE WorkerReleasesEvents(w)
  BY <1>4 DEF WorkerReleasesEvents, ReleaseEvents
<1>5. CASE WorkerTriesTx(w)
  BY <1>5 DEF WorkerTriesTx
<1>6. CASE WorkerBroadcasts(w)
  BY <1>6, BroadcastKeepsWaiters DEF WorkerBroadcasts
<1>7. CASE WorkerDefers(w)
  BY <1>7 DEF WorkerDefers
<1> QED
  BY <1>1, <1>2, <1>3, <1>4, <1>5, <1>6, <1>7 DEF WorkerNext

LEMMA InitInv == ASSUME Init PROVE IInv
<1>1. TypeOK
  <2>1. 0 \in 0..MaxRev /\ 0 \in 0..MaxCalls
    BY LongPollAssumption
  <2>2. /\ cpc \in [Client -> ClientPC] /\ nWait \in [Client -> WaitState]
        /\ seen \in [Client -> 0..MaxRev] /\ calls \in [Client -> 0..MaxCalls]
        /\ wpc \in [Worker -> WorkerPC]
    BY <2>1 DEF Init, ClientPC, WorkerPC, WaitState
  <2>3. rev \in 0..MaxRev /\ owed \in 0..rev /\ holds \in Nat
    BY <2>1 DEF Init
  <2> QED
    BY <2>1, <2>2, <2>3 DEF Init, TypeOK, Query, ServerPC
<1>2. Ownership
  BY LongPollAssumption DEF Init, Ownership
<1>3. Holders = {}
  BY DEF Init, Holders
<1> QED
  BY <1>1, <1>2, <1>3, FS_EmptySet DEF Init, IInv, EventsHeldBack

LEMMA StepInv == ASSUME IInv, [Next]_vars PROVE IInv'
<1>1. EventsHeldBack' /\ holds' \in Nat
  BY HoldStep
<1>2. CASE Next
  BY <1>1, <1>2, ClientKeeps, ServerKeeps, WorkerKeeps DEF Next, IInv
<1>3. CASE UNCHANGED vars
  BY <1>1, <1>3 DEF IInv, TypeOK, Ownership, vars, buffer, clientVars,
     serverVars, model
<1> QED
  BY <1>2, <1>3

LEMMA Invariance == Spec => []IInv
<1>1. Init => IInv
  BY InitInv
<1>2. IInv /\ [Next]_vars => IInv'
  BY StepInv
<1> QED
  BY <1>1, <1>2, PTL DEF Spec

\* Every variable keeps its type; the counter of those that hold the events
\* back never becomes negative.
THEOREM TypeCorrect == Spec => []TypeOK
<1>1. IInv => TypeOK
  BY DEF IInv
<1> QED
  BY <1>1, Invariance, PTL

\* StateListenerHandler loses no event: while events are buffered there is a
\* thread that will deliver them.
THEOREM EventsAreDelivered == Spec => []EventsHeldBack
<1>1. IInv => EventsHeldBack
  BY DEF IInv
<1> QED
  BY <1>1, Invariance, PTL

-----------------------------------------------------------------------------
(* No leaky notification.                                                  *)

\* A request in the buffer has a client that waits for its answer with the
\* transaction lock, and so has the handler that deals with it.  While the
\* mainloop clears the flag, its broadcast has woken all.
Handling ==
    /\ exch = "asked" => txLock \in Client /\ cpc[txLock] = "asked"
    /\ spc \in {"update", "updated", "release", "updateDone", "notify",
                "answer"} => exch = "asked"
    /\ spc = "clear" => \A c \in Client : nWait[c] # "asleep"

\* Client c relies on a notification: it waits for one that a change of the
\* model makes due, or will wait once it reads an answer that is outdated.
Relies(c) ==
    \/ Stale(c)
    \/ cpc[c] = "asked" /\ exch = "answered" /\ reply < owed

NInv == IInv /\ Handling /\ \A c \in Client : Relies(c) => NotificationDue

LEMMA HandlingStep ==
    ASSUME IInv, IInv', Handling, Next PROVE Handling'
<1> USE LongPollAssumption
    DEF Handling, IInv, TypeOK, Ownership, clientVars, serverVars, model, buffer
<1>1. ASSUME NEW c \in Client,
             ClientCalls(c) \/ ClientNext(c) \/ ClientGivesUp(c) \/ LongPollEnds(c)
      PROVE  Handling'
  <2>1. CASE ClientCalls(c)
    BY <2>1 DEF ClientCalls
  <2>2. CASE ClientAsks(c)
    BY <2>2 DEF ClientAsks
  <2>3. CASE ClientReceives(c)
    BY <2>3 DEF ClientReceives
  <2>4. CASE ClientWaits(c)
    BY <2>4 DEF ClientWaits
  <2>5. CASE ClientWakes(c)
    BY <2>5 DEF ClientWakes
  <2>6. CASE ClientGivesUp(c)
    BY <2>6 DEF ClientGivesUp
  <2>7. CASE LongPollEnds(c)
    BY <2>7 DEF LongPollEnds
  <2> QED
    BY <1>1, <2>1, <2>2, <2>3, <2>4, <2>5, <2>6, <2>7
       DEF ClientNext, ClientIsDropped
<1>2. CASE ServerNext
  <2>1. CASE \/ ServerTurn \/ ServerPollDeferred \/ ServerTryTx
             \/ ServerClearDeferred \/ ServerRelock
    BY <2>1 DEF ServerTurn, ServerPollDeferred, ServerTryTx,
                ServerClearDeferred, ServerRelock
  <2>2. CASE ServerBroadcast
    BY <2>2, BroadcastKeepsWaiters DEF ServerBroadcast
  <2>3. CASE ServerPeriodic \/ ServerSleeps
    BY <2>3 DEF ServerPeriodic, ServerSleeps
  <2>7. CASE ServerPeriodicNotify
    BY <2>7, BroadcastKeepsWaiters DEF ServerPeriodicNotify
  <2>4. CASE ServerTakes \/ ServerUpdates \/ ServerUnlocksModel
    BY <2>4 DEF ServerTakes, ServerUpdates, ServerUnlocksModel
  <2>5. CASE ServerReleasesEvents \/ ServerUpdateDone
    BY <2>5 DEF ServerReleasesEvents, ServerUpdateDone
  <2>6. CASE ServerNotifies \/ ServerAnswers \/ ServerFinishes
    BY <2>6 DEF ServerNotifies, ServerAnswers, ServerFinishes
  <2> QED
    BY <1>2, <2>1, <2>2, <2>3, <2>4, <2>5, <2>6, <2>7 DEF ServerNext
<1>3. ASSUME NEW w \in Worker,
             WorkerUpdates(w) \/ WorkerLocksModel(w) \/ WorkerNext(w)
      PROVE  Handling'
  <2>1. CASE \/ WorkerUpdates(w) \/ WorkerLocksModel(w)
             \/ WorkerUnlocksModel(w) \/ WorkerReleasesEvents(w)
    BY <2>1 DEF WorkerUpdates, WorkerLocksModel, WorkerUnlocksModel,
                WorkerReleasesEvents
  <2>2. CASE WorkerTriesTx(w) \/ WorkerDefers(w)
    BY <2>2 DEF WorkerTriesTx, WorkerDefers
  <2>3. CASE WorkerBroadcasts(w)
    BY <2>3, BroadcastKeepsWaiters DEF WorkerBroadcasts
  <2> QED
    BY <1>3, <2>1, <2>2, <2>3 DEF WorkerNext
<1> QED
  BY <1>1, <1>2, <1>3 DEF Next

\* The broadcasts under the transaction lock.
Broadcasting == \/ ServerBroadcast \/ ServerNotifies
                \/ \E w \in Worker : WorkerBroadcasts(w)

\* After a broadcast no client relies on another one: those asleep are woken,
\* and nobody else can be on the way to sleep, because the transaction lock is
\* the notifier's or belongs to the client whose request is being handled.
LEMMA BroadcastReachesAll ==
    ASSUME IInv, Handling, Broadcasting, NEW c \in Client PROVE ~Relies(c)'
<1> USE LongPollAssumption
    DEF IInv, TypeOK, Ownership, Handling, Relies, Stale, buffer
<1>1. CASE ServerBroadcast
  BY <1>1, BroadcastKeepsWaiters DEF ServerBroadcast
<1>2. CASE ServerNotifies
  BY <1>2, BroadcastKeepsWaiters DEF ServerNotifies
<1>3. ASSUME NEW w \in Worker, WorkerBroadcasts(w) PROVE ~Relies(c)'
  BY <1>3, BroadcastKeepsWaiters DEF WorkerBroadcasts
<1> QED
  BY <1>1, <1>2, <1>3 DEF Broadcasting

\* A notification that is due stays due until the next broadcast.
LEMMA DueUntilBroadcast ==
    ASSUME IInv, Handling, Next, ~Broadcasting, NotificationDue
    PROVE  NotificationDue' \/ \A c \in Client : ~Relies(c)'
<1> USE LongPollAssumption
    DEF IInv, TypeOK, Ownership, NotificationDue, clientVars, serverVars, model
<1>1. ASSUME NEW c \in Client,
             ClientCalls(c) \/ ClientNext(c) \/ ClientGivesUp(c) \/ LongPollEnds(c)
      PROVE  NotificationDue'
  BY <1>1 DEF ClientCalls, ClientNext, ClientGivesUp, LongPollEnds, ClientAsks,
     ClientReceives, ClientWaits, ClientWakes, ClientIsDropped
<1>2. CASE ServerNext /\ spc # "clear"
  <2>1. CASE \/ ServerTurn \/ ServerPollDeferred \/ ServerTryTx \/ ServerRelock
             \/ ServerSleeps \/ ServerTakes \/ ServerFinishes
    BY <1>2, <2>1 DEF ServerTurn, ServerPollDeferred, ServerTryTx, ServerRelock,
       ServerSleeps, ServerTakes, ServerFinishes
  <2>2. CASE ServerPeriodic \/ ServerPeriodicNotify
    BY <1>2, <2>2 DEF ServerPeriodic, ServerPeriodicNotify
  <2>3. CASE ServerUpdates \/ ServerUnlocksModel
    BY <1>2, <2>3 DEF ServerUpdates, ServerUnlocksModel
  <2>4. CASE ServerReleasesEvents \/ ServerUpdateDone
    BY <1>2, <2>4 DEF ServerReleasesEvents, ServerUpdateDone
  <2>5. CASE ServerAnswers
    BY <1>2, <2>5 DEF ServerAnswers
  <2> QED
    BY <1>2, <2>1, <2>2, <2>3, <2>4, <2>5
       DEF ServerNext, Broadcasting, ServerClearDeferred
<1>3. CASE ServerNext /\ spc = "clear"
  <2>1. ServerClearDeferred
    BY <1>3 DEF ServerNext, ServerTurn, ServerPollDeferred, ServerTryTx,
       ServerBroadcast, ServerRelock, ServerPeriodic, ServerPeriodicNotify,
       ServerSleeps, ServerTakes, ServerUpdates, ServerUnlocksModel,
       ServerReleasesEvents, ServerUpdateDone, ServerNotifies, ServerAnswers,
       ServerFinishes
  <2> QED
    BY <1>3, <2>1 DEF ServerClearDeferred, Handling, Relies, Stale, buffer
<1>4. ASSUME NEW w \in Worker,
             WorkerUpdates(w) \/ WorkerLocksModel(w) \/ WorkerNext(w),
             ~WorkerBroadcasts(w)
      PROVE  NotificationDue' \/ \A c \in Client : ~Relies(c)'
  <2>1. CASE WorkerUpdates(w) \/ WorkerLocksModel(w) \/ WorkerUnlocksModel(w)
    BY <2>1 DEF WorkerUpdates, WorkerLocksModel, WorkerUnlocksModel
  <2>2. CASE WorkerReleasesEvents(w)
    <3>1. CASE EventsDelivered /\ ~updateOngoing
      BY <2>2, <3>1 DEF WorkerReleasesEvents, WorkerPC
    <3>2. CASE updateOngoing
      BY <2>2, <3>2 DEF WorkerReleasesEvents
    <3>3. CASE ~EventsDelivered
      <4>1. wpc[w] = "release" /\ w \in Holders
        BY <2>2 DEF WorkerReleasesEvents, Holders
      <4>2. holds \in Nat /\ holds # 0
        BY <4>1, HoldersFinite, FS_EmptySet DEF EventsHeldBack
      <4>3. pending => pending'
        <5>1. pending => holds > 1
          BY <3>3, <4>2 DEF EventsDelivered
        <5>2. ReleaseEvents
          BY <2>2 DEF WorkerReleasesEvents
        <5> QED
          BY <5>1, <5>2, Zenon DEF ReleaseEvents
      <4> QED
        BY <2>2, <4>1, <4>3 DEF WorkerReleasesEvents
    <3> QED
      BY <3>1, <3>2, <3>3
  <2>3. CASE WorkerTriesTx(w)
    BY <2>3 DEF WorkerTriesTx
  <2>4. CASE WorkerDefers(w)
    BY <2>4 DEF WorkerDefers, Handling, Relies, Stale, buffer
  <2> QED
    BY <1>4, <2>1, <2>2, <2>3, <2>4 DEF WorkerNext
<1> QED
  BY <1>1, <1>2, <1>3, <1>4 DEF Next, Broadcasting

\* Whoever changes the model, but for Job::periodic when nothing is held back,
\* makes a notification due in the same step.
LEMMA ChangeIsNotified ==
    ASSUME IInv, Next, owed' # owed PROVE NotificationDue'
<1> USE DEF IInv, TypeOK, Ownership, NotificationDue, model
<1>1. CASE ServerUpdates
  BY <1>1 DEF ServerUpdates
<1>2. ASSUME NEW w \in Worker, WorkerUpdates(w) PROVE NotificationDue'
  <2>1. \/ pending' = TRUE
        \/ updateOngoing' /\ updateOngoing
        \/ wpc' = [wpc EXCEPT ![w] = "notify"]
    BY <1>2, Zenon DEF WorkerUpdates, serverVars
  <2>2. wpc' = [wpc EXCEPT ![w] = "notify"] => wpc'[w] = "notify"
    OBVIOUS
  <2> QED
    BY <2>1, <2>2
<1>3. ASSUME NEW w \in Worker, WorkerLocksModel(w) PROVE NotificationDue'
  BY <1>3 DEF WorkerLocksModel
<1>4. CASE ServerPeriodic
  BY <1>4 DEF ServerPeriodic
<1> QED
  BY <1>1, <1>2, <1>3, <1>4 DEF Next, ServerNext, WorkerNext, ClientCalls, ClientNext,
     ClientGivesUp, LongPollEnds, ClientAsks, ClientReceives, ClientWaits,
     ClientWakes, ClientIsDropped, ServerTurn, ServerPollDeferred, ServerTryTx,
     ServerBroadcast, ServerClearDeferred, ServerRelock,
     ServerPeriodicNotify, ServerSleeps, ServerTakes, ServerUnlocksModel,
     ServerReleasesEvents, ServerUpdateDone, ServerNotifies, ServerAnswers,
     ServerFinishes, WorkerUnlocksModel, WorkerReleasesEvents, WorkerTriesTx,
     WorkerBroadcasts, WorkerDefers

\* As long as nothing more is owed no other client comes to rely on a
\* notification: the answer that sends a client to sleep was already outdated
\* when it relied on it unread.
LEMMA ReliesBefore ==
    ASSUME IInv, Next, owed' = owed, NEW c \in Client, Relies(c)'
    PROVE  Relies(c) \/ Broadcasting
<1> USE DEF IInv, TypeOK, Ownership, Relies, Stale, model, buffer, clientVars
<1>1. ASSUME NEW d \in Client,
             ClientCalls(d) \/ ClientNext(d) \/ ClientGivesUp(d) \/ LongPollEnds(d)
      PROVE  Relies(c)
  <2>1. CASE ClientReceives(d)
    BY <2>1 DEF ClientReceives
  <2>2. CASE ClientCalls(d) \/ ClientAsks(d) \/ ClientGivesUp(d)
    BY <2>2 DEF ClientCalls, ClientAsks, ClientGivesUp
  <2>3. CASE ClientWaits(d) \/ ClientWakes(d) \/ LongPollEnds(d)
    BY <2>3 DEF ClientWaits, ClientWakes, LongPollEnds
  <2> QED
    BY <1>1, <2>1, <2>2, <2>3 DEF ClientNext, ClientIsDropped
<1>2. CASE ServerNext /\ ~Broadcasting
  <2>1. CASE ServerAnswers
    BY <2>1 DEF ServerAnswers
  <2>2. CASE UNCHANGED clientVars /\ (exch' # "answered" \/ UNCHANGED <<exch, reply>>)
    BY <2>2
  <2>3. CASE ServerPeriodicNotify
    BY <2>3, BroadcastKeepsWaiters DEF ServerPeriodicNotify
  <2> QED
    BY <1>2, <2>1, <2>2, <2>3 DEF Broadcasting, ServerNext, ServerTurn,
       ServerPollDeferred, ServerTryTx, ServerClearDeferred, ServerRelock,
       ServerPeriodic, ServerSleeps, ServerTakes, ServerUpdates,
       ServerUnlocksModel, ServerReleasesEvents, ServerUpdateDone,
       ServerFinishes
<1>3. CASE \E w \in Worker : /\ \/ WorkerUpdates(w) \/ WorkerLocksModel(w)
                                \/ WorkerNext(w)
                             /\ ~WorkerBroadcasts(w)
  <2>1. UNCHANGED <<clientVars, exch, reply>>
    BY <1>3 DEF WorkerUpdates, WorkerLocksModel, WorkerNext, WorkerUnlocksModel,
       WorkerReleasesEvents, WorkerTriesTx, WorkerDefers
  <2> QED
    BY <2>1
<1> QED
  BY <1>1, <1>2, <1>3 DEF Next, Broadcasting

LEMMA NotificationStep ==
    ASSUME NInv, [Next]_vars PROVE NInv'
<1>1. IInv'
  BY StepInv DEF NInv
<1>2. CASE Next
  <2>1. Handling'
    BY <1>1, <1>2, HandlingStep DEF NInv
  <2>2. ASSUME NEW c \in Client, Relies(c)' PROVE NotificationDue'
    <3>1. ~Broadcasting
      BY <2>2, BroadcastReachesAll DEF NInv
    <3>2. CASE owed' # owed
      BY <1>2, <3>2, ChangeIsNotified DEF NInv
    <3>3. CASE owed' = owed
      <4>1. NotificationDue
        BY <1>2, <2>2, <3>1, <3>3, ReliesBefore DEF NInv
      <4> QED
        BY <1>2, <2>2, <3>1, <4>1, DueUntilBroadcast DEF NInv
    <3> QED
      BY <3>2, <3>3
  <2> QED
    BY <1>1, <2>1, <2>2 DEF NInv
<1>3. CASE UNCHANGED vars
  BY <1>1, <1>3 DEF NInv, Handling, Relies, Stale, NotificationDue, vars, buffer,
     clientVars, serverVars, model
<1> QED
  BY <1>2, <1>3

\* A client never waits for a change that already happened without a
\* notification coming, unless Job::periodic has made and announced it: the deferred notification of the mainloop closes the gap that the
\* missing common lock leaves.
THEOREM NotificationsDoNotLeak ==
    Spec => []NoLeakyNotification
<1>1. Init => NInv
  <2>1. ASSUME Init PROVE Handling /\ \A c \in Client : ~Relies(c)
    BY <2>1 DEF Init, Handling, Relies, Stale
  <2> QED
    BY <2>1, InitInv DEF NInv
<1>2. NInv /\ [Next]_vars => NInv'
  BY NotificationStep
<1>3. NInv => NoLeakyNotification
  BY DEF NInv, NoLeakyNotification, Relies
<1> QED
  BY <1>1, <1>2, <1>3, PTL DEF Spec

-----------------------------------------------------------------------------
(* No circle of waiting.                                                   *)

\* An answer, read or unread, is in the buffer only while the mainloop waits for
\* the end of the exchange: it goes to sleep with a buffer that is ready, or
\* that a client has left with a request or an error.
Settled == exch \in {"answered", "done"} => spc = "fin"

WInv == IInv /\ Handling /\ Settled

LEMMA SettledStep == ASSUME WInv, Next PROVE Settled'
<1> USE DEF WInv, Settled, serverVars, buffer
<1>1. ASSUME NEW c \in Client,
             ClientCalls(c) \/ ClientNext(c) \/ ClientGivesUp(c) \/ LongPollEnds(c)
      PROVE  Settled'
  BY <1>1 DEF ClientCalls, ClientNext, ClientGivesUp, LongPollEnds, ClientAsks,
     ClientReceives, ClientWaits, ClientWakes, ClientIsDropped
<1>2. CASE ServerNext
  <2>1. CASE \/ ServerTurn \/ ServerPollDeferred \/ ServerTryTx
             \/ ServerBroadcast \/ ServerClearDeferred \/ ServerRelock
    BY <2>1 DEF ServerTurn, ServerPollDeferred, ServerTryTx, ServerBroadcast,
                ServerClearDeferred, ServerRelock
  <2>2. CASE \/ ServerPeriodic \/ ServerPeriodicNotify \/ ServerSleeps
             \/ ServerTakes \/ ServerUpdates \/ ServerUnlocksModel
    BY <2>2 DEF ServerPeriodic, ServerPeriodicNotify, ServerSleeps,
                ServerTakes, ServerUpdates, ServerUnlocksModel
  <2>3. CASE \/ ServerReleasesEvents \/ ServerUpdateDone \/ ServerNotifies
             \/ ServerAnswers \/ ServerFinishes
    BY <2>3 DEF ServerReleasesEvents, ServerUpdateDone, ServerNotifies,
                ServerAnswers, ServerFinishes
  <2> QED
    BY <1>2, <2>1, <2>2, <2>3 DEF ServerNext
<1>3. ASSUME NEW w \in Worker,
             WorkerUpdates(w) \/ WorkerLocksModel(w) \/ WorkerNext(w)
      PROVE  Settled'
  BY <1>3 DEF WorkerUpdates, WorkerLocksModel, WorkerNext, WorkerUnlocksModel,
     WorkerReleasesEvents, WorkerTriesTx, WorkerBroadcasts, WorkerDefers
<1> QED
  BY <1>1, <1>2, <1>3 DEF Next

LEMMA WaitingStep == ASSUME WInv, [Next]_vars PROVE WInv'
<1>1. IInv'
  BY StepInv DEF WInv
<1>2. CASE Next
  BY <1>1, <1>2, HandlingStep, SettledStep DEF WInv
<1>3. CASE UNCHANGED vars
  BY <1>1, <1>3 DEF WInv, Handling, Settled, vars, buffer, clientVars, serverVars
<1> QED
  BY <1>2, <1>3

\* A thread that can go on is its own blocker.
LEMMA GoesOn ==
    ASSUME NEW t, CanGoOn(t) PROVE CanGoOn(Blocker(t)) /\ Blocker(t) = t
BY DEF Blocker

\* Whoever has the model needs no lock: the worker only tries the other one, and
\* the server has all that it needs.
LEMMA ModelIsFreed ==
    ASSUME WInv, modelLock # "none"
    PROVE  CanGoOn(modelLock)
<1> USE LongPollAssumption DEF WInv, IInv, TypeOK, Ownership, CanGoOn
<1>1. CASE modelLock = "server"
  BY <1>1 DEF ServerCan
<1>2. CASE modelLock \in Worker
  BY <1>2 DEF WorkerCan
<1> QED
  BY <1>1, <1>2

\* So the server and the workers wait for one that can go on, if at all.
LEMMA OneLink ==
    ASSUME WInv, NEW t \in Worker \cup {"server"}
    PROVE  CanGoOn(Blocker(t))
<1>1. CASE CanGoOn(t)
  BY <1>1, GoesOn
<1>2. CASE ~CanGoOn(t)
  <2>1. t \notin Client /\ Blocker(t) = modelLock
    BY <1>2, LongPollAssumption DEF Blocker
  <2>2. modelLock # "none"
    <3>1. CASE t \in Worker
      BY <1>2, <3>1 DEF CanGoOn, WorkerCan
    <3>2. CASE t = "server"
      BY <1>2, <3>2 DEF CanGoOn, ServerCan, WInv, IInv, TypeOK, Ownership, Settled
    <3> QED
      BY <3>1, <3>2
  <2> QED
    BY <2>1, <2>2, ModelIsFreed
<1> QED
  BY <1>1, <1>2

\* The client in the transaction waits for the server alone.
LEMMA TwoLinks ==
    ASSUME WInv, NEW t \in Thread, t \in Client => cpc[t] \notin {"out", "waiting"}
    PROVE  CanGoOn(Blocker(Blocker(t)))
<1>1. CASE CanGoOn(Blocker(t))
  BY <1>1, GoesOn
<1>2. CASE ~CanGoOn(Blocker(t))
  <2>1. t \in Client
    BY <1>2, OneLink DEF Thread
  <2>2. Blocker(t) = "server"
    BY <1>2, <2>1, GoesOn DEF Blocker
  <2> QED
    BY <2>2, OneLink
<1> QED
  BY <1>1, <1>2

\* No circle of waiting among any number of clients and workers: from every
\* thread it is three steps at most, by who has the lock that is wanted, to one
\* that needs nothing but its turn.  It is so because ipc_msg_server_notify only
\* tries the transaction lock.
THEOREM NobodyGetsStuck == Spec => []NobodyIsStuck
<1>1. Init => WInv
  <2>1. ASSUME Init PROVE Handling /\ Settled
    BY <2>1 DEF Init, Handling, Settled
  <2> QED
    BY <2>1, InitInv DEF WInv
<1>2. WInv /\ [Next]_vars => WInv'
  BY WaitingStep
<1>3. WInv => NobodyIsStuck
  <2> SUFFICES ASSUME WInv, NEW t \in Thread
               PROVE  CanGoOn(Blocker(Blocker(Blocker(t))))
    BY DEF NobodyIsStuck
  <2>1. CASE t \in Client /\ cpc[t] \in {"out", "waiting"}
    <3>1. CASE CanGoOn(t)
      BY <3>1, GoesOn
    <3>2. CASE ~CanGoOn(t)
      <4>1. Blocker(t) = txLock
        BY <2>1, <3>2 DEF Blocker
      <4>2. txLock # "none"
        BY <2>1, <3>2 DEF CanGoOn, ClientCan
      <4>3. txLock \in Thread
        BY <4>2 DEF WInv, IInv, TypeOK, Thread
      <4>4. txLock \in Client => cpc[txLock] \notin {"out", "waiting"}
        BY DEF WInv, IInv, Ownership
      <4> QED
        BY <4>1, <4>3, <4>4, TwoLinks
    <3> QED
      BY <3>1, <3>2
  <2>2. CASE ~(t \in Client /\ cpc[t] \in {"out", "waiting"})
    BY <2>2, TwoLinks, GoesOn
  <2> QED
    BY <2>1, <2>2
<1> QED
  BY <1>1, <1>2, <1>3, PTL DEF Spec
=============================================================================
