------------------------ MODULE IpcMessenger_proofs ------------------------
(***************************************************************************)
(* The two locks of the messenger protect what they should, for any number *)
(* of clients, calls and parts and any combination of failures.            *)
(***************************************************************************)
EXTENDS IpcMessenger, TLAPS

\* The bookkeeping of parts.  A part that has a successor is not the last one
\* there may be, and a consumer looks at the part its thread expects, because
\* nobody writes to the buffer while another thread has the operation lock.
\* The signal thread is there once the mainloop runs.
PartsKept ==
    /\ more => part < MaxPart
    /\ spc = "sendWait" => sPart < MaxPart
    /\ spc \in {"send", "sendWait"} => sGot # <<>>
    /\ spc = "start" => bpc = "absent"
    /\ \A c \in Client : /\ cpc[c] = "consume" => part = cPart[c]
                         /\ cpc[c] # "out" => call[c] # 0

IInv == TypeOK /\ LockDiscipline /\ PartsKept

-----------------------------------------------------------------------------
(* Condition variables.                                                    *)

\* pthread_cond_signal puts nobody to sleep and wakes nobody who is awake: a
\* thread is in its wait afterwards if and only if it was before.
LEMMA CondSignalKeepsWaiters ==
    ASSUME NEW S, NEW w \in [S -> WaitState], NEW v \in CondSignal(w)
    PROVE  /\ v \in [S -> WaitState]
           /\ \A c \in S : v[c] = "awake" <=> w[c] = "awake"
BY DEF CondSignal, WaitState

\* The same for the two signals of a server that aborts and starts over.
LEMMA CondSignalTwice ==
    ASSUME NEW S, NEW w \in [S -> WaitState],
           NEW u \in CondSignal(w), NEW v \in CondSignal(u)
    PROVE  /\ v \in [S -> WaitState]
           /\ \A c \in S : v[c] = "awake" <=> w[c] = "awake"
<1>1. /\ u \in [S -> WaitState]
      /\ \A c \in S : u[c] = "awake" <=> w[c] = "awake"
  BY CondSignalKeepsWaiters
<1>2. /\ v \in [S -> WaitState]
      /\ \A c \in S : v[c] = "awake" <=> u[c] = "awake"
  BY <1>1, CondSignalKeepsWaiters
<1> QED
  BY <1>1, <1>2

\* However an iteration ends, the clients that wait are those that waited, and
\* the mainloop has the operation lock only if it is about to join.
LEMMA EndIterationEffect ==
    ASSUME TypeOK, NEW ret, NEW stillRunning, NEW waits,
           waits = {cWait} \/ waits = CondSignal(cWait),
           EndIteration(ret, stillRunning, waits)
    PROVE  /\ cWait' \in [Client -> WaitState]
           /\ \A c \in Client : cWait'[c] = "awake" <=> cWait[c] = "awake"
           /\ sPart' = 0 /\ sGot' = <<>>
           /\ state' \in {"READY", "DONE"}
           /\ sPred' \in BOOLEAN
           /\ sWait' \in {"awake", "asleep"}
           /\ \/ spc' = "idle" /\ opLock' = "none"
              \/ spc' = "join" /\ opLock' = "server"
<1>1. cWait \in [Client -> WaitState] /\ sPred \in BOOLEAN
  BY DEF TypeOK
<1>2. \A w \in waits : /\ w \in [Client -> WaitState]
                       /\ \A c \in Client : w[c] = "awake" <=> cWait[c] = "awake"
  BY <1>1, CondSignalKeepsWaiters
<1>3. \A w \in waits : \A v \in CondSignal(w) :
          /\ v \in [Client -> WaitState]
          /\ \A c \in Client : v[c] = "awake" <=> cWait[c] = "awake"
  <2> TAKE w \in waits
  <2> TAKE v \in CondSignal(w)
  <2>1. /\ v \in [Client -> WaitState]
        /\ \A c \in Client : v[c] = "awake" <=> w[c] = "awake"
    BY <1>2, CondSignalKeepsWaiters
  <2> QED
    BY <1>2, <2>1
<1>4. CASE ret > -2 /\ stillRunning
  <2>1. PICK w \in waits : cWait' \in CondSignal(w)
    BY <1>4 DEF EndIteration
  <2> QED
    BY <1>3, <1>4, <2>1 DEF EndIteration
<1>5. CASE ~(ret > -2 /\ stillRunning)
  BY <1>1, <1>2, <1>5 DEF EndIteration
<1> QED
  BY <1>4, <1>5

\* Counting at one more place leaves a table of counts.
LEMMA CountKept ==
    ASSUME NEW S, NEW f \in [S -> Nat], NEW x
    PROVE  [f EXCEPT ![x] = @ + 1] \in [S -> Nat]
<1>1. CASE x \in S
  BY <1>1
<1>2. CASE x \notin S
  <2>1. [f EXCEPT ![x] = @ + 1] = f
    BY <1>2
  <2> QED
    BY <2>1
<1> QED
  BY <1>1, <1>2

-----------------------------------------------------------------------------
(* The mainloop thread keeps the invariant.                                *)

\* An action of the mainloop that ends the iteration keeps the invariant.
LEMMA EndIterationKeeps ==
    ASSUME IInv, opLock \in {"none", "server"},
           NEW ret, NEW stillRunning, NEW waits,
           waits = {cWait} \/ waits = CondSignal(cWait),
           EndIteration(ret, stillRunning, waits),
           running' \in BOOLEAN, cPred' \in BOOLEAN,
           bpc' \in BreakPC, (bpc' = "lockOp") <=> (bpc = "lockOp"),
           UNCHANGED <<txLock, part, more, payload, cpc, cPart, cGot, call,
                       result, executed>>
    PROVE  IInv'
<1> USE MessengerAssumption
<1>1. /\ cWait' \in [Client -> WaitState]
      /\ \A c \in Client : cWait'[c] = "awake" <=> cWait[c] = "awake"
      /\ sPart' = 0 /\ sGot' = <<>>
      /\ state' \in {"READY", "DONE"}
      /\ sPred' \in BOOLEAN
      /\ sWait' \in {"awake", "asleep"}
      /\ \/ spc' = "idle" /\ opLock' = "none"
         \/ spc' = "join" /\ opLock' = "server"
  BY EndIterationEffect DEF IInv
<1>2. TypeOK'
  BY <1>1 DEF IInv, TypeOK, Owner, MsgState, ServerPC, WaitState
<1>3. LockDiscipline'
  BY <1>1 DEF IInv, TypeOK, LockDiscipline, ServerHoldsOp, ClientHoldsOp,
              InTransaction
<1>4. PartsKept'
  BY <1>1 DEF IInv, PartsKept
<1> QED
  BY <1>2, <1>3, <1>4 DEF IInv

\* An abort only adds a signal to that.
LEMMA ServerAbortKeeps ==
    ASSUME IInv, opLock \in {"none", "server"}, NEW ret, ServerAbort(ret),
           UNCHANGED <<txLock, cpc, cPart, cGot, call, result, bpc, executed>>
    PROVE  IInv'
<1>1. /\ EndIteration(ret, running, CondSignal(cWait))
      /\ running' \in BOOLEAN /\ cPred' \in BOOLEAN /\ bpc' \in BreakPC
      /\ UNCHANGED <<part, more, payload>>
  BY DEF ServerAbort, IInv, TypeOK
<1> QED
  BY <1>1, EndIterationKeeps

LEMMA ServerStartKeeps == ASSUME IInv, ServerStart PROVE IInv'
<1>1. /\ opLock = "none"
      /\ EndIteration(0, TRUE, {cWait})
      /\ running' \in BOOLEAN /\ cPred' \in BOOLEAN /\ bpc' \in BreakPC
      /\ bpc' # "lockOp" /\ bpc # "lockOp"
  BY DEF ServerStart, IInv, TypeOK, PartsKept, BreakPC
<1> QED
  BY <1>1, EndIterationKeeps DEF ServerStart

LEMMA SleepAgainKeeps ==
    ASSUME IInv, SleepAgain,
           UNCHANGED <<cpc, cPart, cGot, call, result, bpc, executed>>
    PROVE  IInv'
BY DEF IInv, SleepAgain, TypeOK, LockDiscipline, PartsKept, locks, header,
       ServerHoldsOp, ClientHoldsOp, InTransaction, WaitState

LEMMA ServerPollKeeps == ASSUME IInv, ServerPoll PROVE IInv'
<1>1. opLock = "none" /\ spc = "idle"
  BY DEF ServerPoll, ServerWakes
<1>2. CASE SleepAgain
  BY <1>2, SleepAgainKeeps DEF ServerPoll
<1>3. CASE /\ running' = FALSE /\ sWait' = "asleep"
           /\ UNCHANGED <<locks, state, part, more, payload, sPred, cPred, spc,
                          sPart, sGot, cWait>>
  BY <1>3 DEF ServerPoll, IInv, TypeOK, LockDiscipline, PartsKept, locks,
              ServerHoldsOp, ClientHoldsOp, InTransaction, WaitState
<1>4. CASE /\ EndIteration(-2, running, {cWait})
           /\ UNCHANGED <<txLock, part, more, payload, running, cPred>>
  <2>1. running' \in BOOLEAN /\ cPred' \in BOOLEAN /\ bpc' \in BreakPC
    BY <1>4 DEF ServerPoll, IInv, TypeOK
  <2> QED
    BY <1>1, <1>4, <2>1, EndIterationKeeps DEF ServerPoll
<1> QED
  BY <1>2, <1>3, <1>4 DEF ServerPoll

LEMMA ServerEventKeeps == ASSUME IInv, ServerEvent PROVE IInv'
<1>1. opLock = "none" /\ spc = "idle"
  BY DEF ServerEvent, ServerWakes
<1>2. ASSUME NEW ret, EndIteration(ret, running, {cWait}),
             UNCHANGED <<part, more, payload, running, cPred>>
      PROVE  IInv'
  <2>1. running' \in BOOLEAN /\ cPred' \in BOOLEAN /\ bpc' \in BreakPC
    BY <1>2 DEF ServerEvent, IInv, TypeOK
  <2> QED
    BY <1>1, <1>2, <2>1, EndIterationKeeps DEF ServerEvent
<1>3. CASE ServerAbort(-1)
  BY <1>1, <1>3, ServerAbortKeeps DEF ServerEvent
<1>4. CASE /\ spc' = "recv" /\ sWait' = "awake" /\ opLock' = "server"
           /\ UNCHANGED <<header, sPart, sGot, cWait>>
  BY <1>1, <1>4, MessengerAssumption
     DEF ServerEvent, IInv, TypeOK, LockDiscipline, PartsKept, header, Owner,
         ServerPC, WaitState, ServerHoldsOp, ClientHoldsOp, InTransaction
<1> QED
  BY <1>2, <1>3, <1>4 DEF ServerEvent

LEMMA ServerConsumeKeeps == ASSUME IInv, ServerConsume PROVE IInv'
<1>1. opLock = "server" /\ spc = "recv"
  BY DEF ServerConsume, IInv, LockDiscipline, ServerHoldsOp
<1>2. ASSUME NEW ret, ServerAbort(ret), UNCHANGED executed
      PROVE  IInv'
  BY <1>1, <1>2, ServerAbortKeeps DEF ServerConsume
<1>3. /\ sGot \in Seq(Piece) /\ payload \in Piece
      /\ executed \in [Id -> Nat] /\ running \in BOOLEAN
  BY DEF IInv, TypeOK
<1>4. CASE /\ more
           /\ sGot' = Append(sGot, payload)
           /\ cPred' = TRUE
           /\ cWait' \in CondSignal(cWait)
           /\ ServerWaits("recvWait")
           /\ UNCHANGED <<state, part, more, payload, running, sPart, executed>>
  <2>1. /\ cWait' \in [Client -> WaitState]
        /\ \A c \in Client : cWait'[c] = "awake" <=> cWait[c] = "awake"
    <3>1. cWait \in [Client -> WaitState] /\ cWait' \in CondSignal(cWait)
      BY <1>4 DEF IInv, TypeOK
    <3> QED
      BY <3>1, CondSignalKeepsWaiters
  <2>2. sGot' \in Seq(Piece)
    BY <1>3, <1>4
  <2>3. TypeOK'
    BY <1>4, <2>1, <2>2 DEF ServerConsume, ServerWaits, IInv, TypeOK, Owner,
                            ServerPC, WaitState
  <2>4. LockDiscipline'
    BY <1>1, <1>4, <2>1, MessengerAssumption
       DEF ServerConsume, ServerWaits, IInv, TypeOK, LockDiscipline,
           ServerHoldsOp, ClientHoldsOp, InTransaction
  <2>5. PartsKept'
    BY <1>4 DEF ServerConsume, ServerWaits, IInv, PartsKept
  <2> QED
    BY <2>3, <2>4, <2>5 DEF IInv
<1>5. CASE /\ ~more
           /\ sGot' = Append(sGot, payload)
           /\ executed' = [executed EXCEPT ![payload.id] = @ + 1]
           /\ running' \in {running} \cup {FALSE : f \in Faults \cap {"break"}}
           /\ state' = "S2C"
           /\ spc' = "send" /\ sPart' = 0
           /\ UNCHANGED <<opLock, part, more, payload, sPred, cPred, sWait, cWait>>
  <2>1. executed' \in [Id -> Nat]
    <3>1. executed' = [executed EXCEPT ![payload.id] = @ + 1]
      BY <1>5
    <3> QED
      BY <1>3, <3>1, CountKept
  <2>2. sGot' \in Seq(Piece) /\ sGot' # <<>> /\ running' \in BOOLEAN
    <3>1. sGot' \in Seq(Piece) /\ sGot' # <<>>
      BY <1>3, <1>5
    <3> QED
      BY <1>3, <1>5, <3>1
  <2>3. TypeOK'
    BY <1>5, <2>1, <2>2, MessengerAssumption
       DEF ServerConsume, IInv, TypeOK, MsgState, ServerPC
  <2>4. LockDiscipline'
    BY <1>1, <1>5 DEF ServerConsume, IInv, TypeOK, LockDiscipline,
                      ServerHoldsOp, ClientHoldsOp, InTransaction
  <2>5. PartsKept'
    BY <1>5, <2>2 DEF ServerConsume, IInv, PartsKept
  <2> QED
    BY <2>3, <2>4, <2>5 DEF IInv
<1> QED
  BY <1>2, <1>4, <1>5 DEF ServerConsume

LEMMA ServerRecvNextKeeps == ASSUME IInv, ServerRecvNext PROVE IInv'
<1>1. opLock = "none" /\ spc = "recvWait"
  BY DEF ServerRecvNext, ServerWakes
<1>2. CASE /\ EndIteration(-1, running, {cWait})
           /\ UNCHANGED <<part, more, payload, running, cPred>>
  <2>1. running' \in BOOLEAN /\ cPred' \in BOOLEAN /\ bpc' \in BreakPC
    BY <1>2 DEF ServerRecvNext, IInv, TypeOK
  <2> QED
    BY <1>1, <1>2, <2>1, EndIterationKeeps DEF ServerRecvNext
<1>3. CASE SleepAgain
  BY <1>3, SleepAgainKeeps DEF ServerRecvNext
<1>4. CASE ServerAbort(-1)
  BY <1>1, <1>4, ServerAbortKeeps DEF ServerRecvNext
<1>5. CASE /\ state = "C2S" /\ part = sPart + 1
           /\ spc' = "recv" /\ sPart' = sPart + 1
           /\ sWait' = "awake" /\ opLock' = "server"
           /\ UNCHANGED <<header, sGot, cWait>>
  BY <1>1, <1>5, MessengerAssumption
     DEF ServerRecvNext, IInv, TypeOK, LockDiscipline, PartsKept, header,
         Owner, ServerPC, WaitState, ServerHoldsOp, ClientHoldsOp, InTransaction
<1> QED
  BY <1>2, <1>3, <1>4, <1>5 DEF ServerRecvNext

LEMMA ServerProduceKeeps == ASSUME IInv, ServerProduce PROVE IInv'
<1>1. opLock = "server" /\ spc = "send" /\ sGot # <<>>
  BY DEF ServerProduce, IInv, LockDiscipline, ServerHoldsOp, PartsKept
<1>2. ASSUME NEW ret, ServerAbort(ret) PROVE IInv'
  BY <1>1, <1>2, ServerAbortKeeps DEF ServerProduce
<1>3. ASSUME NEW m \in BOOLEAN,
             m => sPart < MaxPart,
             part' = sPart, more' = m,
             payload' = [id |-> Head(sGot).id, part |-> sPart, last |-> ~m],
             cPred' = TRUE,
             cWait' \in CondSignal(cWait),
             \/ m /\ ServerWaits("sendWait")
             \/ /\ ~m
                /\ spc' = "fin" /\ sWait' = "asleep" /\ opLock' = "none"
                /\ UNCHANGED sPred,
             UNCHANGED <<state, running, sPart, sGot>>
      PROVE  IInv'
  <2>1. /\ cWait' \in [Client -> WaitState]
        /\ \A c \in Client : cWait'[c] = "awake" <=> cWait[c] = "awake"
    <3>1. cWait \in [Client -> WaitState] /\ cWait' \in CondSignal(cWait)
      BY <1>3 DEF IInv, TypeOK
    <3> QED
      BY <3>1, CondSignalKeepsWaiters
  <2>2. payload' \in Piece
    <3>1. Head(sGot) \in Piece
      BY <1>1 DEF IInv, TypeOK
    <3> QED
      BY <1>3, <3>1 DEF IInv, TypeOK, Piece
  <2>3. /\ spc' \in {"sendWait", "fin"} /\ sWait' = "asleep" /\ opLock' = "none"
        /\ sPred' \in BOOLEAN
        /\ spc' = "sendWait" => m
    BY <1>3 DEF ServerWaits, IInv, TypeOK
  <2>4. TypeOK'
    BY <1>3, <2>1, <2>2, <2>3
       DEF ServerProduce, IInv, TypeOK, Owner, ServerPC, WaitState
  <2>5. LockDiscipline'
    BY <1>1, <2>1, <2>3, MessengerAssumption
       DEF ServerProduce, IInv, TypeOK, LockDiscipline, ServerHoldsOp,
           ClientHoldsOp, InTransaction
  <2>6. PartsKept'
    BY <1>1, <1>3, <2>3, MessengerAssumption
       DEF ServerProduce, IInv, PartsKept, LockDiscipline, ClientHoldsOp
  <2> QED
    BY <2>4, <2>5, <2>6 DEF IInv
<1> QED
  BY <1>2, <1>3 DEF ServerProduce

LEMMA ServerSendNextKeeps == ASSUME IInv, ServerSendNext PROVE IInv'
<1>1. opLock = "none" /\ spc = "sendWait"
  BY DEF ServerSendNext, ServerWakes
<1>2. CASE /\ EndIteration(-1, running, {cWait})
           /\ UNCHANGED <<part, more, payload, running, cPred>>
  <2>1. running' \in BOOLEAN /\ cPred' \in BOOLEAN /\ bpc' \in BreakPC
    BY <1>2 DEF ServerSendNext, IInv, TypeOK
  <2> QED
    BY <1>1, <1>2, <2>1, EndIterationKeeps DEF ServerSendNext
<1>3. CASE SleepAgain
  BY <1>3, SleepAgainKeeps DEF ServerSendNext
<1>4. CASE ServerAbort(-1)
  BY <1>1, <1>4, ServerAbortKeeps DEF ServerSendNext
<1>5. CASE /\ spc' = "send" /\ sPart' = sPart + 1
           /\ sWait' = "awake" /\ opLock' = "server"
           /\ UNCHANGED <<header, sGot, cWait>>
  BY <1>1, <1>5, MessengerAssumption
     DEF ServerSendNext, IInv, TypeOK, LockDiscipline, PartsKept, header,
         Owner, ServerPC, WaitState, ServerHoldsOp, ClientHoldsOp, InTransaction
<1> QED
  BY <1>2, <1>3, <1>4, <1>5 DEF ServerSendNext

LEMMA ServerFinishKeeps == ASSUME IInv, ServerFinish PROVE IInv'
<1>1. opLock = "none" /\ spc = "fin"
  BY DEF ServerFinish, ServerWakes
<1>2. ASSUME NEW ret, EndIteration(ret, running, {cWait}),
             UNCHANGED <<part, more, payload, running, cPred>>
      PROVE  IInv'
  <2>1. running' \in BOOLEAN /\ cPred' \in BOOLEAN /\ bpc' \in BreakPC
    BY <1>2 DEF ServerFinish, IInv, TypeOK
  <2> QED
    BY <1>1, <1>2, <2>1, EndIterationKeeps DEF ServerFinish
<1>3. CASE SleepAgain
  BY <1>3, SleepAgainKeeps DEF ServerFinish
<1> QED
  BY <1>2, <1>3 DEF ServerFinish

LEMMA ServerJoinKeeps == ASSUME IInv, ServerJoin PROVE IInv'
BY MessengerAssumption
   DEF ServerJoin, IInv, TypeOK, LockDiscipline, PartsKept, header, clientVars,
       Owner, ServerPC, BreakPC, ServerHoldsOp, ClientHoldsOp, InTransaction

LEMMA ServerKeeps == ASSUME IInv, ServerNext PROVE IInv'
BY ServerStartKeeps, ServerPollKeeps, ServerEventKeeps, ServerConsumeKeeps,
   ServerRecvNextKeeps, ServerProduceKeeps, ServerSendNextKeeps,
   ServerFinishKeeps, ServerJoinKeeps DEF ServerNext

-----------------------------------------------------------------------------
(* A client keeps the invariant.                                           *)

\* A call that returns, with whatever it leaves in the header.
LEMMA ClientReturnsKeeps ==
    ASSUME IInv, NEW c \in Client, NEW how \in {"ok", "failed"},
           ClientReturns(c, how),
           state' \in MsgState, sPred' \in BOOLEAN, sWait' \in WaitState,
           cGot' \in [Client -> Seq(Piece)],
           cpc[c] # "begin" \/ txLock # c,
           UNCHANGED <<cPred, part, more, payload, running, spc, sPart, sGot,
                       call, bpc, executed>>
    PROVE  IInv'
<1> USE MessengerAssumption
<1>1. TypeOK'
  <2>1. /\ cpc' \in [Client -> ClientPC] /\ cWait' \in [Client -> WaitState]
        /\ cPart' \in [Client -> 0..MaxPart]
    BY DEF ClientReturns, IInv, TypeOK, ClientPC, WaitState
  <2>2. result' \in [Client -> {"none", "pending", "ok", "failed"}]
    BY DEF ClientReturns, IInv, TypeOK
  <2>3. txLock' \in Client \cup {"none", "breaker"} /\ opLock' \in Owner
    BY DEF ClientReturns, IInv, TypeOK, Owner
  <2> QED
    BY <2>1, <2>2, <2>3 DEF IInv, TypeOK
<1>2. LockDiscipline'
  BY DEF ClientReturns, IInv, TypeOK, LockDiscipline, ServerHoldsOp,
         ClientHoldsOp, InTransaction
<1>3. PartsKept'
  BY DEF ClientReturns, IInv, TypeOK, PartsKept
<1> QED
  BY <1>1, <1>2, <1>3 DEF IInv

\* An abort leaves state = ERROR and a signal.
LEMMA ClientAbortsKeeps ==
    ASSUME IInv, NEW c \in Client, ClientAborts(c), cpc[c] # "begin",
           UNCHANGED <<part, more, payload, running, spc, sPart, sGot, call,
                       bpc, executed>>
    PROVE  IInv'
<1>1. /\ ClientReturns(c, "failed")
      /\ state' \in MsgState /\ sPred' \in BOOLEAN /\ sWait' \in WaitState
      /\ cGot' \in [Client -> Seq(Piece)]
      /\ UNCHANGED cPred
  BY DEF ClientAborts, SignalServer, Signalled, IInv, TypeOK, MsgState, WaitState
<1> QED
  BY <1>1, ClientReturnsKeeps

\* A client that waits goes on waiting.
LEMMA ClientSleepsAgainKeeps ==
    ASSUME IInv, NEW c \in Client, ClientSleepsAgain(c), txLock = c,
           UNCHANGED <<part, more, payload, running, spc, sPart, sGot, call,
                       bpc, executed>>
    PROVE  IInv'
BY DEF ClientSleepsAgain, IInv, TypeOK, LockDiscipline, PartsKept, locks,
       ServerHoldsOp, ClientHoldsOp, InTransaction, WaitState

\* A client gets the operation lock for its next callback.
LEMMA ClientHoldsKeeps ==
    ASSUME IInv, NEW c \in Client, NEW where \in {"produce", "consume"},
           NEW k \in 0..MaxPart, ClientHolds(c, where, k),
           opLock = "none", txLock = c, state' \in MsgState,
           where = "consume" => part = k,
           UNCHANGED <<part, more, payload, running, spc, sPart, sGot, call,
                       bpc, executed>>
    PROVE  IInv'
<1> USE MessengerAssumption
<1>1. TypeOK'
  BY DEF ClientHolds, IInv, TypeOK, Owner, ClientPC, WaitState
<1>2. LockDiscipline'
  BY DEF ClientHolds, IInv, TypeOK, LockDiscipline, ServerHoldsOp,
         ClientHoldsOp, InTransaction
<1>3. PartsKept'
  BY DEF ClientHolds, IInv, TypeOK, PartsKept, LockDiscipline, InTransaction
<1> QED
  BY <1>1, <1>2, <1>3 DEF IInv

LEMMA ClientBeginsKeeps ==
    ASSUME IInv, NEW c \in Client, ClientBegins(c),
           opLock = "none", txLock = c,
           UNCHANGED <<part, more, payload, running, spc, sPart, sGot, call,
                       bpc, executed>>
    PROVE  IInv'
<1>1. /\ ClientHolds(c, "produce", 0)
      /\ state' \in MsgState
      /\ 0 \in 0..MaxPart
  BY MessengerAssumption DEF ClientBegins, MsgState
<1> QED
  BY <1>1, ClientHoldsKeeps

LEMMA ClientStartKeeps ==
    ASSUME IInv, NEW c \in Client, ClientStart(c) PROVE IInv'
<1> USE MessengerAssumption
<1>1. TypeOK'
  BY DEF ClientStart, IInv, TypeOK, locks, header, serverVars, ClientPC
<1>2. LockDiscipline'
  BY DEF ClientStart, IInv, TypeOK, LockDiscipline, locks, header, serverVars,
         ServerHoldsOp, ClientHoldsOp, InTransaction
<1>3. PartsKept'
  BY DEF ClientStart, IInv, TypeOK, PartsKept, locks, header, serverVars
<1> QED
  BY <1>1, <1>2, <1>3 DEF IInv

LEMMA ClientTakeTxKeeps ==
    ASSUME IInv, NEW c \in Client, ClientTakeTx(c) PROVE IInv'
<1> USE MessengerAssumption
<1>1. CASE /\ txLock = "none"
           /\ txLock' = c
           /\ cpc' = [cpc EXCEPT ![c] = "enter"]
           /\ UNCHANGED <<opLock, cWait, cPart, result>>
  <2>1. TypeOK'
    BY <1>1 DEF ClientTakeTx, IInv, TypeOK, header, serverVars, ClientPC
  <2>2. LockDiscipline'
    BY <1>1 DEF ClientTakeTx, IInv, TypeOK, LockDiscipline, header, serverVars,
                ServerHoldsOp, ClientHoldsOp, InTransaction
  <2>3. PartsKept'
    BY <1>1 DEF ClientTakeTx, IInv, TypeOK, PartsKept, header, serverVars
  <2> QED
    BY <2>1, <2>2, <2>3 DEF IInv
<1>2. CASE ClientReturns(c, "failed")
  <2>1. /\ state' \in MsgState /\ sPred' \in BOOLEAN /\ sWait' \in WaitState
        /\ cGot' \in [Client -> Seq(Piece)]
        /\ txLock # c
        /\ UNCHANGED <<cPred, part, more, payload, running, spc, sPart, sGot,
                       call, bpc, executed>>
    BY DEF ClientTakeTx, IInv, TypeOK, LockDiscipline, InTransaction, header,
           serverVars
  <2> QED
    BY <1>2, <2>1, ClientReturnsKeeps
<1> QED
  BY <1>1, <1>2 DEF ClientTakeTx

LEMMA ClientEnterKeeps ==
    ASSUME IInv, NEW c \in Client, ClientEnter(c) PROVE IInv'
<1>1. cpc[c] = "enter" /\ txLock = c
  BY DEF ClientEnter, IInv, LockDiscipline, InTransaction
<1>2. CASE opLock = "none" /\ ClientBegins(c)
  BY <1>1, <1>2, ClientBeginsKeeps DEF ClientEnter
<1>3. CASE /\ opLock = "none" /\ state # "READY"
           /\ cpc' = [cpc EXCEPT ![c] = "ready"]
           /\ cWait' = [cWait EXCEPT ![c] = "asleep"]
           /\ UNCHANGED <<locks, state, sPred, cPred, sWait, cPart, cGot, result>>
  <2>1. TypeOK'
    BY <1>3 DEF ClientEnter, IInv, TypeOK, locks, ClientPC, WaitState
  <2>2. LockDiscipline'
    BY <1>1, <1>3 DEF ClientEnter, IInv, TypeOK, LockDiscipline, locks,
                      ServerHoldsOp, ClientHoldsOp, InTransaction
  <2>3. PartsKept'
    BY <1>3 DEF ClientEnter, IInv, TypeOK, PartsKept
  <2> QED
    BY <2>1, <2>2, <2>3 DEF IInv
<1>4. CASE /\ ClientReturns(c, "failed")
           /\ UNCHANGED <<state, sPred, cPred, sWait, cGot>>
  <2>1. /\ state' \in MsgState /\ sPred' \in BOOLEAN /\ sWait' \in WaitState
        /\ cGot' \in [Client -> Seq(Piece)]
    BY <1>4 DEF IInv, TypeOK
  <2> QED
    BY <1>1, <1>4, <2>1, ClientReturnsKeeps DEF ClientEnter
<1> QED
  BY <1>2, <1>3, <1>4 DEF ClientEnter

LEMMA ClientReadyKeeps ==
    ASSUME IInv, NEW c \in Client, ClientReady(c) PROVE IInv'
<1>1. cpc[c] = "ready" /\ txLock = c /\ opLock = "none"
  BY DEF ClientReady, ClientWakes, IInv, LockDiscipline, InTransaction
<1>2. CASE ClientBegins(c)
  BY <1>1, <1>2, ClientBeginsKeeps DEF ClientReady
<1>3. CASE ClientSleepsAgain(c)
  BY <1>1, <1>3, ClientSleepsAgainKeeps DEF ClientReady
<1>4. CASE /\ ClientReturns(c, "failed")
           /\ UNCHANGED <<state, sPred, cPred, sWait, cGot>>
  <2>1. /\ state' \in MsgState /\ sPred' \in BOOLEAN /\ sWait' \in WaitState
        /\ cGot' \in [Client -> Seq(Piece)]
    BY <1>4 DEF IInv, TypeOK
  <2> QED
    BY <1>1, <1>4, <2>1, ClientReturnsKeeps DEF ClientReady
<1> QED
  BY <1>2, <1>3, <1>4 DEF ClientReady

LEMMA ClientProduceKeeps ==
    ASSUME IInv, NEW c \in Client, ClientProduce(c) PROVE IInv'
<1> USE MessengerAssumption
<1>1. cpc[c] = "produce" /\ opLock = c /\ txLock = c
  BY DEF ClientProduce, IInv, LockDiscipline, ClientHoldsOp, InTransaction
<1>2. CASE ClientAborts(c) /\ UNCHANGED <<part, more, payload>>
  BY <1>1, <1>2, ClientAbortsKeeps DEF ClientProduce
<1>3. ASSUME NEW m \in BOOLEAN,
             m => cPart[c] < MaxPart,
             part' = cPart[c], more' = m,
             payload' = [id |-> <<c, call[c]>>, part |-> cPart[c], last |-> ~m],
             SignalServer,
             ClientWaits(c, IF m THEN "sendWait" ELSE "recvWait"),
             cPart' = [cPart EXCEPT ![c] = IF m THEN @ + 1 ELSE 0],
             UNCHANGED <<txLock, state, cGot, result>>
      PROVE  IInv'
  <2>1. /\ part' \in 0..MaxPart /\ cPart[c] \in 0..MaxPart
        /\ cPart' \in [Client -> 0..MaxPart]
    BY <1>3 DEF IInv, TypeOK
  <2>2. payload' \in Piece
    <3>1. call[c] \in 1..MaxCalls
      BY <1>1 DEF IInv, TypeOK, PartsKept
    <3> QED
      BY <1>3, <2>1, <3>1 DEF Piece, Id
  <2>3. /\ cpc' \in [Client -> ClientPC]
        /\ cpc'[c] \in {"sendWait", "recvWait"}
        /\ \A d \in Client \ {c} : cpc'[d] = cpc[d]
        /\ cWait' \in [Client -> WaitState]
        /\ \A d \in Client \ {c} : cWait'[d] = cWait[d]
        /\ sPred' \in BOOLEAN /\ sWait' \in WaitState /\ cPred' \in BOOLEAN
        /\ opLock' = "none"
    BY <1>3 DEF ClientWaits, SignalServer, Signalled, IInv, TypeOK, ClientPC,
                WaitState
  <2>4. TypeOK'
    BY <1>3, <2>1, <2>2, <2>3 DEF ClientProduce, IInv, TypeOK, Owner
  <2>5. LockDiscipline'
    BY <1>1, <1>3, <2>3 DEF ClientProduce, IInv, TypeOK, LockDiscipline,
                            ServerHoldsOp, ClientHoldsOp, InTransaction
  <2>6. PartsKept'
    BY <1>1, <1>3, <2>1, <2>3
       DEF ClientProduce, IInv, PartsKept, LockDiscipline, ClientHoldsOp
  <2> QED
    BY <2>4, <2>5, <2>6 DEF IInv
<1> QED
  BY <1>2, <1>3 DEF ClientProduce

LEMMA ClientSendNextKeeps ==
    ASSUME IInv, NEW c \in Client, ClientSendNext(c) PROVE IInv'
<1>1. /\ cpc[c] = "sendWait" /\ txLock = c /\ opLock = "none"
      /\ cPart[c] \in 0..MaxPart
  BY DEF ClientSendNext, ClientWakes, IInv, TypeOK, LockDiscipline, InTransaction
<1>2. CASE ClientAborts(c)
  BY <1>1, <1>2, ClientAbortsKeeps DEF ClientSendNext
<1>3. CASE ClientSleepsAgain(c)
  BY <1>1, <1>3, ClientSleepsAgainKeeps DEF ClientSendNext
<1>4. CASE ClientHolds(c, "produce", cPart[c]) /\ UNCHANGED state
  <2>1. state' \in MsgState
    BY <1>4 DEF IInv, TypeOK
  <2> QED
    BY <1>1, <1>4, <2>1, ClientHoldsKeeps DEF ClientSendNext
<1> QED
  BY <1>2, <1>3, <1>4 DEF ClientSendNext

LEMMA ClientRecvNextKeeps ==
    ASSUME IInv, NEW c \in Client, ClientRecvNext(c) PROVE IInv'
<1>1. /\ cpc[c] = "recvWait" /\ txLock = c /\ opLock = "none"
      /\ cPart[c] \in 0..MaxPart
  BY DEF ClientRecvNext, ClientWakes, IInv, TypeOK, LockDiscipline, InTransaction
<1>2. CASE ClientAborts(c)
  BY <1>1, <1>2, ClientAbortsKeeps DEF ClientRecvNext
<1>3. CASE ClientSleepsAgain(c)
  BY <1>1, <1>3, ClientSleepsAgainKeeps DEF ClientRecvNext
<1>4. CASE /\ part = cPart[c]
           /\ ClientHolds(c, "consume", cPart[c])
           /\ UNCHANGED state
  <2>1. state' \in MsgState
    BY <1>4 DEF IInv, TypeOK
  <2> QED
    BY <1>1, <1>4, <2>1, ClientHoldsKeeps DEF ClientRecvNext
<1> QED
  BY <1>2, <1>3, <1>4 DEF ClientRecvNext

\* The part consumed is not the last possible one if there are more: that is
\* what keeps the count of parts within its bound.
LEMMA ClientConsumeKeeps ==
    ASSUME IInv, NEW c \in Client, ClientConsume(c) PROVE IInv'
<1> USE MessengerAssumption
<1>1. cpc[c] = "consume" /\ opLock = c /\ txLock = c
  BY DEF ClientConsume, IInv, LockDiscipline, ClientHoldsOp, InTransaction
<1>2. CASE ClientAborts(c)
  BY <1>1, <1>2, ClientAbortsKeeps DEF ClientConsume
<1>3. ASSUME cGot' = [cGot EXCEPT ![c] = Append(@, payload)],
             SignalServer,
             \/ ~more /\ state' = "DONE" /\ ClientReturns(c, "ok") /\ UNCHANGED cPred
             \/ /\ more
                /\ ClientWaits(c, "recvWait")
                /\ cPart' = [cPart EXCEPT ![c] = @ + 1]
                /\ UNCHANGED <<txLock, state, result>>
      PROVE  IInv'
  <2>1. /\ cGot' \in [Client -> Seq(Piece)]
        /\ sPred' \in BOOLEAN /\ sWait' \in WaitState
    BY <1>3 DEF SignalServer, Signalled, IInv, TypeOK, WaitState
  <2>2. CASE ~more /\ state' = "DONE" /\ ClientReturns(c, "ok") /\ UNCHANGED cPred
    <3>1. state' \in MsgState
      BY <2>2 DEF MsgState
    <3> QED
      BY <1>1, <2>1, <2>2, <3>1, ClientReturnsKeeps DEF ClientConsume
  <2>3. CASE /\ more
             /\ ClientWaits(c, "recvWait")
             /\ cPart' = [cPart EXCEPT ![c] = @ + 1]
             /\ UNCHANGED <<txLock, state, result>>
    <3>1. cPart' \in [Client -> 0..MaxPart]
      BY <1>1, <2>3 DEF IInv, TypeOK, PartsKept
    <3>2. /\ cpc' = [cpc EXCEPT ![c] = "recvWait"]
          /\ cWait' = [cWait EXCEPT ![c] = "asleep"]
          /\ opLock' = "none" /\ cPred' = FALSE
      BY <2>3 DEF ClientWaits
    <3>3. TypeOK'
      BY <2>1, <2>3, <3>1, <3>2
         DEF ClientConsume, IInv, TypeOK, Owner, ClientPC, WaitState
    <3>4. LockDiscipline'
      BY <1>1, <2>3, <3>2 DEF ClientConsume, IInv, TypeOK, LockDiscipline,
                              ServerHoldsOp, ClientHoldsOp, InTransaction
    <3>5. PartsKept'
      BY <1>1, <2>3, <3>2 DEF ClientConsume, IInv, TypeOK, PartsKept
    <3> QED
      BY <3>3, <3>4, <3>5 DEF IInv
  <2> QED
    BY <1>3, <2>2, <2>3
<1> QED
  BY <1>2, <1>3 DEF ClientConsume

LEMMA ClientKeeps ==
    ASSUME IInv, NEW c \in Client, ClientNext(c) PROVE IInv'
BY ClientStartKeeps, ClientTakeTxKeeps, ClientEnterKeeps, ClientReadyKeeps,
   ClientProduceKeeps, ClientSendNextKeeps, ClientRecvNextKeeps,
   ClientConsumeKeeps DEF ClientNext

-----------------------------------------------------------------------------
(* The signal thread, the clock and the scheduler.                         *)

LEMMA BreakKeeps == ASSUME IInv, BreakNext PROVE IInv'
<1> USE MessengerAssumption
    DEF IInv, TypeOK, LockDiscipline, PartsKept, locks, header, serverVars,
        clientVars, ServerHoldsOp, ClientHoldsOp, InTransaction
<1>1. CASE BreakCalled
  BY <1>1 DEF BreakCalled, BreakPC
<1>2. CASE BreakTakeTx
  BY <1>2 DEF BreakTakeTx, BreakPC
<1>3. CASE BreakTakeOp
  <2>1. running' \in BOOLEAN /\ sPred' \in BOOLEAN /\ sWait' \in WaitState
    BY <1>3 DEF BreakTakeOp, SignalServer, Signalled, WaitState
  <2>2. /\ bpc = "lockOp" /\ txLock' = "none" /\ bpc' = "sigwait"
        /\ UNCHANGED <<opLock, state, part, more, payload, cPred, spc, sPart,
                       sGot, clientVars, executed>>
    BY <1>3 DEF BreakTakeOp
  <2>3. TypeOK'
    BY <2>1, <2>2 DEF BreakPC
  <2>4. \A c \in Client : txLock # c
    BY <2>2
  <2>5. LockDiscipline'
    BY <2>2, <2>4
  <2>6. PartsKept'
    BY <2>2
  <2> QED
    BY <2>3, <2>5, <2>6
<1> QED
  BY <1>1, <1>2, <1>3 DEF BreakNext

LEMMA ClockKeeps ==
    ASSUME IInv, \/ ServerDeadline
                 \/ \E c \in Client : ClientDeadline(c)
                 \/ Spurious
    PROVE  IInv'
<1> USE DEF IInv, TypeOK, LockDiscipline, PartsKept, locks, header, serverVars,
            ServerHoldsOp, ClientHoldsOp, InTransaction, WaitState
<1>1. CASE ServerDeadline
  BY <1>1 DEF ServerDeadline, clientVars
<1>2. ASSUME NEW c \in Client, ClientDeadline(c) PROVE IInv'
  BY <1>2 DEF ClientDeadline
<1>3. CASE Spurious
  <2>1. CASE sWait = "asleep" /\ sWait' = "signalled" /\ UNCHANGED cWait
    BY <1>3, <2>1 DEF Spurious
  <2>2. ASSUME NEW c \in Client, cWait[c] = "asleep",
               cWait' = [cWait EXCEPT ![c] = "signalled"], UNCHANGED sWait
        PROVE  IInv'
    BY <1>3, <2>2 DEF Spurious
  <2> QED
    BY <1>3, <2>1, <2>2 DEF Spurious
<1> QED
  BY <1>1, <1>2, <1>3

-----------------------------------------------------------------------------
(* The theorems.                                                           *)

LEMMA InitInv == ASSUME Init PROVE IInv
<1> USE MessengerAssumption DEF Init
<1>1. Blank \in Piece /\ <<>> \in Seq(Piece)
  BY DEF Blank, Piece
<1>2. TypeOK
  <2>1. /\ txLock \in Client \cup {"none", "breaker"} /\ opLock \in Owner
        /\ state \in MsgState /\ part \in 0..MaxPart /\ more \in BOOLEAN
        /\ payload \in Piece
        /\ running \in BOOLEAN /\ sPred \in BOOLEAN /\ cPred \in BOOLEAN
    BY <1>1, 0 \in 0..MaxPart DEF Owner, MsgState
  <2>2. /\ spc \in ServerPC /\ sWait \in WaitState /\ sPart \in 0..MaxPart
        /\ sGot \in Seq(Piece) /\ bpc \in BreakPC
    BY <1>1 DEF ServerPC, WaitState, BreakPC
  <2>3. /\ cpc \in [Client -> ClientPC] /\ cWait \in [Client -> WaitState]
        /\ cPart \in [Client -> 0..MaxPart] /\ cGot \in [Client -> Seq(Piece)]
        /\ call \in [Client -> 0..MaxCalls]
        /\ result \in [Client -> {"none", "pending", "ok", "failed"}]
        /\ executed \in [Id -> Nat]
    BY <1>1 DEF ClientPC, WaitState
  <2> QED
    BY <2>1, <2>2, <2>3 DEF TypeOK
<1>3. LockDiscipline
  BY DEF LockDiscipline, ServerHoldsOp, ClientHoldsOp, InTransaction
<1>4. PartsKept
  BY DEF PartsKept
<1> QED
  BY <1>2, <1>3, <1>4 DEF IInv

LEMMA StepInv == ASSUME IInv, [Next]_vars PROVE IInv'
<1>1. CASE Next
  BY <1>1, ServerKeeps, ClientKeeps, BreakKeeps, ClockKeeps DEF Next
<1>2. CASE UNCHANGED vars
  BY <1>2 DEF IInv, TypeOK, LockDiscipline, PartsKept, vars, locks, header,
              serverVars, clientVars, ServerHoldsOp, ClientHoldsOp,
              InTransaction
<1> QED
  BY <1>1, <1>2

LEMMA Invariance == Spec => []IInv
<1>1. Init => IInv
  BY InitInv
<1>2. IInv /\ [Next]_vars => IInv'
  BY StepInv
<1> QED
  BY <1>1, <1>2, PTL DEF Spec

\* Every variable keeps its type; in particular no thread ever works on a part
\* beyond the last one.
THEOREM TypeCorrect == Spec => []TypeOK
<1>1. IInv => TypeOK
  BY DEF IInv
<1> QED
  BY <1>1, Invariance, PTL

\* The lock order holds: the buffer is only touched with the operation lock,
\* which a client takes only within its transaction, and at most one client
\* waits for the server's signal.
THEOREM LocksProtect == Spec => []LockDiscipline
<1>1. IInv => LockDiscipline
  BY DEF IInv
<1> QED
  BY <1>1, Invariance, PTL

-----------------------------------------------------------------------------
(***************************************************************************)
(* The lockstep of producers and consumers, for any number of clients,     *)
(* calls and parts and any combination of failures: no consumer is given a *)
(* part out of turn or of another exchange.  And the messenger implements  *)
(* IpcCall, the promise of ipc_msg.h.                                      *)
(*                                                                         *)
(* The locks alone (IInv above) do not say it.  The header's state tells   *)
(* how far the exchange has come, and every party sets it so that nobody   *)
(* else can believe to be in it: READY only when the mainloop has thrown   *)
(* away what it got, C2S only by the client that holds the transaction     *)
(* lock, S2C only by the mainloop that has a whole request of that client. *)
(***************************************************************************)

\* The request client c has under way.
Req(c) == <<c, call[c]>>

\* The first n parts of a message of request i, with more to come.
FirstParts(msg, n, i) ==
    /\ Len(msg) = n
    /\ \A k \in 1..n : msg[k] = [id |-> i, part |-> k - 1, last |-> FALSE]

\* The header describes the part that is in the buffer.
BufferFits == payload.part = part /\ payload.last = ~more

\* How far the mainloop is with the request.
ServerParts ==
    /\ spc \in {"start", "idle", "join", "stopped"} => sGot = <<>> /\ sPart = 0
    /\ spc = "recv" => part = sPart /\ \E i \in Id : FirstParts(sGot, sPart, i)
    /\ spc = "recvWait" => \E i \in Id : FirstParts(sGot, sPart + 1, i)
    /\ spc \in {"send", "sendWait", "fin"} => \E i \in Id : Complete(sGot, i)

\* What the header's state tells a client about the mainloop.
Phases ==
    /\ state = "READY" => spc = "idle"
    /\ state = "C2S" => spc \in {"idle", "recv", "recvWait"}
    /\ state = "S2C" => spc \in {"send", "sendWait", "fin"}
    /\ spc = "recv" => state = "C2S"

\* While it is C2S the request is that of the client in its transaction, and
\* has not been carried out.
Sending ==
    state = "C2S" =>
        /\ txLock \in Client
        /\ cpc[txLock] \in {"produce", "sendWait", "recvWait"}
        /\ sGot # <<>> => sGot[1].id = Req(txLock)
        /\ cpc[txLock] # "produce" => /\ payload.id = Req(txLock)
                                      /\ more <=> cpc[txLock] = "sendWait"
        /\ executed[Req(txLock)] = 0

\* While it is S2C that request has been carried out, once, and the parts in
\* the buffer answer it.
Answering ==
    state = "S2C" =>
        /\ txLock \in Client
        /\ cpc[txLock] \in {"recvWait", "consume"}
        /\ sGot[1].id = Req(txLock)
        /\ spc # "send" => payload.id = Req(txLock)
        /\ executed[Req(txLock)] = 1

\* How far the clients are with their answers.
ClientParts ==
    \A c \in Client :
        /\ cpc[c] \in {"begin", "enter", "ready", "produce", "sendWait"}
              => cGot[c] = <<>>
        /\ cpc[c] \in {"recvWait", "consume"}
              => FirstParts(cGot[c], cPart[c], Req(c))
        /\ cpc[c] = "consume" => state = "S2C"
        /\ cpc[c] = "out" => Prefix(cGot[c], Req(c))

\* A call is pending until it returns, a request that was not made was not
\* carried out, and a call that succeeded has its whole answer.
Calls ==
    \A c \in Client :
        /\ (cpc[c] = "out") <=> (result[c] # "pending")
        /\ cpc[c] \in {"begin", "enter", "ready", "produce", "sendWait"}
              => executed[Req(c)] = 0
        /\ \A n \in 1..MaxCalls : n > call[c] => executed[<<c, n>>] = 0
        /\ result[c] = "ok" => Complete(cGot[c], Req(c))

Exchange == /\ BufferFits /\ ServerParts /\ Phases /\ Sending /\ Answering
            /\ ClientParts /\ Calls

-----------------------------------------------------------------------------
(* Messages.                                                               *)

\* What Append does to a message of n parts.
LEMMA Appended ==
    ASSUME NEW S, NEW msg \in Seq(S), NEW p \in S, NEW n \in Nat, Len(msg) = n
    PROVE  /\ Append(msg, p) \in Seq(S)
           /\ Len(Append(msg, p)) = n + 1
           /\ \A k \in 1..n : Append(msg, p)[k] = msg[k]
           /\ Append(msg, p)[n + 1] = p
OBVIOUS

LEMMA NextPart ==
    ASSUME NEW S, NEW msg \in Seq(S), NEW n \in Nat, NEW i, NEW p \in S,
           FirstParts(msg, n, i),
           p = [id |-> i, part |-> n, last |-> FALSE]
    PROVE  FirstParts(Append(msg, p), n + 1, i)
<1>1. /\ Len(Append(msg, p)) = n + 1
      /\ \A k \in 1..n : Append(msg, p)[k] = msg[k]
      /\ Append(msg, p)[n + 1] = p
  BY Appended DEF FirstParts
<1>2. \A k \in 1..n + 1 :
        Append(msg, p)[k] = [id |-> i, part |-> k - 1, last |-> FALSE]
  <2> TAKE k \in 1..n + 1
  <2>1. k \in 1..n \/ k = n + 1
    OBVIOUS
  <2>2. CASE k \in 1..n
    BY <1>1, <2>2 DEF FirstParts
  <2>3. CASE k = n + 1
    <3>1. k - 1 = n
      BY <2>3
    <3> QED
      BY <1>1, <2>3, <3>1
  <2> QED
    BY <2>1, <2>2, <2>3
<1> QED
  BY <1>1, <1>2 DEF FirstParts

LEMMA LastPart ==
    ASSUME NEW S, NEW msg \in Seq(S), NEW n \in Nat, NEW i, NEW p \in S,
           FirstParts(msg, n, i),
           p = [id |-> i, part |-> n, last |-> TRUE]
    PROVE  Complete(Append(msg, p), i)
<1>1. /\ Append(msg, p) \in Seq(S)
      /\ Len(Append(msg, p)) = n + 1
      /\ \A k \in 1..n : Append(msg, p)[k] = msg[k]
      /\ Append(msg, p)[n + 1] = p
  BY Appended DEF FirstParts
<1>2. ASSUME NEW k \in DOMAIN Append(msg, p)
      PROVE  Append(msg, p)[k] = [id |-> i, part |-> k - 1,
                                  last |-> (k = Len(Append(msg, p)))]
  <2>1. k \in 1..n \/ k = n + 1
    BY <1>1
  <2>2. CASE k \in 1..n
    <3>1. k # n + 1
      BY <2>2
    <3>2. msg[k] = [id |-> i, part |-> k - 1, last |-> FALSE]
      BY <2>2 DEF FirstParts
    <3> QED
      BY <1>1, <2>2, <3>1, <3>2
  <2>3. CASE k = n + 1
    <3>1. k - 1 = n /\ k = Len(Append(msg, p))
      BY <1>1, <2>3
    <3> QED
      BY <1>1, <2>3, <3>1
  <2> QED
    BY <2>1, <2>2, <2>3
<1>3. Append(msg, p) # <<>>
  BY <1>1
<1> QED
  BY <1>2, <1>3 DEF Complete

LEMMA FirstIsPrefix ==
    ASSUME NEW S, NEW msg \in Seq(S), NEW n \in Nat, NEW i,
           FirstParts(msg, n, i)
    PROVE  /\ Prefix(msg, i)
           /\ n # 0 => msg # <<>> /\ msg[1].id = i
           /\ n = 0 => msg = <<>>
BY DEF FirstParts, Prefix

LEMMA CompleteIsPrefix ==
    ASSUME NEW S, NEW msg \in Seq(S), NEW i, Complete(msg, i)
    PROVE  /\ Prefix(msg, i)
           /\ msg # <<>> /\ msg[1].id = i /\ Head(msg).id = i
<1>1. ASSUME NEW k \in DOMAIN msg
      PROVE  /\ msg[k].id = i
             /\ msg[k].part = k - 1
             /\ msg[k].last => k = Len(msg)
  <2>1. msg[k] = [id |-> i, part |-> k - 1, last |-> (k = Len(msg))]
    BY DEF Complete
  <2>2. msg[k].id = i /\ msg[k].part = k - 1
    BY <2>1
  <2>3. CASE k = Len(msg)
    BY <2>2, <2>3
  <2>4. CASE k # Len(msg)
    <3>1. (k = Len(msg)) = FALSE
      BY <2>4
    <3>2. msg[k] = [id |-> i, part |-> k - 1, last |-> FALSE]
      BY <2>1, <3>1, Zenon
    <3> QED
      BY <2>2, <3>2
  <2> QED
    BY <2>3, <2>4
<1>2. msg # <<>> /\ 1 \in DOMAIN msg /\ Head(msg) = msg[1]
  BY DEF Complete
<1> QED
  BY <1>1, <1>2 DEF Prefix

LEMMA NoParts ==
    ASSUME NEW i
    PROVE  FirstParts(<<>>, 0, i) /\ Prefix(<<>>, i)
BY DEF FirstParts, Prefix

-----------------------------------------------------------------------------
(* What the parts of the invariant depend on.                              *)

LEMMA ServerPartsKept ==
    ASSUME ServerParts, UNCHANGED <<spc, sPart, sGot>>,
           spc = "recv" => part' = part
    PROVE  ServerParts'
<1>1. \A i \in Id : FirstParts(sGot, sPart, i)' <=> FirstParts(sGot, sPart, i)
  BY DEF FirstParts
<1>2. \A i \in Id :
        FirstParts(sGot, sPart + 1, i)' <=> FirstParts(sGot, sPart + 1, i)
  BY DEF FirstParts
<1>3. \A i \in Id : Complete(sGot, i)' <=> Complete(sGot, i)
  BY DEF Complete
<1> QED
  BY <1>1, <1>2, <1>3 DEF ServerParts

LEMMA ClientPartsKept ==
    ASSUME ClientParts, UNCHANGED <<cpc, cPart, cGot, call>>,
           \A c \in Client : cpc[c] = "consume" => state' = state
    PROVE  ClientParts'
<1>1. \A c \in Client :
        /\ FirstParts(cGot[c], cPart[c], Req(c))' <=> FirstParts(cGot[c], cPart[c], Req(c))
        /\ Prefix(cGot[c], Req(c))' <=> Prefix(cGot[c], Req(c))
  BY DEF FirstParts, Prefix, Req
<1> QED
  BY <1>1 DEF ClientParts

LEMMA CallsKept ==
    ASSUME Calls, UNCHANGED <<call, result, cGot, executed>>,
           \A c \in Client :
              /\ cpc'[c] = "out" <=> cpc[c] = "out"
              /\ cpc'[c] \in {"begin", "enter", "ready", "produce", "sendWait"}
                    => cpc[c] \in {"begin", "enter", "ready", "produce", "sendWait"}
    PROVE  Calls'
<1>1. \A c \in Client : Complete(cGot[c], Req(c))' <=> Complete(cGot[c], Req(c))
  BY DEF Complete, Req
<1> QED
  BY <1>1 DEF Calls, Req

-----------------------------------------------------------------------------
(* The mainloop thread.                                                    *)

\* An iteration that ends forgets the request, whatever became of it.
LEMMA EndingIsClean ==
    ASSUME IInv, Exchange, opLock \in {"none", "server"},
           NEW ret, NEW stillRunning, NEW waits,
           EndIteration(ret, stillRunning, waits),
           UNCHANGED <<txLock, part, more, payload, cpc, cPart, cGot, call,
                       result, executed>>
    PROVE  Exchange'
<1>1. /\ sGot' = <<>> /\ sPart' = 0 /\ spc' \in {"idle", "join"}
      /\ state' \in {"READY", "DONE"}
      /\ state' = "READY" => spc' = "idle"
  BY DEF EndIteration
<1>2. \A c \in Client : cpc[c] # "consume"
  BY MessengerAssumption DEF IInv, LockDiscipline, ClientHoldsOp
<1>3. BufferFits' /\ ServerParts' /\ Phases' /\ Sending' /\ Answering'
  BY <1>1 DEF Exchange, BufferFits, ServerParts, Phases, Sending, Answering
<1>4. ClientParts' /\ Calls'
  BY <1>2, ClientPartsKept, CallsKept DEF Exchange
<1> QED
  BY <1>3, <1>4 DEF Exchange

LEMMA AbortingIsClean ==
    ASSUME IInv, Exchange, opLock \in {"none", "server"}, NEW ret,
           ServerAbort(ret),
           UNCHANGED <<txLock, cpc, cPart, cGot, call, result, executed>>
    PROVE  Exchange'
BY EndingIsClean DEF ServerAbort

\* Steps of the mainloop that move neither state, parts nor requests.
LEMMA NothingMoves ==
    ASSUME Exchange,
           UNCHANGED <<txLock, state, part, more, payload, spc, sPart, sGot,
                       cpc, cPart, cGot, call, result, executed>>
    PROVE  Exchange'
<1>1. BufferFits' /\ Phases' /\ Sending' /\ Answering'
  BY DEF Exchange, BufferFits, Phases, Sending, Answering, Req
<1>2. ServerParts' /\ ClientParts' /\ Calls'
  BY ServerPartsKept, ClientPartsKept, CallsKept DEF Exchange
<1> QED
  BY <1>1, <1>2 DEF Exchange

LEMMA ServerStartIsClean ==
    ASSUME IInv, Exchange, ServerStart PROVE Exchange'
BY EndingIsClean DEF ServerStart

LEMMA ServerPollIsClean ==
    ASSUME IInv, Exchange, ServerPoll PROVE Exchange'
<1>1. CASE SleepAgain
  BY <1>1, NothingMoves DEF ServerPoll, SleepAgain, locks, header
<1>2. CASE /\ running' = FALSE /\ sWait' = "asleep"
           /\ UNCHANGED <<locks, state, part, more, payload, sPred, cPred, spc,
                          sPart, sGot, cWait>>
  BY <1>2, NothingMoves DEF ServerPoll, locks
<1>3. CASE /\ EndIteration(-2, running, {cWait})
           /\ UNCHANGED <<txLock, part, more, payload, running, cPred>>
  BY <1>3, EndingIsClean DEF ServerPoll, ServerWakes
<1> QED
  BY <1>1, <1>2, <1>3 DEF ServerPoll

\* The first part: nothing was kept of an earlier request.
LEMMA ServerEventIsClean ==
    ASSUME IInv, Exchange, ServerEvent PROVE Exchange'
<1>1. opLock = "none" /\ spc = "idle"
  BY DEF ServerEvent, ServerWakes
<1>2. ASSUME NEW ret, EndIteration(ret, running, {cWait}),
             UNCHANGED <<part, more, payload>>
      PROVE  Exchange'
  BY <1>1, <1>2, EndingIsClean DEF ServerEvent
<1>3. CASE ServerAbort(-1)
  BY <1>1, <1>3, AbortingIsClean DEF ServerEvent
<1>4. CASE /\ state = "C2S" /\ part = 0
           /\ spc' = "recv" /\ UNCHANGED <<header, sPart, sGot>>
  <2>1. sGot = <<>> /\ sPart = 0
    BY <1>1 DEF Exchange, ServerParts
  <2>2. ServerParts'
    <3>1. <<txLock, 1>> \in Id
      BY <1>4, MessengerAssumption DEF Exchange, Sending, Id
    <3>2. FirstParts(sGot', sPart', <<txLock, 1>>) /\ part' = sPart'
      BY <1>4, <2>1, NoParts DEF header
    <3> QED
      BY <1>4, <3>1, <3>2 DEF ServerParts
  <2>3. BufferFits' /\ Phases' /\ Sending' /\ Answering'
    BY <1>4 DEF ServerEvent, Exchange, BufferFits, Phases, Sending, Answering,
                header, Req
  <2>4. ClientParts' /\ Calls'
    BY <1>4, ClientPartsKept, CallsKept DEF ServerEvent, Exchange, header
  <2> QED
    BY <2>2, <2>3, <2>4 DEF Exchange
<1> QED
  BY <1>2, <1>3, <1>4 DEF ServerEvent

\* A part is taken: it is the next one of the request of the client that
\* holds the transaction lock.
LEMMA ServerConsumeIsClean ==
    ASSUME IInv, Exchange, ServerConsume PROVE Exchange'
<1>1. /\ opLock = "server" /\ spc = "recv" /\ state = "C2S"
      /\ sGot \in Seq(Piece) /\ payload \in Piece /\ sPart \in Nat
      /\ executed \in [Id -> Nat]
  BY MessengerAssumption
     DEF ServerConsume, IInv, TypeOK, LockDiscipline, ServerHoldsOp, Exchange,
         Phases
<1>2. ASSUME NEW ret, ServerAbort(ret), UNCHANGED executed
      PROVE  Exchange'
  BY <1>1, <1>2, AbortingIsClean DEF ServerConsume
<1>3. \A c \in Client : cpc[c] \notin {"produce", "consume"}
  BY <1>1, MessengerAssumption DEF IInv, LockDiscipline, ClientHoldsOp
<1>4. /\ txLock \in Client /\ cpc[txLock] \in {"sendWait", "recvWait"}
      /\ payload.id = Req(txLock)
      /\ more <=> cpc[txLock] = "sendWait"
      /\ executed[Req(txLock)] = 0
      /\ Req(txLock) \in Id
  BY <1>1, <1>3 DEF Exchange, Sending, IInv, TypeOK, PartsKept, Req, Id
<1>5. /\ payload = [id |-> Req(txLock), part |-> sPart, last |-> ~more]
      /\ FirstParts(sGot, sPart, Req(txLock))
  <2>1. payload.part = sPart /\ payload.last = ~more
    BY <1>1 DEF Exchange, BufferFits, ServerParts
  <2>2. PICK i \in Id : FirstParts(sGot, sPart, i)
    BY <1>1 DEF Exchange, ServerParts
  <2>3. FirstParts(sGot, sPart, Req(txLock))
    BY <1>1, <2>2, FirstIsPrefix, NoParts DEF Exchange, Sending
  <2> QED
    BY <1>1, <1>4, <2>1, <2>3 DEF Piece
<1>6. CASE /\ more
           /\ sGot' = Append(sGot, payload)
           /\ ServerWaits("recvWait")
           /\ UNCHANGED <<state, part, more, payload, sPart, executed>>
  <2>1. FirstParts(sGot', sPart + 1, Req(txLock)) /\ sGot' \in Seq(Piece)
    <3>1. payload = [id |-> Req(txLock), part |-> sPart, last |-> FALSE]
      BY <1>5, <1>6
    <3>2. sGot' = Append(sGot, payload)
      BY <1>6
    <3>3. FirstParts(Append(sGot, payload), sPart + 1, Req(txLock))
      BY <1>1, <1>5, <3>1, NextPart
    <3> QED
      BY <1>1, <3>2, <3>3
  <2>2. sGot'[1].id = Req(txLock)
    BY <1>1, <2>1, FirstIsPrefix
  <2>3. BufferFits' /\ ServerParts' /\ Phases' /\ Sending' /\ Answering'
    BY <1>1, <1>4, <1>6, <2>1, <2>2
       DEF ServerConsume, ServerWaits, Exchange, BufferFits, ServerParts,
           Phases, Sending, Answering, Req
  <2>4. ClientParts' /\ Calls'
    BY <1>6, ClientPartsKept, CallsKept DEF ServerConsume, Exchange
  <2> QED
    BY <2>3, <2>4 DEF Exchange
<1>7. CASE /\ ~more
           /\ sGot' = Append(sGot, payload)
           /\ executed' = [executed EXCEPT ![payload.id] = @ + 1]
           /\ state' = "S2C"
           /\ spc' = "send" /\ sPart' = 0
           /\ UNCHANGED <<part, more, payload>>
  <2>1. Complete(sGot', Req(txLock)) /\ sGot' \in Seq(Piece)
    <3>1. payload = [id |-> Req(txLock), part |-> sPart, last |-> TRUE]
      BY <1>5, <1>7
    <3>2. sGot' = Append(sGot, payload)
      BY <1>7
    <3>3. Complete(Append(sGot, payload), Req(txLock))
      BY <1>1, <1>5, <3>1, LastPart
    <3> QED
      BY <1>1, <3>2, <3>3
  <2>2. sGot'[1].id = Req(txLock)
    BY <2>1, CompleteIsPrefix
  <2>3. /\ executed'[Req(txLock)] = 1
        /\ \A i \in Id : i # Req(txLock) => executed'[i] = executed[i]
    BY <1>1, <1>4, <1>7
  <2>4. BufferFits' /\ ServerParts' /\ Phases' /\ Sending' /\ Answering'
    BY <1>1, <1>4, <1>7, <2>1, <2>2, <2>3
       DEF ServerConsume, Exchange, BufferFits, ServerParts, Phases, Sending,
           Answering, Req
  <2>5. ClientParts'
    BY <1>3, <1>7, ClientPartsKept DEF ServerConsume, Exchange
  <2>6. Calls'
    <3>1. cpc[txLock] = "recvWait"
      BY <1>4, <1>7
    <3>2. ASSUME NEW c \in Client,
                 cpc[c] \in {"begin", "enter", "ready", "produce", "sendWait"}
          PROVE  executed'[Req(c)] = 0
      <4>1. Req(c) \in Id /\ Req(c) # Req(txLock)
        BY <3>1, <3>2 DEF IInv, TypeOK, PartsKept, Req, Id
      <4> QED
        BY <2>3, <3>2, <4>1 DEF Exchange, Calls
    <3>3. ASSUME NEW c \in Client, NEW n \in 1..MaxCalls, n > call[c]
          PROVE  executed'[<<c, n>>] = 0
      <4>1. <<c, n>> \in Id /\ <<c, n>> # Req(txLock)
        BY <3>3 DEF IInv, TypeOK, Req, Id
      <4> QED
        BY <2>3, <3>3, <4>1 DEF Exchange, Calls
    <3> QED
      <4>1. UNCHANGED <<cpc, cGot, call, result>>
        BY DEF ServerConsume
      <4>2. \A c \in Client :
              Complete(cGot[c], Req(c))' <=> Complete(cGot[c], Req(c))
        BY <4>1 DEF Complete, Req
      <4> QED
        BY <3>2, <3>3, <4>1, <4>2 DEF Exchange, Calls, Req
  <2> QED
    BY <2>4, <2>5, <2>6 DEF Exchange
<1> QED
  BY <1>2, <1>6, <1>7 DEF ServerConsume

\* A wait of the mainloop that ends the iteration or goes on.
LEMMA ServerWaitIsClean ==
    ASSUME IInv, Exchange, opLock = "none",
           UNCHANGED <<txLock, cpc, cPart, cGot, call, result, executed>>,
           \/ \E ret \in Int : /\ EndIteration(ret, running, {cWait})
                               /\ UNCHANGED <<part, more, payload>>
           \/ SleepAgain
           \/ ServerAbort(-1)
    PROVE  Exchange'
<1>1. ASSUME NEW ret \in Int, EndIteration(ret, running, {cWait}),
             UNCHANGED <<part, more, payload>>
      PROVE  Exchange'
  BY <1>1, EndingIsClean
<1>2. CASE SleepAgain
  BY <1>2, NothingMoves DEF SleepAgain, locks, header
<1>3. CASE ServerAbort(-1)
  BY <1>3, AbortingIsClean
<1> QED
  BY <1>1, <1>2, <1>3

LEMMA ServerRecvNextIsClean ==
    ASSUME IInv, Exchange, ServerRecvNext PROVE Exchange'
<1>1. opLock = "none" /\ spc = "recvWait"
  BY DEF ServerRecvNext, ServerWakes
<1>2. CASE /\ state = "C2S" /\ part = sPart + 1
           /\ spc' = "recv" /\ sPart' = sPart + 1
           /\ UNCHANGED <<header, sGot>>
  <2>1. BufferFits' /\ ServerParts' /\ Phases' /\ Sending' /\ Answering'
    BY <1>1, <1>2
       DEF ServerRecvNext, Exchange, BufferFits, ServerParts, Phases, Sending,
           Answering, header, Req, FirstParts
  <2>2. ClientParts' /\ Calls'
    BY <1>2, ClientPartsKept, CallsKept DEF ServerRecvNext, Exchange, header
  <2> QED
    BY <2>1, <2>2 DEF Exchange
<1>3. CASE \/ /\ EndIteration(-1, running, {cWait})
              /\ UNCHANGED <<part, more, payload>>
           \/ SleepAgain
           \/ ServerAbort(-1)
  BY <1>1, <1>3, ServerWaitIsClean, -1 \in Int DEF ServerRecvNext
<1> QED
  BY <1>2, <1>3 DEF ServerRecvNext

\* The answer carries the name of the request it answers.
LEMMA ServerProduceIsClean ==
    ASSUME IInv, Exchange, ServerProduce PROVE Exchange'
<1>1. opLock = "server" /\ spc = "send" /\ sGot \in Seq(Piece)
  BY DEF ServerProduce, IInv, TypeOK, LockDiscipline, ServerHoldsOp
<1>2. ASSUME NEW ret, ServerAbort(ret) PROVE Exchange'
  BY <1>1, <1>2, AbortingIsClean DEF ServerProduce
<1>3. ASSUME NEW m \in BOOLEAN,
             part' = sPart, more' = m,
             payload' = [id |-> Head(sGot).id, part |-> sPart, last |-> ~m],
             \/ m /\ ServerWaits("sendWait")
             \/ ~m /\ spc' = "fin",
             UNCHANGED <<state, sPart, sGot>>
      PROVE  Exchange'
  <2>1. PICK i \in Id : Complete(sGot, i)
    BY <1>1 DEF Exchange, ServerParts
  <2>2. Head(sGot).id = i /\ sGot[1].id = i
    BY <1>1, <2>1, CompleteIsPrefix
  <2>3. spc' \in {"sendWait", "fin"}
    BY <1>3 DEF ServerWaits
  <2>4. payload'.id = i /\ BufferFits'
    BY <1>3, <2>2 DEF BufferFits
  <2>5. ServerParts' /\ Phases' /\ Sending' /\ Answering'
    BY <1>1, <1>3, <2>1, <2>2, <2>3, <2>4
       DEF ServerProduce, Exchange, ServerParts, Phases, Sending, Answering,
           Req, Complete
  <2>6. ClientParts' /\ Calls'
    BY <1>3, ClientPartsKept, CallsKept DEF ServerProduce, Exchange
  <2> QED
    BY <2>4, <2>5, <2>6 DEF Exchange
<1> QED
  BY <1>2, <1>3 DEF ServerProduce

LEMMA ServerSendNextIsClean ==
    ASSUME IInv, Exchange, ServerSendNext PROVE Exchange'
<1>1. opLock = "none" /\ spc = "sendWait"
  BY DEF ServerSendNext, ServerWakes
<1>2. CASE spc' = "send" /\ UNCHANGED <<header, sGot>>
  <2>1. BufferFits' /\ ServerParts' /\ Phases' /\ Sending' /\ Answering'
    BY <1>1, <1>2
       DEF ServerSendNext, Exchange, BufferFits, ServerParts, Phases, Sending,
           Answering, header, Req, Complete
  <2>2. ClientParts' /\ Calls'
    BY <1>2, ClientPartsKept, CallsKept DEF ServerSendNext, Exchange, header
  <2> QED
    BY <2>1, <2>2 DEF Exchange
<1>3. CASE \/ /\ EndIteration(-1, running, {cWait})
              /\ UNCHANGED <<part, more, payload>>
           \/ SleepAgain
           \/ ServerAbort(-1)
  BY <1>1, <1>3, ServerWaitIsClean, -1 \in Int DEF ServerSendNext
<1> QED
  BY <1>2, <1>3 DEF ServerSendNext

LEMMA ServerFinishIsClean ==
    ASSUME IInv, Exchange, ServerFinish PROVE Exchange'
BY ServerWaitIsClean, -1 \in Int, 0 \in Int DEF ServerFinish, ServerWakes

LEMMA ServerJoinIsClean ==
    ASSUME IInv, Exchange, ServerJoin PROVE Exchange'
<1>1. UNCHANGED <<txLock, header, sPart, sGot, clientVars, executed>>
  BY DEF ServerJoin
<1>2. ServerParts' /\ Phases'
  BY <1>1 DEF ServerJoin, Exchange, ServerParts, Phases, header
<1>3. BufferFits' /\ Sending' /\ Answering'
  BY <1>1 DEF ServerJoin, Exchange, BufferFits, Phases, Sending, Answering,
              header, clientVars, Req
<1>4. ClientParts' /\ Calls'
  BY <1>1, ClientPartsKept, CallsKept DEF Exchange, header, clientVars
<1> QED
  BY <1>2, <1>3, <1>4 DEF Exchange

LEMMA ServerIsClean == ASSUME IInv, Exchange, ServerNext PROVE Exchange'
BY ServerStartIsClean, ServerPollIsClean, ServerEventIsClean,
   ServerConsumeIsClean, ServerRecvNextIsClean, ServerProduceIsClean,
   ServerSendNextIsClean, ServerFinishIsClean, ServerJoinIsClean
   DEF ServerNext

-----------------------------------------------------------------------------
(* A client.                                                               *)

\* What a client was given so far is in order, wherever it stands.
LEMMA AnswerInOrder ==
    ASSUME IInv, Exchange, NEW c \in Client
    PROVE  Prefix(cGot[c], Req(c))
<1>1. cGot[c] \in Seq(Piece) /\ cPart[c] \in Nat /\ cpc[c] \in ClientPC
  BY MessengerAssumption DEF IInv, TypeOK
<1>2. CASE cpc[c] \in {"begin", "enter", "ready", "produce", "sendWait"}
  BY <1>2, NoParts DEF Exchange, ClientParts
<1>3. CASE cpc[c] \in {"recvWait", "consume"}
  <2>1. FirstParts(cGot[c], cPart[c], Req(c))
    BY <1>3 DEF Exchange, ClientParts
  <2> QED
    BY <1>1, <2>1, FirstIsPrefix
<1>4. CASE cpc[c] = "out"
  BY <1>4 DEF Exchange, ClientParts
<1> QED
  BY <1>1, <1>2, <1>3, <1>4 DEF ClientPC

\* A client that returns leaves the exchange, if it was in one, by a state
\* that is of no phase; the server throws away what it has.
LEMMA LeavingIsClean ==
    ASSUME IInv, Exchange, NEW c \in Client, NEW how \in {"ok", "failed"},
           ClientReturns(c, how), cpc[c] # "out",
           \/ state' = state /\ cpc[c] \in {"begin", "enter", "ready"}
           \/ state' \in {"ERROR", "DONE"} /\ opLock \in {"none", c},
           Prefix(cGot'[c], Req(c)),
           how = "ok" => Complete(cGot'[c], Req(c)),
           \A d \in Client \ {c} : cGot'[d] = cGot[d],
           UNCHANGED <<part, more, payload, spc, sPart, sGot, call, executed>>
    PROVE  Exchange'
<1> USE MessengerAssumption
<1>1. /\ cpc'[c] = "out" /\ result'[c] = how
      /\ \A d \in Client \ {c} : /\ cpc'[d] = cpc[d] /\ cPart'[d] = cPart[d]
                                 /\ result'[d] = result[d]
      /\ txLock' = IF txLock = c THEN "none" ELSE txLock
  BY DEF ClientReturns, IInv, TypeOK
<1>2. state' # state => /\ spc # "recv"
                        /\ \A d \in Client \ {c} : cpc[d] # "consume"
  BY DEF IInv, LockDiscipline, ServerHoldsOp, ClientHoldsOp
<1>3. BufferFits' /\ ServerParts'
  BY DEF Exchange, BufferFits, ServerParts, Complete
<1>4. Phases'
  BY <1>2 DEF Exchange, Phases
<1>5. Sending' /\ Answering'
  <2>1. CASE state' = state /\ cpc[c] \in {"begin", "enter", "ready"}
    BY <1>1, <2>1 DEF Exchange, Sending, Answering, Req
  <2>2. CASE state' \in {"ERROR", "DONE"}
    BY <2>2 DEF Sending, Answering
  <2> QED
    BY <2>1, <2>2
<1>6. ClientParts'
  <2> SUFFICES ASSUME NEW d \in Client
               PROVE  /\ cpc'[d] \in {"begin", "enter", "ready", "produce",
                                      "sendWait"} => cGot'[d] = <<>>
                      /\ cpc'[d] \in {"recvWait", "consume"}
                            => FirstParts(cGot'[d], cPart'[d], Req(d)')
                      /\ cpc'[d] = "consume" => state' = "S2C"
                      /\ cpc'[d] = "out" => Prefix(cGot'[d], Req(d)')
    BY DEF ClientParts, FirstParts, Prefix
  <2>1. CASE d = c
    BY <1>1, <2>1 DEF Req
  <2>2. CASE d # c
    BY <1>1, <1>2, <2>2 DEF Exchange, ClientParts, Req
  <2> QED
    BY <2>1, <2>2
<1>7. Calls'
  <2> SUFFICES ASSUME NEW d \in Client
               PROVE  /\ (cpc'[d] = "out") <=> (result'[d] # "pending")
                      /\ cpc'[d] \in {"begin", "enter", "ready", "produce",
                                      "sendWait"} => executed'[Req(d)'] = 0
                      /\ \A n \in 1..MaxCalls :
                            n > call'[d] => executed'[<<d, n>>] = 0
                      /\ result'[d] = "ok" => Complete(cGot'[d], Req(d)')
    BY DEF Calls, Complete
  <2>1. CASE d = c
    BY <1>1, <2>1 DEF Exchange, Calls, Req
  <2>2. CASE d # c
    BY <1>1, <2>2 DEF Exchange, Calls, Req
  <2> QED
    BY <2>1, <2>2
<1> QED
  BY <1>3, <1>4, <1>5, <1>6, <1>7 DEF Exchange

\* A call that failed.
LEMMA FailingIsClean ==
    ASSUME IInv, Exchange, NEW c \in Client, ClientReturns(c, "failed"),
           cpc[c] # "out",
           \/ state' = state /\ cpc[c] \in {"begin", "enter", "ready"}
           \/ state' = "ERROR" /\ opLock \in {"none", c},
           UNCHANGED <<cGot, part, more, payload, spc, sPart, sGot, call,
                       executed>>
    PROVE  Exchange'
<1>1. Prefix(cGot'[c], Req(c))
  BY AnswerInOrder
<1> QED
  BY <1>1, LeavingIsClean

\* A client that goes to sleep again.
LEMMA ClientSleepsOn ==
    ASSUME Exchange, NEW c \in Client, ClientSleepsAgain(c),
           UNCHANGED <<part, more, payload, spc, sPart, sGot, call, executed>>
    PROVE  Exchange'
BY NothingMoves DEF ClientSleepsAgain, locks

\* READY is the promise that nothing is left of an earlier exchange.
LEMMA BeginningIsClean ==
    ASSUME IInv, Exchange, NEW c \in Client, ClientBegins(c),
           cpc[c] \in {"enter", "ready"}, txLock = c,
           UNCHANGED <<part, more, payload, spc, sPart, sGot, call, executed>>
    PROVE  Exchange'
<1> USE MessengerAssumption
<1>1. /\ state = "READY" /\ state' = "C2S" /\ spc = "idle"
      /\ sGot = <<>> /\ sPart = 0 /\ txLock' = c
      /\ cGot' = cGot /\ result' = result
  BY DEF ClientBegins, ClientHolds, Exchange, Phases, ServerParts
<1>2. /\ cpc'[c] = "produce"
      /\ \A d \in Client \ {c} : cpc'[d] = cpc[d] /\ cPart'[d] = cPart[d]
  BY DEF ClientBegins, ClientHolds, IInv, TypeOK
<1>3. \A d \in Client \ {c} : cpc[d] # "consume"
  BY DEF IInv, LockDiscipline, InTransaction
<1>4. executed[Req(c)] = 0
  BY DEF Exchange, Calls
<1>5. BufferFits' /\ ServerParts' /\ Phases' /\ Sending' /\ Answering'
  BY <1>1, <1>2, <1>4 DEF Exchange, BufferFits, ServerParts, Phases, Sending,
                          Answering, Req, FirstParts
<1>6. ClientParts'
  BY <1>1, <1>2, <1>3 DEF Exchange, ClientParts, Req, FirstParts, Prefix
<1>7. Calls'
  BY <1>1, <1>2 DEF Exchange, Calls, Req, Complete
<1> QED
  BY <1>5, <1>6, <1>7 DEF Exchange

LEMMA ClientStartIsClean ==
    ASSUME IInv, Exchange, NEW c \in Client, ClientStart(c) PROVE Exchange'
<1> USE MessengerAssumption
<1>1. /\ cpc[c] = "out" /\ cpc'[c] = "begin" /\ cGot'[c] = <<>>
      /\ call'[c] = call[c] + 1 /\ call[c] \in Nat /\ call'[c] \in 1..MaxCalls
      /\ result'[c] = "pending"
      /\ \A d \in Client \ {c} : /\ cpc'[d] = cpc[d] /\ cGot'[d] = cGot[d]
                                 /\ call'[d] = call[d] /\ result'[d] = result[d]
      /\ UNCHANGED <<locks, header, serverVars, cPart, executed>>
  BY DEF ClientStart, IInv, TypeOK
<1>2. BufferFits' /\ ServerParts' /\ Phases'
  BY <1>1, ServerPartsKept DEF Exchange, BufferFits, Phases, header, serverVars
<1>3. Sending' /\ Answering'
  BY <1>1 DEF Exchange, Sending, Answering, locks, header, serverVars, Req
<1>4. ClientParts'
  BY <1>1, NoParts DEF Exchange, ClientParts, header, Req
<1>5. Calls'
  <2> SUFFICES ASSUME NEW d \in Client
               PROVE  /\ (cpc'[d] = "out") <=> (result'[d] # "pending")
                      /\ cpc'[d] \in {"begin", "enter", "ready", "produce",
                                      "sendWait"} => executed'[Req(d)'] = 0
                      /\ \A n \in 1..MaxCalls :
                            n > call'[d] => executed'[<<d, n>>] = 0
                      /\ result'[d] = "ok" => Complete(cGot'[d], Req(d)')
    BY DEF Calls, Complete
  <2>1. CASE d = c
    <3>1. executed'[Req(c)'] = 0
      <4>1. Req(c)' = <<c, call'[c]>> /\ call'[c] > call[c]
        BY <1>1 DEF Req
      <4> QED
        BY <1>1, <4>1 DEF Exchange, Calls
    <3>2. \A n \in 1..MaxCalls : n > call'[c] => executed'[<<c, n>>] = 0
      BY <1>1 DEF Exchange, Calls
    <3> QED
      BY <1>1, <2>1, <3>1, <3>2
  <2>2. CASE d # c
    BY <1>1, <2>2 DEF Exchange, Calls, Req
  <2> QED
    BY <2>1, <2>2
<1> QED
  BY <1>2, <1>3, <1>4, <1>5 DEF Exchange

LEMMA ClientTakeTxIsClean ==
    ASSUME IInv, Exchange, NEW c \in Client, ClientTakeTx(c) PROVE Exchange'
<1>1. CASE /\ txLock = "none"
           /\ cpc' = [cpc EXCEPT ![c] = "enter"]
           /\ UNCHANGED <<cPart, result>>
  <2>1. /\ cpc'[c] = "enter" /\ cpc[c] = "begin"
        /\ \A d \in Client \ {c} : cpc'[d] = cpc[d]
    BY <1>1 DEF ClientTakeTx, IInv, TypeOK
  <2>2. BufferFits' /\ ServerParts' /\ Phases'
    BY ServerPartsKept DEF ClientTakeTx, Exchange, BufferFits, Phases, header,
                           serverVars
  <2>3. Sending' /\ Answering'
    BY <1>1, MessengerAssumption
       DEF ClientTakeTx, Exchange, Sending, Answering, header
  <2>4. ClientParts'
    BY <1>1, <2>1 DEF ClientTakeTx, Exchange, ClientParts, header, Req,
                      FirstParts, Prefix
  <2>5. Calls'
    BY <1>1, <2>1, CallsKept DEF ClientTakeTx, Exchange, header
  <2> QED
    BY <2>2, <2>3, <2>4, <2>5 DEF Exchange
<1>2. CASE ClientReturns(c, "failed")
  BY <1>2, FailingIsClean DEF ClientTakeTx, header, serverVars
<1> QED
  BY <1>1, <1>2 DEF ClientTakeTx

LEMMA ClientEnterIsClean ==
    ASSUME IInv, Exchange, NEW c \in Client, ClientEnter(c) PROVE Exchange'
<1>1. cpc[c] = "enter" /\ txLock = c
  BY DEF ClientEnter, IInv, LockDiscipline, InTransaction
<1>2. CASE ClientBegins(c)
  BY <1>1, <1>2, BeginningIsClean DEF ClientEnter
<1>3. CASE /\ state # "READY"
           /\ cpc' = [cpc EXCEPT ![c] = "ready"]
           /\ UNCHANGED <<locks, state, cPart, cGot, result>>
  <2>1. /\ cpc'[c] = "ready"
        /\ \A d \in Client \ {c} : cpc'[d] = cpc[d]
    BY <1>3 DEF IInv, TypeOK
  <2>2. BufferFits' /\ ServerParts' /\ Phases' /\ Sending' /\ Answering'
    BY <1>1, <1>3, <2>1, ServerPartsKept
       DEF ClientEnter, Exchange, BufferFits, Phases, Sending, Answering, locks,
           Req
  <2>3. ClientParts'
    BY <1>1, <1>3, <2>1
       DEF ClientEnter, Exchange, ClientParts, Req, FirstParts, Prefix
  <2>4. Calls'
    BY <1>1, <1>3, <2>1, CallsKept DEF ClientEnter, Exchange
  <2> QED
    BY <2>2, <2>3, <2>4 DEF Exchange
<1>4. CASE ClientReturns(c, "failed") /\ UNCHANGED <<state, cGot>>
  BY <1>1, <1>4, FailingIsClean DEF ClientEnter
<1> QED
  BY <1>2, <1>3, <1>4 DEF ClientEnter

LEMMA ClientReadyIsClean ==
    ASSUME IInv, Exchange, NEW c \in Client, ClientReady(c) PROVE Exchange'
<1>1. cpc[c] = "ready" /\ txLock = c
  BY DEF ClientReady, ClientWakes, IInv, LockDiscipline, InTransaction
<1>2. CASE ClientBegins(c)
  BY <1>1, <1>2, BeginningIsClean DEF ClientReady
<1>3. CASE ClientSleepsAgain(c)
  BY <1>3, ClientSleepsOn DEF ClientReady
<1>4. CASE ClientReturns(c, "failed") /\ UNCHANGED <<state, cGot>>
  BY <1>1, <1>4, FailingIsClean DEF ClientReady
<1> QED
  BY <1>2, <1>3, <1>4 DEF ClientReady

\* A part of the request is written: it bears the request's name.
LEMMA ClientProduceIsClean ==
    ASSUME IInv, Exchange, NEW c \in Client, ClientProduce(c) PROVE Exchange'
<1> USE MessengerAssumption
<1>1. cpc[c] = "produce" /\ opLock = c /\ txLock = c
  BY DEF ClientProduce, IInv, LockDiscipline, ClientHoldsOp, InTransaction
<1>2. CASE ClientAborts(c) /\ UNCHANGED <<part, more, payload>>
  BY <1>1, <1>2, FailingIsClean DEF ClientProduce, ClientAborts
<1>3. ASSUME NEW m \in BOOLEAN,
             part' = cPart[c], more' = m,
             payload' = [id |-> <<c, call[c]>>, part |-> cPart[c], last |-> ~m],
             ClientWaits(c, IF m THEN "sendWait" ELSE "recvWait"),
             cPart' = [cPart EXCEPT ![c] = IF m THEN @ + 1 ELSE 0],
             UNCHANGED <<txLock, state, cGot, result>>
      PROVE  Exchange'
  <2>1. /\ cpc'[c] = IF m THEN "sendWait" ELSE "recvWait"
        /\ ~m => cPart'[c] = 0
        /\ \A d \in Client \ {c} : cpc'[d] = cpc[d] /\ cPart'[d] = cPart[d]
    BY <1>3 DEF ClientWaits, IInv, TypeOK
  <2>2. payload'.id = Req(c) /\ BufferFits'
    BY <1>3 DEF BufferFits, Req
  <2>3. spc # "recv" /\ \A d \in Client \ {c} : cpc[d] # "consume"
    BY <1>1 DEF IInv, LockDiscipline, ServerHoldsOp, ClientHoldsOp
  <2>4. state # "S2C"
    BY <1>1 DEF Exchange, Answering
  <2>5. ServerParts' /\ Phases' /\ Sending' /\ Answering'
    <3>1. ServerParts' /\ Phases'
      BY <1>3, <2>3, ServerPartsKept DEF ClientProduce, Exchange, Phases
    <3>2. Sending'
      BY <1>1, <1>3, <2>1, <2>2 DEF ClientProduce, Exchange, Sending, Req
    <3>3. Answering'
      BY <1>3, <2>4 DEF Answering
    <3> QED
      BY <3>1, <3>2, <3>3
  <2>6. ClientParts'
    BY <1>1, <1>3, <2>1, NoParts DEF ClientProduce, Exchange, ClientParts, Req
  <2>7. Calls'
    BY <1>1, <1>3, <2>1, CallsKept DEF ClientProduce, Exchange
  <2> QED
    BY <2>2, <2>5, <2>6, <2>7 DEF Exchange
<1> QED
  BY <1>2, <1>3 DEF ClientProduce

LEMMA ClientSendNextIsClean ==
    ASSUME IInv, Exchange, NEW c \in Client, ClientSendNext(c) PROVE Exchange'
<1> USE MessengerAssumption
<1>1. cpc[c] = "sendWait" /\ txLock = c /\ opLock = "none"
  BY DEF ClientSendNext, ClientWakes, IInv, LockDiscipline, InTransaction
<1>2. CASE ClientAborts(c)
  BY <1>1, <1>2, FailingIsClean DEF ClientSendNext, ClientAborts
<1>3. CASE ClientSleepsAgain(c)
  BY <1>3, ClientSleepsOn DEF ClientSendNext
<1>4. CASE ClientHolds(c, "produce", cPart[c]) /\ UNCHANGED state
  <2>1. /\ cpc'[c] = "produce"
        /\ \A d \in Client \ {c} : cpc'[d] = cpc[d] /\ cPart'[d] = cPart[d]
        /\ UNCHANGED <<txLock, cGot, result>>
    BY <1>4 DEF ClientHolds, IInv, TypeOK
  <2>2. BufferFits' /\ ServerParts' /\ Phases' /\ Sending' /\ Answering'
    BY <1>1, <1>4, <2>1, ServerPartsKept
       DEF ClientSendNext, Exchange, BufferFits, Phases, Sending, Answering, Req
  <2>3. ClientParts'
    BY <1>1, <1>4, <2>1
       DEF ClientSendNext, Exchange, ClientParts, Req, FirstParts, Prefix
  <2>4. Calls'
    BY <1>1, <2>1, CallsKept DEF ClientSendNext, Exchange
  <2> QED
    BY <2>2, <2>3, <2>4 DEF Exchange
<1> QED
  BY <1>2, <1>3, <1>4 DEF ClientSendNext

LEMMA ClientRecvNextIsClean ==
    ASSUME IInv, Exchange, NEW c \in Client, ClientRecvNext(c) PROVE Exchange'
<1> USE MessengerAssumption
<1>1. cpc[c] = "recvWait" /\ txLock = c /\ opLock = "none"
  BY DEF ClientRecvNext, ClientWakes, IInv, LockDiscipline, InTransaction
<1>2. CASE ClientAborts(c)
  BY <1>1, <1>2, FailingIsClean DEF ClientRecvNext, ClientAborts
<1>3. CASE ClientSleepsAgain(c)
  BY <1>3, ClientSleepsOn DEF ClientRecvNext
<1>4. CASE /\ state = "S2C"
           /\ ClientHolds(c, "consume", cPart[c]) /\ UNCHANGED state
  <2>1. /\ cpc'[c] = "consume" /\ cPart'[c] = cPart[c]
        /\ \A d \in Client \ {c} : cpc'[d] = cpc[d] /\ cPart'[d] = cPart[d]
        /\ UNCHANGED <<txLock, cGot, result>>
    BY <1>4 DEF ClientHolds, IInv, TypeOK
  <2>2. BufferFits' /\ ServerParts' /\ Phases' /\ Sending' /\ Answering'
    BY <1>1, <1>4, <2>1, ServerPartsKept
       DEF ClientRecvNext, Exchange, BufferFits, Phases, Sending, Answering, Req
  <2>3. ClientParts'
    BY <1>1, <1>4, <2>1
       DEF ClientRecvNext, Exchange, ClientParts, Req, FirstParts, Prefix
  <2>4. Calls'
    BY <1>1, <2>1, CallsKept DEF ClientRecvNext, Exchange
  <2> QED
    BY <2>2, <2>3, <2>4 DEF Exchange
<1> QED
  BY <1>2, <1>3, <1>4 DEF ClientRecvNext

\* A part of the answer is taken: it is the next one of this very request.
LEMMA ClientConsumeIsClean ==
    ASSUME IInv, Exchange, NEW c \in Client, ClientConsume(c) PROVE Exchange'
<1> USE MessengerAssumption
<1>1. /\ cpc[c] = "consume" /\ opLock = c /\ txLock = c
      /\ state = "S2C" /\ spc # "send" /\ spc # "recv" /\ part = cPart[c]
      /\ cGot[c] \in Seq(Piece) /\ payload \in Piece /\ cPart[c] \in Nat
  BY DEF ClientConsume, IInv, TypeOK, LockDiscipline, PartsKept, ClientHoldsOp,
         ServerHoldsOp, InTransaction, Exchange, ClientParts
<1>2. CASE ClientAborts(c)
  BY <1>1, <1>2, FailingIsClean DEF ClientConsume, ClientAborts
<1>3. payload = [id |-> Req(c), part |-> cPart[c], last |-> ~more]
  <2>1. payload.id = Req(c) /\ payload.part = cPart[c] /\ payload.last = ~more
    BY <1>1 DEF Exchange, Answering, BufferFits
  <2> QED
    BY <1>1, <2>1 DEF Piece
<1>4. FirstParts(cGot[c], cPart[c], Req(c))
  BY <1>1 DEF Exchange, ClientParts
<1>5. CASE /\ cGot' = [cGot EXCEPT ![c] = Append(@, payload)]
           /\ ~more /\ state' = "DONE" /\ ClientReturns(c, "ok")
  <2>1. /\ cGot'[c] = Append(cGot[c], payload)
        /\ \A d \in Client \ {c} : cGot'[d] = cGot[d]
    BY <1>5 DEF IInv, TypeOK
  <2>2. payload = [id |-> Req(c), part |-> cPart[c], last |-> TRUE]
    BY <1>3, <1>5
  <2>3. Complete(Append(cGot[c], payload), Req(c))
    BY <1>1, <1>4, <2>2, LastPart
  <2>4. Complete(cGot'[c], Req(c)) /\ Prefix(cGot'[c], Req(c))
    <3>1. Append(cGot[c], payload) \in Seq(Piece)
      BY <1>1
    <3>2. Prefix(Append(cGot[c], payload), Req(c))
      BY <2>3, <3>1, CompleteIsPrefix
    <3> QED
      BY <2>1, <2>3, <3>2
  <2> QED
    BY <1>1, <1>5, <2>1, <2>4, LeavingIsClean DEF ClientConsume
<1>6. CASE /\ cGot' = [cGot EXCEPT ![c] = Append(@, payload)]
           /\ more
           /\ ClientWaits(c, "recvWait")
           /\ cPart' = [cPart EXCEPT ![c] = @ + 1]
           /\ UNCHANGED <<txLock, state, result>>
  <2>1. /\ cGot'[c] = Append(cGot[c], payload)
        /\ cpc'[c] = "recvWait" /\ cPart'[c] = cPart[c] + 1
        /\ \A d \in Client \ {c} : /\ cGot'[d] = cGot[d] /\ cpc'[d] = cpc[d]
                                   /\ cPart'[d] = cPart[d]
    BY <1>6 DEF ClientWaits, IInv, TypeOK
  <2>2. payload = [id |-> Req(c), part |-> cPart[c], last |-> FALSE]
    BY <1>3, <1>6
  <2>3. FirstParts(Append(cGot[c], payload), cPart[c] + 1, Req(c))
    BY <1>1, <1>4, <2>2, NextPart
  <2>4. BufferFits' /\ ServerParts' /\ Phases' /\ Sending' /\ Answering'
    BY <1>1, <1>6, <2>1, ServerPartsKept
       DEF ClientConsume, Exchange, BufferFits, Phases, Sending, Answering, Req
  <2>5. ClientParts'
    <3> SUFFICES ASSUME NEW d \in Client
                 PROVE  /\ cpc'[d] \in {"begin", "enter", "ready", "produce",
                                        "sendWait"} => cGot'[d] = <<>>
                        /\ cpc'[d] \in {"recvWait", "consume"}
                              => FirstParts(cGot'[d], cPart'[d], Req(d)')
                        /\ cpc'[d] = "consume" => state' = "S2C"
                        /\ cpc'[d] = "out" => Prefix(cGot'[d], Req(d)')
      BY DEF ClientParts, FirstParts, Prefix
    <3>1. CASE d = c
      BY <2>1, <2>3, <3>1 DEF ClientConsume, Req
    <3>2. CASE d # c
      BY <1>6, <2>1, <3>2 DEF ClientConsume, Exchange, ClientParts, Req
    <3> QED
      BY <3>1, <3>2
  <2>6. Calls'
    <3> SUFFICES ASSUME NEW d \in Client
                 PROVE  /\ (cpc'[d] = "out") <=> (result'[d] # "pending")
                        /\ cpc'[d] \in {"begin", "enter", "ready", "produce",
                                        "sendWait"} => executed'[Req(d)'] = 0
                        /\ \A n \in 1..MaxCalls :
                              n > call'[d] => executed'[<<d, n>>] = 0
                        /\ result'[d] = "ok" => Complete(cGot'[d], Req(d)')
      BY DEF Calls, Complete
    <3>1. CASE d = c
      BY <1>1, <1>6, <2>1, <3>1 DEF ClientConsume, Exchange, Calls
    <3>2. CASE d # c
      BY <1>6, <2>1, <3>2 DEF ClientConsume, Exchange, Calls, Req
    <3> QED
      BY <3>1, <3>2
  <2> QED
    BY <2>4, <2>5, <2>6 DEF Exchange
<1> QED
  BY <1>2, <1>5, <1>6 DEF ClientConsume

LEMMA ClientIsClean ==
    ASSUME IInv, Exchange, NEW c \in Client, ClientNext(c) PROVE Exchange'
BY ClientStartIsClean, ClientTakeTxIsClean, ClientEnterIsClean,
   ClientReadyIsClean, ClientProduceIsClean, ClientSendNextIsClean,
   ClientRecvNextIsClean, ClientConsumeIsClean DEF ClientNext

-----------------------------------------------------------------------------
(* The signal thread, the clock and the scheduler.                         *)

\* The signal thread has the transaction lock when no client has it, so not
\* while an exchange is under way.
LEMMA BreakIsClean == ASSUME IInv, Exchange, BreakNext PROVE Exchange'
<1> USE MessengerAssumption
<1>1. UNCHANGED <<state, part, more, payload, spc, sPart, sGot, cpc, cPart,
                  cGot, call, result, executed>>
  BY DEF BreakNext, BreakCalled, BreakTakeTx, BreakTakeOp, locks, header,
         serverVars, clientVars, SignalServer
<1>2. txLock' = txLock \/ txLock \notin Client
  BY DEF BreakNext, BreakCalled, BreakTakeTx, BreakTakeOp, locks, IInv,
         LockDiscipline
<1>3. Sending' /\ Answering'
  BY <1>1, <1>2 DEF Exchange, Sending, Answering, Req
<1>4. BufferFits' /\ ServerParts' /\ Phases' /\ ClientParts' /\ Calls'
  BY <1>1, ServerPartsKept, ClientPartsKept, CallsKept
     DEF Exchange, BufferFits, Phases
<1> QED
  BY <1>3, <1>4 DEF Exchange

LEMMA ClockIsClean ==
    ASSUME Exchange, \/ ServerDeadline
                     \/ \E c \in Client : ClientDeadline(c)
                     \/ Spurious
    PROVE  Exchange'
BY NothingMoves DEF ServerDeadline, ClientDeadline, Spurious, locks, header,
                    serverVars, clientVars

-----------------------------------------------------------------------------
(* The invariant.                                                          *)

LEMMA InitExchange == ASSUME Init PROVE Exchange
<1> USE MessengerAssumption DEF Init
<1>1. BufferFits /\ ServerParts /\ Phases /\ Sending /\ Answering
  BY DEF BufferFits, Blank, ServerParts, Phases, Sending, Answering
<1>2. ClientParts
  BY NoParts DEF ClientParts
<1>3. Calls
  <2>1. ASSUME NEW c \in Client, NEW n \in 1..MaxCalls
        PROVE  executed[<<c, n>>] = 0
    BY DEF Id
  <2> QED
    BY <2>1 DEF Calls
<1> QED
  BY <1>1, <1>2, <1>3 DEF Exchange

LEMMA StepExchange == ASSUME IInv, Exchange, [Next]_vars PROVE Exchange'
<1>1. CASE Next
  BY <1>1, ServerIsClean, ClientIsClean, BreakIsClean, ClockIsClean DEF Next
<1>2. CASE UNCHANGED vars
  BY <1>2, NothingMoves DEF vars, locks, header, serverVars, clientVars
<1> QED
  BY <1>1, <1>2

LEMMA ExchangeInvariance == Spec => [](IInv /\ Exchange)
<1>1. Init => IInv /\ Exchange
  BY InitInv, InitExchange
<1>2. IInv /\ Exchange /\ [Next]_vars => IInv' /\ Exchange'
  BY StepInv, StepExchange
<1> QED
  BY <1>1, <1>2, PTL DEF Spec

\* The lockstep of producer and consumer: whatever timed out, failed or was
\* broken off before, a consumer is given the parts of one message, each once
\* and in order, and an answer that belongs to its request.
THEOREM PartsStayInStep == Spec => []Lockstep
<1>1. ASSUME IInv, Exchange PROVE Lockstep
  <2> DEFINE InOrder == /\ \E i \in Id : Prefix(sGot, i)
                        /\ spc = "send" => Complete(sGot, sGot[1].id)
  <2>1. sGot \in Seq(Piece) /\ sPart \in Nat /\ spc \in ServerPC
    BY <1>1, MessengerAssumption DEF IInv, TypeOK
  <2>2. ASSUME spc \in {"start", "idle", "join", "stopped"} PROVE InOrder
    <3>1. sGot = <<>>
      BY <1>1, <2>2 DEF Exchange, ServerParts
    <3>2. PICK c \in Client : <<c, 1>> \in Id
      BY MessengerAssumption, SomeClient DEF Id
    <3> QED
      BY <2>2, <3>1, <3>2, NoParts
  <2>3. ASSUME spc \in {"recv", "recvWait"} PROVE InOrder
    <3>1. PICK i \in Id, n \in {sPart, sPart + 1} : FirstParts(sGot, n, i)
      BY <1>1, <2>3 DEF Exchange, ServerParts
    <3>2. Prefix(sGot, i)
      BY <2>1, <3>1, FirstIsPrefix
    <3> QED
      BY <2>3, <3>2
  <2>4. ASSUME spc \in {"send", "sendWait", "fin"} PROVE InOrder
    <3>1. PICK i \in Id : Complete(sGot, i)
      BY <1>1, <2>4 DEF Exchange, ServerParts
    <3>2. Prefix(sGot, i) /\ sGot[1].id = i
      BY <2>1, <3>1, CompleteIsPrefix
    <3> QED
      BY <3>1, <3>2
  <2>5. InOrder
    BY <2>1, <2>2, <2>3, <2>4 DEF ServerPC
  <2>6. \A c \in Client : Prefix(cGot[c], <<c, call[c]>>)
    BY <1>1, AnswerInOrder DEF Req
  <2> QED
    BY <2>5, <2>6 DEF Lockstep
<1> QED
  BY <1>1, ExchangeInvariance, PTL

-----------------------------------------------------------------------------
(* The messenger implements IpcCall.                                       *)

\* No answer is garbled, so a caller sees how its call ended; and the client
\* that owns the server is the one in the exchange, of which there is one.
CallerSees ==
    /\ [c \in Client |-> Outcome(c)] = result
    /\ \A c \in Client : CallOwner = c <=> Owning(c)
    /\ CallOwner = "none" <=> \A c \in Client : ~Owning(c)
    /\ CallOwner \in Client \cup {"none"}

LEMMA CallerSeesIt == IInv /\ Exchange => CallerSees
<1> SUFFICES ASSUME IInv, Exchange PROVE CallerSees
  OBVIOUS
<1>1. [c \in Client |-> Outcome(c)] = result
  <2>1. \A c \in Client : Outcome(c) = result[c]
    BY DEF Exchange, Calls, Outcome, Req
  <2> QED
    BY <2>1 DEF IInv, TypeOK
<1>2. \A c \in Client : Owning(c) => txLock = c
  BY DEF IInv, LockDiscipline, InTransaction, Owning
<1>3. "none" \notin Client
  BY MessengerAssumption
<1>4. CASE \E c \in Client : Owning(c)
  BY <1>1, <1>2, <1>3, <1>4 DEF CallOwner, CallerSees
<1>5. CASE ~\E c \in Client : Owning(c)
  BY <1>1, <1>3, <1>5 DEF CallOwner, CallerSees
<1> QED
  BY <1>4, <1>5

LEMMA CallerSeesItThen == ASSUME IInv', Exchange' PROVE CallerSees'
BY CallerSeesIt, PTL

\* The two lemmas apply to both ends of every step.
Seen == IInv /\ Exchange /\ CallerSees /\ IInv' /\ Exchange' /\ CallerSees'

\* The variables of IpcCall, as the messenger keeps them.
callVars == <<call, [c \in Client |-> Outcome(c)], CallOwner, executed>>

\* Steps a caller does not see.
LEMMA Unseen ==
    ASSUME Seen, UNCHANGED <<call, result, executed>>,
           \A c \in Client : Owning(c)' <=> Owning(c)
    PROVE  UNCHANGED callVars
<1>1. CallOwner' = CallOwner
  BY DEF Seen, CallerSees
<1> QED
  BY <1>1 DEF Seen, CallerSees, callVars

\* A call that fails, whether it had the server or not.
LEMMA SeenToFail ==
    ASSUME Seen, NEW c \in Client, ClientReturns(c, "failed"), cpc[c] # "out",
           UNCHANGED <<call, executed>>
    PROVE  AbstractCall!Next
<1>1. /\ ~Owning(c)' /\ result[c] = "pending"
      /\ \A d \in Client \ {c} : Owning(d)' <=> Owning(d)
  BY DEF Seen, IInv, TypeOK, Exchange, Calls, ClientReturns, Owning
<1>2. CallOwner' = IF CallOwner = c THEN "none" ELSE CallOwner
  <2>1. "none" \notin Client
    BY MessengerAssumption
  <2>2. CASE CallOwner = c
    <3>1. \A d \in Client \ {c} : ~Owning(d)
      BY <2>2 DEF Seen, CallerSees
    <3> QED
      BY <1>1, <2>2, <3>1 DEF Seen, CallerSees
  <2>3. CASE CallOwner # c
    BY <1>1, <2>1, <2>3 DEF Seen, CallerSees
  <2> QED
    BY <2>2, <2>3
<1>3. AbstractCall!Fail(c)
  BY <1>1, <1>2 DEF Seen, CallerSees, ClientReturns, AbstractCall!Fail
<1> QED
  BY <1>3 DEF AbstractCall!Next

\* A client that finds READY gets the server.
LEMMA SeenToAcquire ==
    ASSUME Seen, NEW c \in Client, ClientBegins(c), txLock = c,
           cpc[c] \in {"enter", "ready"}, UNCHANGED <<call, executed>>
    PROVE  AbstractCall!Next
<1>1. Owning(c)' /\ result' = result
  BY DEF Seen, IInv, TypeOK, ClientBegins, ClientHolds, Owning
<1>2. result[c] = "pending"
  BY DEF Seen, Exchange, Calls
<1>3. \A d \in Client : ~Owning(d)
  BY DEF Seen, IInv, LockDiscipline, InTransaction, Owning
<1>4. CallOwner = "none" /\ CallOwner' = c
  BY <1>1, <1>3 DEF Seen, CallerSees
<1>5. AbstractCall!Acquire(c)
  BY <1>1, <1>2, <1>4 DEF Seen, CallerSees, AbstractCall!Acquire
<1> QED
  BY <1>5 DEF AbstractCall!Next

\* The mainloop thread: only the last part of a request is seen, which is when
\* the request is carried out, for the client that owns the server.
LEMMA SeenOfServer ==
    ASSUME Seen, ServerNext
    PROVE  AbstractCall!Next \/ UNCHANGED callVars
<1>1. UNCHANGED <<call, result, cpc>>
  BY DEF ServerNext, ServerStart, ServerPoll, ServerEvent, ServerConsume,
         ServerRecvNext, ServerProduce, ServerSendNext, ServerFinish,
         ServerJoin, clientVars
<1>2. \A c \in Client : Owning(c)' <=> Owning(c)
  BY <1>1 DEF Owning
<1>3. CASE executed' = executed
  BY <1>1, <1>2, <1>3, Unseen
<1>4. CASE /\ spc = "recv" /\ ~more
           /\ executed' = [executed EXCEPT ![payload.id] = @ + 1]
  <2>1. /\ txLock \in Client /\ Owning(txLock)
        /\ payload.id = Req(txLock) /\ executed[Req(txLock)] = 0
    <3>1. state = "C2S" /\ opLock = "server"
      BY <1>4 DEF Seen, Exchange, Phases, IInv, LockDiscipline, ServerHoldsOp
    <3>2. \A c \in Client : cpc[c] # "produce"
      BY <3>1, MessengerAssumption DEF Seen, IInv, LockDiscipline, ClientHoldsOp
    <3> QED
      BY <3>1, <3>2 DEF Seen, Exchange, Sending, Owning
  <2>2. executed' = [executed EXCEPT ![<<txLock, call[txLock]>>] = 1]
    <3>1. Req(txLock) \in Id
      BY <2>1 DEF Seen, IInv, TypeOK, PartsKept, Owning, Req, Id
    <3> QED
      BY <1>4, <2>1, <3>1 DEF Seen, IInv, TypeOK, Req
  <2>3. CallOwner = txLock /\ CallOwner' = CallOwner
    BY <1>2, <2>1 DEF Seen, CallerSees
  <2>4. AbstractCall!Execute(txLock)
    BY <1>1, <2>1, <2>2, <2>3 DEF Seen, CallerSees, AbstractCall!Execute, Req
  <2> QED
    BY <2>1, <2>4 DEF AbstractCall!Next
<1>5. executed' = executed \/ (/\ spc = "recv" /\ ~more
                               /\ executed' = [executed EXCEPT ![payload.id] = @ + 1])
  BY DEF ServerNext, ServerStart, ServerPoll, ServerEvent, ServerConsume,
         ServerRecvNext, ServerProduce, ServerSendNext, ServerFinish, ServerJoin
<1> QED
  BY <1>3, <1>4, <1>5

\* A client: its call begins, gets the server, and returns.
LEMMA SeenOfClient ==
    ASSUME Seen, NEW c \in Client, ClientNext(c)
    PROVE  AbstractCall!Next \/ UNCHANGED callVars
<1>1. CASE ClientStart(c)
  <2>1. /\ call' = [call EXCEPT ![c] = @ + 1]
        /\ result' = [result EXCEPT ![c] = "pending"]
        /\ call[c] < MaxCalls /\ executed' = executed
        /\ result[c] # "pending"
    BY <1>1 DEF ClientStart, Seen, Exchange, Calls
  <2>2. \A d \in Client : Owning(d)' <=> Owning(d)
    BY <1>1 DEF ClientStart, Owning, Seen, IInv, TypeOK
  <2>3. CallOwner' = CallOwner
    BY <2>2 DEF Seen, CallerSees
  <2>4. AbstractCall!Issue(c)
    BY <2>1, <2>3 DEF Seen, CallerSees, AbstractCall!Issue
  <2> QED
    BY <2>4 DEF AbstractCall!Next
<1>2. UNCHANGED executed /\ (UNCHANGED call \/ ClientStart(c))
  BY DEF ClientNext, ClientStart, ClientTakeTx, ClientEnter, ClientReady,
         ClientProduce, ClientSendNext, ClientRecvNext, ClientConsume
<1>3. CASE UNCHANGED call /\ cpc[c] # "out" /\ ClientReturns(c, "failed")
  BY <1>2, <1>3, SeenToFail
<1>4. CASE /\ UNCHANGED call /\ txLock = c /\ cpc[c] \in {"enter", "ready"}
           /\ ClientBegins(c)
  BY <1>2, <1>4, SeenToAcquire
<1>5. CASE UNCHANGED <<call, result>> /\ Owning(c)' = Owning(c)
           /\ \A d \in Client \ {c} : cpc'[d] = cpc[d]
  BY <1>2, <1>5, Unseen DEF Owning
<1>6. CASE UNCHANGED call /\ cpc[c] = "consume" /\ ClientReturns(c, "ok")
  <2>1. /\ state = "S2C" /\ txLock = c /\ Owning(c)
        /\ executed[Req(c)] = 1
    BY <1>6 DEF Seen, Exchange, ClientParts, Answering, IInv, LockDiscipline,
                InTransaction, Owning
  <2>2. ~Owning(c)' /\ \A d \in Client \ {c} : Owning(d)' <=> Owning(d)
    BY <1>6 DEF ClientReturns, Seen, IInv, TypeOK, Owning
  <2>3. CallOwner = c /\ CallOwner' = "none"
    BY <2>1, <2>2 DEF Seen, CallerSees
  <2>4. AbstractCall!Succeed(c)
    BY <1>2, <1>6, <2>1, <2>3
       DEF ClientReturns, Seen, CallerSees, AbstractCall!Succeed, Req
  <2> QED
    BY <2>4 DEF AbstractCall!Next
<1>7. /\ cpc \in [Client -> ClientPC]
      /\ InTransaction(c) => txLock = c
  BY DEF Seen, IInv, TypeOK, LockDiscipline
<1>8. CASE ClientTakeTx(c)
  <2>1. cpc[c] = "begin" /\ UNCHANGED call
    BY <1>8 DEF ClientTakeTx
  <2>2. CASE cpc' = [cpc EXCEPT ![c] = "enter"] /\ UNCHANGED result
    BY <1>5, <1>7, <2>1, <2>2 DEF Owning
  <2> QED
    BY <1>3, <1>8, <2>1, <2>2 DEF ClientTakeTx
<1>9. CASE ClientEnter(c)
  <2>1. cpc[c] = "enter" /\ UNCHANGED call /\ txLock = c
    BY <1>7, <1>9 DEF ClientEnter, InTransaction
  <2>2. CASE cpc' = [cpc EXCEPT ![c] = "ready"] /\ UNCHANGED result
    BY <1>5, <1>7, <2>1, <2>2 DEF Owning
  <2> QED
    BY <1>3, <1>4, <1>9, <2>1, <2>2 DEF ClientEnter
<1>10. CASE ClientReady(c)
  <2>1. cpc[c] = "ready" /\ UNCHANGED call /\ txLock = c
    BY <1>7, <1>10 DEF ClientReady, ClientWakes, InTransaction
  <2>2. CASE UNCHANGED <<cpc, result>>
    BY <1>5, <2>1, <2>2 DEF Owning
  <2> QED
    BY <1>3, <1>4, <1>10, <2>1, <2>2 DEF ClientReady, ClientSleepsAgain
<1>11. CASE ClientProduce(c) \/ ClientSendNext(c) \/ ClientRecvNext(c)
            \/ ClientConsume(c)
  <2>1. Owning(c) /\ cpc[c] # "out" /\ UNCHANGED call
    BY <1>11 DEF ClientProduce, ClientSendNext, ClientRecvNext, ClientConsume,
                 ClientWakes, Owning
  <2>2. CASE UNCHANGED <<cpc, result>>
    BY <1>5, <2>1, <2>2 DEF Owning
  <2>3. ASSUME NEW where \in {"produce", "consume", "sendWait", "recvWait"},
               cpc' = [cpc EXCEPT ![c] = where], UNCHANGED result
        PROVE  AbstractCall!Next \/ UNCHANGED callVars
    BY <1>5, <1>7, <2>1, <2>3 DEF Owning
  <2>4. CASE ClientAborts(c)
    BY <1>3, <2>1, <2>4 DEF ClientAborts
  <2>5. CASE ClientProduce(c)
    <3>1. ASSUME NEW m \in BOOLEAN,
                 ClientWaits(c, IF m THEN "sendWait" ELSE "recvWait"),
                 UNCHANGED result
          PROVE  AbstractCall!Next \/ UNCHANGED callVars
      BY <2>3, <3>1 DEF ClientWaits
    <3> QED
      BY <2>4, <2>5, <3>1 DEF ClientProduce
  <2>6. CASE ClientSendNext(c)
    BY <2>2, <2>3, <2>4, <2>6
       DEF ClientSendNext, ClientSleepsAgain, ClientHolds
  <2>7. CASE ClientRecvNext(c)
    BY <2>2, <2>3, <2>4, <2>7
       DEF ClientRecvNext, ClientSleepsAgain, ClientHolds
  <2>8. CASE ClientConsume(c)
    BY <1>6, <2>1, <2>3, <2>4, <2>8 DEF ClientConsume, ClientWaits
  <2> QED
    BY <1>11, <2>5, <2>6, <2>7, <2>8
<1> QED
  BY <1>1, <1>8, <1>9, <1>10, <1>11 DEF ClientNext

LEMMA SeenOfOthers ==
    ASSUME Seen, \/ BreakNext
                 \/ ServerDeadline
                 \/ \E c \in Client : ClientDeadline(c)
                 \/ Spurious
                 \/ UNCHANGED vars
    PROVE  UNCHANGED callVars
<1>1. UNCHANGED <<call, result, executed, cpc>>
  BY DEF BreakNext, BreakCalled, BreakTakeTx, BreakTakeOp, ServerDeadline,
         ClientDeadline, Spurious, vars, clientVars
<1> QED
  BY <1>1, Unseen DEF Owning

LEMMA SeenFirst == ASSUME Init PROVE AbstractCall!Init
<1>1. [c \in Client |-> Outcome(c)] = [c \in Client |-> "none"]
  BY DEF Init, Outcome
<1>2. CallOwner = "none"
  BY DEF Init, CallOwner, Owning
<1> QED
  BY <1>1, <1>2 DEF Init, AbstractCall!Init, AbstractCall!Id, Id

\* The messenger keeps the promise of ipc_msg.h, whatever fails: an exchange
\* is exclusive, a request is carried out at most once and never after its
\* caller gave up, and a call that succeeds got its own complete answer.
THEOREM MessengerImplementsCall == Spec => CallsAreAtomic
<1>1. Init => AbstractCall!Init
  BY SeenFirst
<1>2. ASSUME IInv /\ Exchange, (IInv /\ Exchange)', [Next]_vars
      PROVE  [AbstractCall!Next]_callVars
  <2>1. Seen
    BY <1>2, CallerSeesIt, CallerSeesItThen DEF Seen
  <2> QED
    BY <1>2, <2>1, SeenOfServer, SeenOfClient, SeenOfOthers DEF Next
<1> QED
  BY <1>1, <1>2, ExchangeInvariance, PTL
     DEF Spec, CallsAreAtomic, AbstractCall!Spec, callVars
=============================================================================
