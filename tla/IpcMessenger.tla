---------------------------- MODULE IpcMessenger ----------------------------
(***************************************************************************)
(* The shared memory messenger of src/ipc: one server, which runs          *)
(* ipc_msg_server_mainloop, and clients that each call                     *)
(* tinia_ipc_msg_client_sendrecv.  They share a header (state, part, more, *)
(* two predicates), a buffer that holds one message part, two mutexes and  *)
(* two condition variables.                                                *)
(*                                                                         *)
(* The header is only touched under the operation lock, so a stretch of    *)
(* code that holds it is one step, except where it calls a producer, a     *)
(* consumer or a handler: those take time, and the step ends there with    *)
(* the lock held.  Long-polling and notification are in LongPoll.         *)
(***************************************************************************)
EXTENDS Integers, Sequences, Pthread

CONSTANTS Client,    \* the processes that talk to the server
          MaxCalls,  \* bound: calls per client
          MaxPart,   \* bound: a message has parts 0 .. MaxPart at most
          Faults     \* which of the failures below may happen

FaultKind == {"callback",  \* producers, consumers, handlers report an error
              "fatal",     \* handlers give no callback, or periodic() fails
              "deadline",  \* a timed wait or a timed lock runs out of time
              "spurious",  \* pthread_cond_timedwait returns for no reason
              "break",     \* a handler or another thread stops the mainloop
             "finish"}    \* Job::periodic stops the mainloop

ASSUME MessengerAssumption ==
    /\ MaxCalls \in Nat \ {0}
    /\ MaxPart \in Nat
    /\ Faults \subseteq FaultKind
    /\ Client \cap {"none", "server", "breaker"} = {}

\* Somebody writes into the segment.
ASSUME SomeClient == Client # {}

VARIABLES
    txLock, opLock,                  \* owners of the two mutexes
    state, part, more, payload,      \* header and buffer: the part in transit
    running, sPred, cPred,           \* header: flags the waits test
    spc, sWait, sPart, sGot,         \* the mainloop thread
    cpc, cWait, cPart, cGot,         \* the client threads
    call, result,                    \* calls made, and how the last one ended
    bpc,                             \* the thread that calls mainloop_break
    executed                         \* how often each request was carried out

locks      == <<txLock, opLock>>
header     == <<state, part, more, payload, running, sPred, cPred>>
serverVars == <<spc, sWait, sPart, sGot>>
clientVars == <<cpc, cWait, cPart, cGot, call, result>>
vars       == <<locks, header, serverVars, clientVars, bpc, executed>>

Owner     == Client \cup {"none", "server", "breaker"}
MsgState  == {"READY", "C2S", "S2C", "DONE", "ERROR"}
Id        == Client \X (1..MaxCalls)      \* a request: who, and which call
NoId      == <<"none", 0>>
Piece     == [id : Id \cup {NoId}, part : 0..MaxPart, last : BOOLEAN]
\* The buffer before anything was written to it.
Blank     == [id |-> NoId, part |-> 0, last |-> TRUE]

ServerPC  == {"start", "idle", "recv", "recvWait", "send", "sendWait", "fin",
              "join", "stopped"}
ClientPC  == {"out", "begin", "enter", "ready", "produce", "sendWait",
              "recvWait", "consume"}
BreakPC   == {"absent", "sigwait", "lockTx", "lockOp", "dead"}

\* A complete message that belongs to request i: every part once, in order.
Complete(msg, i) ==
    /\ msg # <<>>
    /\ \A k \in DOMAIN msg : msg[k] = [id   |-> i,
                                       part |-> k - 1,
                                       last |-> (k = Len(msg))]

Init ==
    /\ txLock = "none" /\ opLock = "none"
    /\ state = "ERROR" /\ part = 0 /\ more = FALSE /\ payload = Blank
    /\ running = FALSE /\ sPred = FALSE /\ cPred = FALSE
    /\ spc = "start" /\ sWait = "awake" /\ sPart = 0 /\ sGot = <<>>
    /\ cpc = [c \in Client |-> "out"]
    /\ cWait = [c \in Client |-> "awake"]
    /\ cPart = [c \in Client |-> 0]
    /\ cGot = [c \in Client |-> <<>>]
    /\ call = [c \in Client |-> 0]
    /\ result = [c \in Client |-> "none"]
    /\ bpc = "absent"
    /\ executed = [i \in Id |-> 0]

-----------------------------------------------------------------------------
(* The server: the mainloop thread.                                        *)

\* MUTANT of EndIteration: the next iteration does not go back to READY.
EndIterationKeepsState(ret, stillRunning, waits) ==
    /\ sPart' = 0 /\ sGot' = <<>>
    /\ \/ /\ ret > -2 /\ stillRunning
          /\ \E w \in waits : cWait' \in CondSignal(w)
          /\ sPred' = FALSE
          /\ spc' = "idle" /\ sWait' = "asleep" /\ opLock' = "none"
          /\ UNCHANGED state
       \/ /\ ~(ret > -2 /\ stillRunning)
          /\ state' = "DONE"
          /\ cWait' \in waits
          /\ spc' = "join" /\ sWait' = "awake" /\ opLock' = "server"
          /\ UNCHANGED sPred

\* An iteration has returned ret, holding the operation lock; waits holds
\* what the client waits may be by then.  mainloop either starts the next
\* iteration, up to its first sleep, or leaves and joins the signal thread
\* without giving the lock up.
EndIteration(ret, stillRunning, waits) ==
    /\ sPart' = 0 /\ sGot' = <<>>
    /\ \/ /\ ret > -2 /\ stillRunning
          /\ state' = "READY"
          /\ \E w \in waits : cWait' \in CondSignal(w)
          /\ sPred' = FALSE
          /\ spc' = "idle" /\ sWait' = "asleep" /\ opLock' = "none"
       \/ /\ ~(ret > -2 /\ stillRunning)
          /\ state' = "DONE"
          /\ cWait' \in waits
          /\ spc' = "join" /\ sWait' = "awake" /\ opLock' = "server"
          /\ UNCHANGED sPred

\* The server's error path: state = ERROR, signal the client, return ret.
\* Nobody sees ERROR, because the iteration ends before the lock is free.
ServerAbort(ret) ==
    /\ cPred' = TRUE
    /\ EndIteration(ret, running, CondSignal(cWait))
    /\ UNCHANGED <<part, more, payload, running>>

\* ipc_msg_server_wait_client, up to the release of the operation lock.
ServerWaits(where) ==
    /\ sPred' = FALSE
    /\ spc' = where /\ sWait' = "asleep" /\ opLock' = "none"

\* The wait was woken and the mutex is back.
ServerWakes(where) ==
    /\ spc = where /\ Returning(sWait) /\ opLock = "none"

SleepAgain ==
    /\ sWait' = "asleep"
    /\ UNCHANGED <<locks, header, spc, sPart, sGot, cWait>>

ServerStart ==
    /\ spc = "start" /\ opLock = "none"
    /\ running' = TRUE
    /\ bpc' = "sigwait"
    /\ EndIteration(0, TRUE, {cWait})
    /\ UNCHANGED <<txLock, part, more, payload, cPred, cpc, cPart, cGot, call,
                   result, executed>>

\* A turn of the loop in which mainloop_iteration waits for a client.
ServerPoll ==
    /\ ServerWakes("idle")
    /\ ~sPred
    /\ \/ SleepAgain
       \/ /\ "finish" \in Faults /\ running  \* mainloop_break in periodic()
          /\ running' = FALSE
          /\ sWait' = "asleep"
          /\ UNCHANGED <<locks, state, part, more, payload, sPred, cPred, spc,
                         sPart, sGot, cWait>>
       \/ /\ "fatal" \in Faults              \* periodic() failed
          /\ EndIteration(-2, running, {cWait})
          /\ UNCHANGED <<txLock, part, more, payload, running, cPred>>
    /\ UNCHANGED <<cpc, cPart, cGot, call, result, bpc, executed>>

\* The loop ends because somebody set the predicate; the first part is in the
\* buffer, or a client gave up, or the mainloop has to stop.
ServerEvent ==
    /\ ServerWakes("idle")
    /\ sPred
    /\ \/ /\ ~running
          /\ EndIteration(0, running, {cWait})
          /\ UNCHANGED <<part, more, payload, running, cPred>>
       \/ /\ running /\ state # "C2S"
          /\ EndIteration(-1, running, {cWait})
          /\ UNCHANGED <<part, more, payload, running, cPred>>
       \/ /\ running /\ state = "C2S" /\ part # 0
          /\ ServerAbort(-1)
       \/ /\ running /\ state = "C2S" /\ part = 0
          /\ spc' = "recv" /\ sWait' = "awake" /\ opLock' = "server"
          /\ UNCHANGED <<header, sPart, sGot, cWait>>
    /\ UNCHANGED <<txLock, cpc, cPart, cGot, call, result, bpc, executed>>

\* Input handler and consumer return for the part in the buffer.  With the
\* last part the request is carried out, which may break the mainloop from
\* its own thread, and server_send begins.
ServerConsume ==
    /\ spc = "recv"
    /\ \/ /\ "callback" \in Faults
          /\ ServerAbort(-1)
          /\ UNCHANGED executed
       \/ /\ "fatal" \in Faults /\ sPart = 0      \* handler gave no consumer
          /\ ServerAbort(-2)
          /\ UNCHANGED executed
       \/ /\ more
          /\ sGot' = Append(sGot, payload)
          /\ cPred' = TRUE
          /\ cWait' \in CondSignal(cWait)
          /\ ServerWaits("recvWait")
          /\ UNCHANGED <<state, part, more, payload, running, sPart, executed>>
       \/ /\ ~more
          /\ sGot' = Append(sGot, payload)
          /\ executed' = [executed EXCEPT ![payload.id] = @ + 1]
          /\ running' \in {running} \cup {FALSE : f \in Faults \cap {"break"}}
          /\ state' = "S2C"
          /\ spc' = "send" /\ sPart' = 0
          /\ UNCHANGED <<opLock, part, more, payload, sPred, cPred, sWait, cWait>>
    /\ UNCHANGED <<txLock, cpc, cPart, cGot, call, result, bpc>>

\* MUTANT of ServerRecvNext: the wait is not repeated and nothing verified.
ServerRecvNextTrustsWakeup ==
    /\ ServerWakes("recvWait")
    /\ \/ /\ sWait = "expired"
          /\ EndIteration(-1, running, {cWait})
          /\ UNCHANGED <<part, more, payload, running, cPred>>
       \/ /\ sWait = "signalled" /\ sPart < MaxPart
          /\ spc' = "recv" /\ sPart' = sPart + 1
          /\ sWait' = "awake" /\ opLock' = "server"
          /\ UNCHANGED <<header, sGot, cWait>>
    /\ UNCHANGED <<txLock, cpc, cPart, cGot, call, result, bpc, executed>>

\* wait_client returns in server_recv: on time with the next part, or not.
ServerRecvNext ==
    /\ ServerWakes("recvWait")
    /\ \/ /\ sWait = "expired"
          /\ EndIteration(-1, running, {cWait})
          /\ UNCHANGED <<part, more, payload, running, cPred>>
       \/ /\ sWait = "signalled" /\ ~sPred
          /\ SleepAgain
       \/ /\ sWait = "signalled" /\ sPred
          /\ state # "C2S" \/ part # sPart + 1
          /\ ServerAbort(-1)
       \/ /\ sWait = "signalled" /\ sPred
          /\ state = "C2S" /\ part = sPart + 1
          /\ spc' = "recv" /\ sPart' = sPart + 1
          /\ sWait' = "awake" /\ opLock' = "server"
          /\ UNCHANGED <<header, sGot, cWait>>
    /\ UNCHANGED <<txLock, cpc, cPart, cGot, call, result, bpc, executed>>

\* Output handler and producer return; the part goes to the buffer.  The wait
\* after the last part is mainloop_iteration's own and resets no predicate.
ServerProduce ==
    /\ spc = "send"
    /\ \/ /\ "callback" \in Faults
          /\ ServerAbort(-1)
       \/ /\ "fatal" \in Faults /\ sPart = 0      \* handler gave no producer
          /\ ServerAbort(-2)
       \/ \E m \in BOOLEAN :
             /\ m => sPart < MaxPart
             /\ part' = sPart /\ more' = m
             /\ payload' = [id |-> Head(sGot).id, part |-> sPart, last |-> ~m]
             /\ cPred' = TRUE
             /\ cWait' \in CondSignal(cWait)
             /\ \/ m /\ ServerWaits("sendWait")
                \/ /\ ~m
                   /\ spc' = "fin" /\ sWait' = "asleep" /\ opLock' = "none"
                   /\ UNCHANGED sPred
             /\ UNCHANGED <<state, running, sPart, sGot>>
    /\ UNCHANGED <<txLock, cpc, cPart, cGot, call, result, bpc, executed>>

\* wait_client returns in server_send: the client took the part, or not.
ServerSendNext ==
    /\ ServerWakes("sendWait")
    /\ \/ /\ sWait = "expired"
          /\ EndIteration(-1, running, {cWait})
          /\ UNCHANGED <<part, more, payload, running, cPred>>
       \/ /\ sWait = "signalled" /\ ~sPred
          /\ SleepAgain
       \/ /\ sWait = "signalled" /\ sPred /\ state # "S2C"
          /\ ServerAbort(-1)
       \/ /\ sWait = "signalled" /\ sPred /\ state = "S2C"
          /\ spc' = "send" /\ sPart' = sPart + 1
          /\ sWait' = "awake" /\ opLock' = "server"
          /\ UNCHANGED <<header, sGot, cWait>>
    /\ UNCHANGED <<txLock, cpc, cPart, cGot, call, result, bpc, executed>>

\* The wait for the client to finish: it watches state, not the predicate.
ServerFinish ==
    /\ ServerWakes("fin")
    /\ \/ /\ sWait = "expired"
          /\ EndIteration(-1, running, {cWait})
          /\ UNCHANGED <<part, more, payload, running, cPred>>
       \/ /\ sWait = "signalled" /\ state = "S2C"
          /\ SleepAgain
       \/ /\ sWait = "signalled" /\ state # "S2C"
          /\ EndIteration(0, running, {cWait})
          /\ UNCHANGED <<part, more, payload, running, cPred>>
    /\ UNCHANGED <<txLock, cpc, cPart, cGot, call, result, bpc, executed>>

\* The signal thread is cancelled in sigwait only; until it is back there the
\* join keeps the operation lock.
ServerJoin ==
    /\ spc = "join" /\ bpc = "sigwait"
    /\ bpc' = "dead"
    /\ spc' = "stopped" /\ opLock' = "none"
    /\ UNCHANGED <<txLock, header, sWait, sPart, sGot, clientVars, executed>>

ServerNext == \/ ServerStart \/ ServerPoll \/ ServerEvent \/ ServerConsume
              \/ ServerRecvNext \/ ServerProduce \/ ServerSendNext
              \/ ServerFinish \/ ServerJoin

-----------------------------------------------------------------------------
(* A client: tinia_ipc_msg_client_sendrecv without long-polling.           *)

\* ipc_msg_client_signal_server
SignalServer == sPred' = TRUE /\ sWait' = Signalled(sWait)

\* MUTANT of ClientReturns: the transaction lock is not given back.
ClientReturnsKeepingTx(c, how) ==
    /\ cpc' = [cpc EXCEPT ![c] = "out"]
    /\ cWait' = [cWait EXCEPT ![c] = "awake"]
    /\ cPart' = [cPart EXCEPT ![c] = 0]
    /\ result' = [result EXCEPT ![c] = how]
    /\ opLock' = IF opLock = c THEN "none" ELSE opLock
    /\ UNCHANGED txLock

\* sendrecv returns; it lets go of the locks it has.
ClientReturns(c, how) ==
    /\ cpc' = [cpc EXCEPT ![c] = "out"]
    /\ cWait' = [cWait EXCEPT ![c] = "awake"]
    /\ cPart' = [cPart EXCEPT ![c] = 0]
    /\ result' = [result EXCEPT ![c] = how]
    /\ txLock' = IF txLock = c THEN "none" ELSE txLock
    /\ opLock' = IF opLock = c THEN "none" ELSE opLock

\* MUTANT of ClientAborts: the client leaves without telling the server.
ClientAbortsSilently(c) ==
    /\ ClientReturns(c, "failed")
    /\ UNCHANGED <<state, sPred, cPred, sWait, cGot>>

\* The client's error path: state = ERROR, signal the server, return -1.
ClientAborts(c) ==
    /\ state' = "ERROR"
    /\ SignalServer
    /\ ClientReturns(c, "failed")
    /\ UNCHANGED <<cPred, cGot>>

\* ipc_msg_client_wait_server, up to the release of the operation lock.
ClientWaits(c, where) ==
    /\ cPred' = FALSE
    /\ cpc' = [cpc EXCEPT ![c] = where]
    /\ cWait' = [cWait EXCEPT ![c] = "asleep"]
    /\ opLock' = "none"

ClientWakes(c, where) ==
    /\ cpc[c] = where /\ Returning(cWait[c]) /\ opLock = "none"

ClientSleepsAgain(c) ==
    /\ cWait' = [cWait EXCEPT ![c] = "asleep"]
    /\ UNCHANGED <<locks, state, sPred, cPred, sWait, cpc, cPart, cGot, result>>

\* On to the callback for part k, with the operation lock.
ClientHolds(c, where, k) ==
    /\ cpc' = [cpc EXCEPT ![c] = where]
    /\ cPart' = [cPart EXCEPT ![c] = k]
    /\ cWait' = [cWait EXCEPT ![c] = "awake"]
    /\ opLock' = c
    /\ UNCHANGED <<txLock, sPred, cPred, sWait, cGot, result>>

ClientStart(c) ==
    /\ cpc[c] = "out" /\ call[c] < MaxCalls
    /\ cpc' = [cpc EXCEPT ![c] = "begin"]
    /\ call' = [call EXCEPT ![c] = @ + 1]
    /\ cGot' = [cGot EXCEPT ![c] = <<>>]
    /\ result' = [result EXCEPT ![c] = "pending"]
    /\ UNCHANGED <<locks, header, serverVars, cWait, cPart, bpc, executed>>

\* The timed lock on the transaction lock, which may run out of time.
ClientTakeTx(c) ==
    /\ cpc[c] = "begin"
    /\ \/ /\ txLock = "none"
          /\ txLock' = c
          /\ cpc' = [cpc EXCEPT ![c] = "enter"]
          /\ UNCHANGED <<opLock, cWait, cPart, result>>
       \/ /\ txLock # "none" /\ "deadline" \in Faults
          /\ ClientReturns(c, "failed")
    /\ UNCHANGED <<header, serverVars, cGot, call, bpc, executed>>

\* READY: the buffer is this client's; it sends part 0.
ClientBegins(c) ==
    /\ state = "READY"
    /\ state' = "C2S"
    /\ ClientHolds(c, "produce", 0)

\* The timed lock on the operation lock, then the wait for READY.
ClientEnter(c) ==
    /\ cpc[c] = "enter"
    /\ \/ /\ opLock = "none" /\ ClientBegins(c)
       \/ /\ opLock = "none" /\ state # "READY"
          /\ cpc' = [cpc EXCEPT ![c] = "ready"]
          /\ cWait' = [cWait EXCEPT ![c] = "asleep"]
          /\ UNCHANGED <<locks, state, sPred, cPred, sWait, cPart, cGot, result>>
       \/ /\ opLock # "none" /\ "deadline" \in Faults
          /\ ClientReturns(c, "failed")
          /\ UNCHANGED <<state, sPred, cPred, sWait, cGot>>
    /\ UNCHANGED <<part, more, payload, running, spc, sPart, sGot, call, bpc,
                   executed>>

\* MUTANT of ClientReady: the wait for READY has no deadline.
ClientReadyUntimed(c) ==
    /\ ClientWakes(c, "ready")
    /\ \/ ClientBegins(c)
       \/ state # "READY" /\ ClientSleepsAgain(c)
    /\ UNCHANGED <<part, more, payload, running, spc, sPart, sGot, call, bpc,
                   executed>>

\* Woken while waiting for READY; running out of time leaves state alone.
ClientReady(c) ==
    /\ ClientWakes(c, "ready")
    /\ \/ /\ cWait[c] = "expired"
          /\ ClientReturns(c, "failed")
          /\ UNCHANGED <<state, sPred, cPred, sWait, cGot>>
       \/ /\ cWait[c] = "signalled" /\ ClientBegins(c)
       \/ /\ cWait[c] = "signalled" /\ state # "READY"
          /\ ClientSleepsAgain(c)
    /\ UNCHANGED <<part, more, payload, running, spc, sPart, sGot, call, bpc,
                   executed>>

\* The producer returns part cPart[c] of the request.  After the last one the
\* client goes on to client_recv, which begins with the same wait.
ClientProduce(c) ==
    /\ cpc[c] = "produce"
    /\ \/ /\ "callback" \in Faults
          /\ ClientAborts(c)
          /\ UNCHANGED <<part, more, payload>>
       \/ \E m \in BOOLEAN :
             /\ m => cPart[c] < MaxPart
             /\ part' = cPart[c] /\ more' = m
             /\ payload' = [id |-> <<c, call[c]>>, part |-> cPart[c], last |-> ~m]
             /\ SignalServer
             /\ ClientWaits(c, IF m THEN "sendWait" ELSE "recvWait")
             /\ cPart' = [cPart EXCEPT ![c] = IF m THEN @ + 1 ELSE 0]
             /\ UNCHANGED <<txLock, state, cGot, result>>
    /\ UNCHANGED <<running, spc, sPart, sGot, call, bpc, executed>>

\* wait_server returns in client_send; cPart[c] is the part to send next.
ClientSendNext(c) ==
    /\ ClientWakes(c, "sendWait")
    /\ \/ /\ \/ cWait[c] = "expired"
             \/ cWait[c] = "signalled" /\ cPred /\ state # "C2S"
          /\ ClientAborts(c)
       \/ /\ cWait[c] = "signalled" /\ ~cPred
          /\ ClientSleepsAgain(c)
       \/ /\ cWait[c] = "signalled" /\ cPred /\ state = "C2S"
          /\ ClientHolds(c, "produce", cPart[c])
          /\ UNCHANGED state
    /\ UNCHANGED <<part, more, payload, running, spc, sPart, sGot, call, bpc,
                   executed>>

\* wait_server returns in client_recv; cPart[c] is the part expected.
ClientRecvNext(c) ==
    /\ ClientWakes(c, "recvWait")
    /\ \/ /\ \/ cWait[c] = "expired"
             \/ /\ cWait[c] = "signalled" /\ cPred
                /\ state # "S2C" \/ part # cPart[c]
          /\ ClientAborts(c)
       \/ /\ cWait[c] = "signalled" /\ ~cPred
          /\ ClientSleepsAgain(c)
       \/ /\ cWait[c] = "signalled" /\ cPred
          /\ state = "S2C" /\ part = cPart[c]
          /\ ClientHolds(c, "consume", cPart[c])
          /\ UNCHANGED state
    /\ UNCHANGED <<part, more, payload, running, spc, sPart, sGot, call, bpc,
                   executed>>

\* The consumer returns for the part in the buffer.
ClientConsume(c) ==
    /\ cpc[c] = "consume"
    /\ \/ /\ "callback" \in Faults
          /\ ClientAborts(c)
       \/ /\ cGot' = [cGot EXCEPT ![c] = Append(@, payload)]
          /\ SignalServer
          /\ \/ /\ ~more
                /\ state' = "DONE"
                /\ ClientReturns(c, "ok")
                /\ UNCHANGED cPred
             \/ /\ more
                /\ ClientWaits(c, "recvWait")
                /\ cPart' = [cPart EXCEPT ![c] = @ + 1]
                /\ UNCHANGED <<txLock, state, result>>
    /\ UNCHANGED <<part, more, payload, running, spc, sPart, sGot, call, bpc,
                   executed>>

ClientNext(c) == \/ ClientStart(c) \/ ClientTakeTx(c) \/ ClientEnter(c)
                 \/ ClientReady(c) \/ ClientProduce(c) \/ ClientSendNext(c)
                 \/ ClientRecvNext(c) \/ ClientConsume(c)

-----------------------------------------------------------------------------
(* The signal thread: SIGTERM makes it call ipc_msg_server_mainloop_break, *)
(* which gives up if it does not get both locks within one second.         *)

\* Once the mainloop has asked to cancel it, sigwait does not return again.
BreakCalled ==
    /\ "break" \in Faults
    /\ bpc = "sigwait" /\ spc # "join"
    /\ bpc' = "lockTx"
    /\ UNCHANGED <<locks, header, serverVars, clientVars, executed>>

BreakTakeTx ==
    /\ bpc = "lockTx"
    /\ \/ txLock = "none" /\ txLock' = "breaker" /\ bpc' = "lockOp"
       \/ /\ txLock # "none" /\ "deadline" \in Faults
          /\ bpc' = "sigwait"
          /\ UNCHANGED txLock
    /\ UNCHANGED <<opLock, header, serverVars, clientVars, executed>>

\* MUTANT of BreakTakeOp: the flag is set but the mainloop not woken.
BreakTakeOpUnsignalled ==
    /\ bpc = "lockOp" /\ opLock = "none"
    /\ running' = FALSE
    /\ txLock' = "none"
    /\ bpc' = "sigwait"
    /\ UNCHANGED <<opLock, state, part, more, payload, sPred, cPred, serverVars,
                   clientVars, executed>>

BreakTakeOp ==
    /\ bpc = "lockOp"
    /\ \/ /\ opLock = "none"
          /\ running' = FALSE
          /\ SignalServer
       \/ /\ opLock # "none" /\ "deadline" \in Faults
          /\ UNCHANGED <<running, sPred, sWait>>
    /\ txLock' = "none"
    /\ bpc' = "sigwait"
    /\ UNCHANGED <<opLock, state, part, more, payload, cPred, spc, sPart, sGot,
                   clientVars, executed>>

BreakNext == BreakCalled \/ BreakTakeTx \/ BreakTakeOp

-----------------------------------------------------------------------------
(* The clock, and the scheduler's spurious wakeups.                        *)

\* The mainloop's idle wait runs out every 0.1 s by design; its other waits
\* only when a peer is late.
ServerDeadline ==
    /\ sWait \in {"asleep", "signalled"}
    /\ spc = "idle" \/ "deadline" \in Faults
    /\ sWait' = "expired"
    /\ UNCHANGED <<locks, header, spc, sPart, sGot, clientVars, bpc, executed>>

ClientDeadline(c) ==
    /\ "deadline" \in Faults
    /\ cWait[c] \in {"asleep", "signalled"}
    /\ cWait' = [cWait EXCEPT ![c] = "expired"]
    /\ UNCHANGED <<locks, header, serverVars, cpc, cPart, cGot, call, result,
                   bpc, executed>>

Spurious ==
    /\ "spurious" \in Faults
    /\ \/ /\ sWait = "asleep" /\ sWait' = "signalled"
          /\ UNCHANGED cWait
       \/ /\ \E c \in Client : /\ cWait[c] = "asleep"
                               /\ cWait' = [cWait EXCEPT ![c] = "signalled"]
          /\ UNCHANGED sWait
    /\ UNCHANGED <<locks, header, spc, sPart, sGot, cpc, cPart, cGot, call,
                   result, bpc, executed>>

Next == \/ ServerNext
        \/ \E c \in Client : ClientNext(c)
        \/ BreakNext
        \/ ServerDeadline
        \/ \E c \in Client : ClientDeadline(c)
        \/ Spurious

\* Threads that can go on do go on, and time passes; nobody has to call.
Fairness ==
    /\ WF_vars(ServerNext)
    /\ WF_vars(ServerDeadline)
    /\ \A c \in Client : /\ WF_vars(ClientNext(c) /\ ~ClientStart(c))
                         /\ WF_vars(ClientDeadline(c))
    /\ WF_vars(BreakTakeTx \/ BreakTakeOp)

Spec == Init /\ [][Next]_vars
FairSpec == Spec /\ Fairness

-----------------------------------------------------------------------------
(* Properties.                                                             *)

\* Every variable holds a value of its type.
TypeOK ==
    /\ txLock \in Client \cup {"none", "breaker"} /\ opLock \in Owner
    /\ state \in MsgState
    /\ part \in 0..MaxPart /\ more \in BOOLEAN
    /\ payload \in Piece
    /\ running \in BOOLEAN /\ sPred \in BOOLEAN /\ cPred \in BOOLEAN
    /\ spc \in ServerPC /\ sWait \in WaitState /\ sPart \in 0..MaxPart
    /\ sGot \in Seq(Piece)
    /\ cpc \in [Client -> ClientPC] /\ cWait \in [Client -> WaitState]
    /\ cPart \in [Client -> 0..MaxPart] /\ cGot \in [Client -> Seq(Piece)]
    /\ call \in [Client -> 0..MaxCalls]
    /\ result \in [Client -> {"none", "pending", "ok", "failed"}]
    /\ bpc \in BreakPC
    /\ executed \in [Id -> Nat]

\* Control points with the operation lock, and those within a transaction.
ServerHoldsOp == spc \in {"recv", "send", "join"}
ClientHoldsOp(c) == cpc[c] \in {"produce", "consume"}
InTransaction(c) == cpc[c] \notin {"out", "begin"}

\* The lock order of ipc_msg_internal.h: a thread works on the buffer only
\* with the operation lock, a client has that lock only with the transaction
\* lock, and so at most one client waits on client_event: signalling one
\* waiter, as the code does, cannot wake the wrong one.
LockDiscipline ==
    /\ (opLock = "server") <=> ServerHoldsOp
    /\ (txLock = "breaker") <=> (bpc = "lockOp")
    /\ \A c \in Client : /\ (opLock = c) <=> ClientHoldsOp(c)
                         /\ (txLock = c) <=> InTransaction(c)
                         /\ cWait[c] # "awake" => txLock = c

\* A prefix of a message that belongs to request i.
Prefix(msg, i) ==
    \A k \in DOMAIN msg : /\ msg[k].id = i
                          /\ msg[k].part = k - 1
                          /\ msg[k].last => k = Len(msg)

\* The lockstep of producer and consumer (ipc_msg.h): a consumer is given the
\* parts of one message, each once and in order, whatever timed out, failed
\* or was broken off before; never a part of an earlier exchange.
Lockstep ==
    /\ \E i \in Id : Prefix(sGot, i)
    /\ \A c \in Client : Prefix(cGot[c], <<c, call[c]>>)
    /\ spc = "send" => Complete(sGot, sGot[1].id)

\* The call of client c as its caller sees it: an answer that is not the
\* whole reply to this very request would be garbled.
Outcome(c) ==
    IF result[c] = "ok" /\ ~Complete(cGot[c], <<c, call[c]>>) THEN "garbled"
    ELSE result[c]

\* From READY to the end of the exchange a client owns the server.
Owning(c) == cpc[c] \in {"produce", "sendWait", "recvWait", "consume"}

CallOwner == IF \E c \in Client : Owning(c)
             THEN CHOOSE c \in Client : Owning(c) ELSE "none"

AbstractCall == INSTANCE IpcCall WITH outcome <- [c \in Client |-> Outcome(c)],
                                      owner   <- CallOwner

\* The messenger keeps the promise of IpcCall: an exchange is exclusive, a
\* request is carried out at most once and never after its caller gave up,
\* and a successful call got its own complete answer.
CallsAreAtomic == AbstractCall!Spec

\* A server that has seen an error, a timeout or a lost client comes back to
\* READY, or its mainloop has ended: no failure wedges it.
ServerRecovers == []<>((state = "READY" /\ spc = "idle") \/ spc = "stopped")

\* Every call returns.
CallsReturn == \A c \in Client : result[c] = "pending" ~> result[c] # "pending"

\* A break by another thread, or from within an exchange, makes the mainloop
\* return.  One in periodic() only sets mainloop_running to 0, which the loop
\* that waits for a client does not look at: it takes effect when a client
\* has begun an exchange, or another thread has called break as well.
Heeded == spc = "idle" => sPred \/ \E c \in Client : Owning(c)
BreakStops == (spc # "start" /\ ~running /\ Heeded) ~> spc = "stopped"
=============================================================================
