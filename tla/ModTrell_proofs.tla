-------------------------- MODULE ModTrell_proofs --------------------------
(***************************************************************************)
(* However many of Apache's processes are asked to restart the master, and *)
(* whoever crashes meanwhile, one master at most goes on that has not been *)
(* told to end.                                                            *)
(***************************************************************************)
EXTENDS ModTrell, FiniteSetTheorems, SequenceTheorems, TLAPS

\* Threads are functions to records of the fields of Idle.
Shaped ==
    /\ th = [t \in Thread |-> th[t]]
    /\ \A t \in Thread : th[t] = [f \in DOMAIN Idle |-> th[t][f]]

\* Who is busy has a request.
Numbered == \A t \in Thread : ~At(t, "idle") => th[t].n \in 1 .. count

\* Where a thread is that has /trell_lock, and where it knows of a process.
Holding == {"pid", "term", "wait", "kill", "reap", "start", "record"}
Knowing == {"term", "wait", "kill", "reap", "record"}

LockIsHeld == \A t \in Thread : (lock = t) <=> (th[t].pc \in Holding)

PidIsKnown == \A t \in Thread : th[t].pc \in Knowing => th[t].pid \in MasterPid

\* The masters that go on without having been told to end: OneMaster says that
\* there is one at most.
Staying == {p \in MasterPid : Living(p) /\ ~master[p].pending
                                        /\ p \notin unrecorded}

\* Which one that is can be read off the lock: the recorded one, the one that
\* is to be killed, the one that was just started, or none.
WhoStays ==
    /\ lock = Nobody => Staying \subseteq {pidfile}
    /\ \A t \in Thread :
        /\ At(t, "pid") => Staying \subseteq {pidfile}
        /\ th[t].pc \in {"term", "record"} => Staying \subseteq {th[t].pid}
        /\ th[t].pc \in {"wait", "kill", "reap", "start"} => Staying = {}
    /\ lock \in Process => \E p \in MasterPid : Staying \subseteq {p}

IInv == TypeOK /\ Shaped /\ Numbered /\ LockIsHeld /\ PidIsKnown /\ WhoStays

USE ThreadAssumption, MasterAssumption, BoundsAssumption

-----------------------------------------------------------------------------
(* Threads.                                                                *)

LEMMA Fields ==
    DOMAIN Idle = {"pc", "req", "n", "info", "images", "bytes", "out", "i",
                   "pid", "reply"}
BY DEF Idle

\* The other threads stay where they are; this one has its shape and number.
Moves(t) ==
    /\ DOMAIN th' = Thread /\ Shaped'
    /\ \A u \in Thread : u # t => th'[u] = th[u]
    /\ DOMAIN th'[t] = DOMAIN Idle
    /\ th'[t].n = th[t].n

LEMMA Replaced ==
    ASSUME TypeOK, Shaped, NEW t \in Thread, NEW r, DOMAIN r = DOMAIN Idle,
           r = [f \in DOMAIN Idle |-> r[f]], th' = [th EXCEPT ![t] = r]
    PROVE  /\ DOMAIN th' = Thread /\ Shaped' /\ th'[t] = r
           /\ \A u \in Thread : u # t => th'[u] = th[u]
BY DEF TypeOK, Shaped

LEMMA GotoMoves ==
    ASSUME TypeOK, Shaped, NEW t \in Thread, NEW pc, Goto(t, pc)
    PROVE  Moves(t) /\ th'[t].pc = pc /\ th'[t].pid = th[t].pid
<1> DEFINE r == [th[t] EXCEPT !.pc = pc]
<1>1. /\ DOMAIN r = DOMAIN Idle /\ r = [f \in DOMAIN Idle |-> r[f]]
      /\ r.n = th[t].n /\ r.pc = pc /\ r.pid = th[t].pid
  BY Fields DEF TypeOK, Shaped
<1>2. th' = [th EXCEPT ![t] = r]
  BY DEF Goto
<1> QED
  BY <1>1, <1>2, Replaced DEF Moves

LEMMA AnswerMoves ==
    ASSUME TypeOK, Shaped, NEW t \in Thread, NEW reply, Answer(t, reply)
    PROVE  Moves(t) /\ th'[t].pc = "idle"
<1> DEFINE r == [th[t] EXCEPT !.pc = "idle", !.reply = reply]
<1>1. /\ DOMAIN r = DOMAIN Idle /\ r = [f \in DOMAIN Idle |-> r[f]]
      /\ r.n = th[t].n /\ r.pc = "idle"
  BY Fields DEF TypeOK, Shaped
<1>2. th' = [th EXCEPT ![t] = r]
  BY DEF Answer
<1> QED
  BY <1>1, <1>2, Replaced DEF Moves

LEMMA InitIsGood == Init => IInv
<1> SUFFICES ASSUME Init PROVE IInv
  OBVIOUS
<1>1. th = [t \in Thread |-> Idle] /\ \A t \in Thread : th[t].pc = "idle"
  BY DEF Init, Idle
<1>2. Shaped
  BY <1>1 DEF Shaped, Idle
<1>3. TypeOK
  BY <1>1 DEF Init, TypeOK, Idle, Masters, NoPid, Dest
<1>4. Staying \subseteq {FirstMaster}
  BY DEF Init, Staying, Living
<1>5. LockIsHeld /\ PidIsKnown /\ Numbered
  BY <1>1 DEF LockIsHeld, PidIsKnown, Numbered, Init, Holding, Knowing, At
<1>6. WhoStays
  BY <1>1, <1>4 DEF WhoStays, Init, At
<1> QED
  BY <1>2, <1>3, <1>5, <1>6 DEF IInv

-----------------------------------------------------------------------------
(* Requests, calls and images leave the masters alone.                     *)

LEMMA WebStep ==
    ASSUME IInv, NEW t \in Thread, Moves(t),
           th[t].pc \notin Holding, th'[t].pc \notin Holding, ~At(t, "idle"),
           UNCHANGED <<menu, count, ops, crashes>>,
           done' \in [Dest -> SUBSET (1 .. count)],
           busy' \in [Dest -> Thread \cup Process \cup {Nobody}],
           DOMAIN numOfKeys' = Process
    PROVE  IInv'
<1>1. UNCHANGED <<lock, pidfile, unrecorded, master, seg>>
  BY DEF ops
<1>2. TypeOK'
  BY <1>1 DEF IInv, TypeOK, Moves, Masters
<1>3. Numbered'
  BY DEF IInv, Numbered, Moves, At
<1>4. LockIsHeld'
  BY <1>1 DEF IInv, LockIsHeld, Moves
<1>5. PidIsKnown'
  BY DEF IInv, PidIsKnown, Moves, Knowing, Holding
<1>6. Staying' = Staying
  BY <1>1 DEF Staying, Living
<1>7. WhoStays'
  BY <1>1, <1>6 DEF IInv, WhoStays, Moves, At, Holding
<1> QED
  BY <1>2, <1>3, <1>4, <1>5, <1>7 DEF IInv, Moves

LEMMA AfterUpdateMoves ==
    ASSUME TypeOK, Shaped, NEW t \in Thread, NEW rv, NEW body,
           AfterUpdate(t, rv, body)
    PROVE  Moves(t) /\ th'[t].pc \in {"idle", "query"}
<1>1. CASE Goto(t, "query")
  BY <1>1, GotoMoves
<1>2. CASE Answer(t, Reply(CodeOf(rv), body))
  BY <1>2, AnswerMoves
<1> QED
  BY <1>1, <1>2 DEF AfterUpdate

\* A step that answers, or goes to a place outside of the restart, and leaves
\* the jobs and the images alone.
LEMMA PlainStep ==
    ASSUME IInv, NEW t \in Thread, Moves(t), ~At(t, "idle"),
           th[t].pc \notin Holding, th'[t].pc \notin Holding,
           UNCHANGED <<web, ops, crashes>>
    PROVE  IInv'
<1>1. UNCHANGED <<menu, count, ops, crashes, done, busy, numOfKeys>>
  BY DEF web
<1> QED
  BY <1>1, WebStep DEF IInv, TypeOK

LEMMA AnswerStep ==
    ASSUME IInv, NEW t \in Thread, NEW reply, Answer(t, reply),
           ~At(t, "idle"), th[t].pc \notin Holding,
           UNCHANGED <<web, ops, crashes>>
    PROVE  IInv'
BY AnswerMoves, PlainStep DEF Holding, IInv

LEMMA GotoStep ==
    ASSUME IInv, NEW t \in Thread, NEW pc, pc \notin Holding, Goto(t, pc),
           ~At(t, "idle"), th[t].pc \notin Holding,
           UNCHANGED <<web, ops, crashes>>
    PROVE  IInv'
BY GotoMoves, PlainStep DEF Holding, IInv

LEMMA RequestStep ==
    ASSUME IInv, NEW t \in Thread, NEW req \in menu, Request(t, req)
    PROVE  IInv'
<1> DEFINE r == [Idle EXCEPT !.pc = "decode", !.req = req, !.n = count + 1,
                             !.info = DecodePathInfo(req.path, req.args)]
<1>1. /\ DOMAIN r = DOMAIN Idle /\ r = [f \in DOMAIN Idle |-> r[f]]
      /\ r.n = count + 1 /\ r.pc = "decode"
  BY DEF Idle
<1>2. th' = [th EXCEPT ![t] = r]
  BY DEF Request
<1> HIDE DEF r
<1>3. /\ DOMAIN th' = Thread /\ Shaped' /\ th'[t] = r
      /\ \A u \in Thread : u # t => th'[u] = th[u]
  BY <1>1, <1>2, Replaced DEF IInv
<1>4. /\ count' = count + 1 /\ count' \in 0 .. MaxRequests /\ count \in Nat
      /\ UNCHANGED <<menu, done, busy, numOfKeys, lock, pidfile, unrecorded,
                     master, seg, crashes>>
  BY DEF Request, ops, IInv, TypeOK
<1>5. TypeOK'
  <2>1. \A u \in Thread : DOMAIN th'[u] = DOMAIN Idle /\ th'[u].n \in 0 .. count'
    <3> SUFFICES ASSUME NEW u \in Thread
                 PROVE  DOMAIN th'[u] = DOMAIN Idle /\ th'[u].n \in 0 .. count'
      OBVIOUS
    <3>1. CASE u = t
      BY <3>1, <1>1, <1>3, <1>4
    <3>2. CASE u # t
      BY <3>2, <1>3, <1>4 DEF IInv, TypeOK
    <3> QED
      BY <3>1, <3>2
  <2>2. done' \in [Dest -> SUBSET (1 .. count')]
    BY <1>4 DEF IInv, TypeOK
  <2> QED
    BY <1>3, <1>4, <2>1, <2>2 DEF IInv, TypeOK, Masters
<1>6. Numbered'
  <2> SUFFICES ASSUME NEW u \in Thread, th'[u].pc # "idle"
               PROVE  th'[u].n \in 1 .. count'
    BY DEF Numbered, At
  <2>1. CASE u = t
    BY <2>1, <1>1, <1>3, <1>4
  <2>2. CASE u # t
    BY <2>2, <1>3, <1>4 DEF IInv, Numbered, At
  <2> QED
    BY <2>1, <2>2
<1>7. th[t].pc = "idle" /\ th'[t].pc = "decode"
  BY <1>1, <1>3 DEF Request, At
<1>8. LockIsHeld'
  BY <1>3, <1>4, <1>7 DEF IInv, LockIsHeld, Holding
<1>9. PidIsKnown'
  BY <1>3, <1>7 DEF IInv, PidIsKnown, Knowing
<1>10. Staying' = Staying
  BY <1>4 DEF Staying, Living
<1>11. WhoStays'
  BY <1>3, <1>4, <1>7, <1>10 DEF IInv, WhoStays, At
<1> QED
  BY <1>3, <1>5, <1>6, <1>8, <1>9, <1>11 DEF IInv

LEMMA DecodeStep == ASSUME IInv, NEW t \in Thread, Decode(t) PROVE IInv'
<1>1. /\ ~At(t, "idle") /\ th[t].pc \notin Holding
      /\ UNCHANGED <<web, ops, crashes>>
  BY DEF Decode, At, Holding
<1>2. CASE \E reply : Answer(t, reply)
  BY <1>1, <1>2, AnswerStep
<1>3. CASE ~\E reply : Answer(t, reply)
  <2> DEFINE pc == HandlerBody(th[t].req, th[t].info)
  <2>1. Goto(t, pc)
    BY <1>3 DEF Decode
  <2>2. pc \notin Holding
    BY DEF HandlerBody, PiggyBack, Holding
  <2> HIDE DEF pc
  <2> QED
    BY <1>1, <2>1, <2>2, GotoStep
<1> QED
  BY <1>2, <1>3

LEMMA PendingIsNotHolding ==
    ASSUME NEW t \in Thread, CallPending(t)
    PROVE  ~At(t, "idle") /\ th[t].pc \notin Holding
BY DEF CallPending, At, Holding

LEMMA RefuseCallStep == ASSUME IInv, NEW t \in Thread, RefuseCall(t) PROVE IInv'
BY PendingIsNotHolding, AnswerStep DEF RefuseCall

LEMMA NoSegmentStep == ASSUME IInv, NEW t \in Thread, NoSegment(t) PROVE IInv'
BY PendingIsNotHolding, AnswerStep DEF NoSegment, Calls, Fail

LEMMA LockTimesOutStep ==
    ASSUME IInv, NEW t \in Thread, LockTimesOut(t) PROVE IInv'
BY PendingIsNotHolding, AnswerStep DEF LockTimesOut, Calls, Fail

\* A request is added to those its job has executed.
LEMMA DoneGrows ==
    ASSUME IInv, NEW t \in Thread, ~At(t, "idle"), NEW dest, NEW now,
           now \in {done[dest], done[dest] \cup {th[t].n}},
           done' = [done EXCEPT ![dest] = now]
    PROVE  done' \in [Dest -> SUBSET (1 .. count)]
<1>1. th[t].n \in 1 .. count
  BY DEF IInv, Numbered
<1>2. done \in [Dest -> SUBSET (1 .. count)]
  BY DEF IInv, TypeOK
<1> QED
  BY <1>1, <1>2

LEMMA ExchangeStep == ASSUME IInv, NEW t \in Thread, Exchange(t) PROVE IInv'
<1> DEFINE dest == DestOf(th[t].info)
           now  == IF Executed(MessageOf(t), th[t].req.wellFormed)
                   THEN done[dest] \cup {th[t].n} ELSE done[dest]
<1>1. ~At(t, "idle") /\ th[t].pc \notin Holding
  BY PendingIsNotHolding DEF Exchange, Calls
<1>2. done' = [done EXCEPT ![dest] = now] /\ UNCHANGED <<menu, count, ops, crashes>>
  BY DEF Exchange
<1>3. done' \in [Dest -> SUBSET (1 .. count)]
  <2>1. now \in {done[dest], done[dest] \cup {th[t].n}}
    OBVIOUS
  <2> HIDE DEF now, dest
  <2> QED
    BY <1>1, <1>2, <2>1, DoneGrows
<1>4. \/ th' = [th EXCEPT ![t].pc = "poll", ![t].i = Cardinality(now)]
         /\ UNCHANGED <<busy, numOfKeys>>
      \/ (\E rv, body : AfterUpdate(t, rv, body)) /\ UNCHANGED <<busy, numOfKeys>>
      \/ (\E reply : Answer(t, reply)) /\ UNCHANGED <<busy, numOfKeys>>
      \/ /\ busy' = [busy EXCEPT ![dest] = t]
         /\ \E k : numOfKeys' = [numOfKeys EXCEPT ![ProcessOf[t]] = k]
         /\ \E im, by : th' = [th EXCEPT ![t].pc = "last part",
                                         ![t].images = im, ![t].bytes = by]
  BY DEF Exchange, Fail
<1> HIDE DEF now, dest
<1>5. /\ busy' \in [Dest -> Thread \cup Process \cup {Nobody}]
      /\ DOMAIN numOfKeys' = Process
  <2>1. /\ busy' = busy \/ busy' = [busy EXCEPT ![dest] = t]
        /\ \/ numOfKeys' = numOfKeys
           \/ \E k : numOfKeys' = [numOfKeys EXCEPT ![ProcessOf[t]] = k]
    BY <1>4, Zenon
  <2>2. /\ busy \in [Dest -> Thread \cup Process \cup {Nobody}]
        /\ DOMAIN numOfKeys = Process
    BY DEF IInv, TypeOK
  <2> QED
    BY <2>1, <2>2
<1>6. Moves(t) /\ th'[t].pc \notin Holding
  <2>1. CASE \E k : th' = [th EXCEPT ![t].pc = "poll", ![t].i = k]
    <3>1. PICK k : th' = [th EXCEPT ![t].pc = "poll", ![t].i = k]
      BY <2>1
    <3> DEFINE r == [th[t] EXCEPT !.pc = "poll", !.i = k]
    <3>2. /\ DOMAIN r = DOMAIN Idle /\ r = [f \in DOMAIN Idle |-> r[f]]
          /\ r.n = th[t].n /\ r.pc = "poll" /\ th' = [th EXCEPT ![t] = r]
      BY <3>1, Fields DEF IInv, TypeOK, Shaped
    <3> QED
      BY <3>2, Replaced DEF IInv, Moves, Holding
  <2>2. CASE \E rv, body : AfterUpdate(t, rv, body)
    BY <2>2, AfterUpdateMoves DEF IInv, Holding
  <2>3. CASE \E reply : Answer(t, reply)
    BY <2>3, AnswerMoves DEF IInv, Holding
  <2>4. CASE \E im, by : th' = [th EXCEPT ![t].pc = "last part",
                                         ![t].images = im, ![t].bytes = by]
    <3>1. PICK im, by : th' = [th EXCEPT ![t].pc = "last part",
                                         ![t].images = im, ![t].bytes = by]
      BY <2>4
    <3> DEFINE r == [th[t] EXCEPT !.pc = "last part", !.images = im, !.bytes = by]
    <3>2. /\ DOMAIN r = DOMAIN Idle /\ r = [f \in DOMAIN Idle |-> r[f]]
          /\ r.n = th[t].n /\ r.pc = "last part" /\ th' = [th EXCEPT ![t] = r]
      BY <3>1, Fields DEF IInv, TypeOK, Shaped
    <3> QED
      BY <3>2, Replaced DEF IInv, Moves, Holding
  <2> QED
    BY <1>4, <2>1, <2>2, <2>3, <2>4
<1> QED
  BY <1>1, <1>2, <1>3, <1>5, <1>6, WebStep

LEMMA ExchangeFailsStep ==
    ASSUME IInv, NEW t \in Thread, NEW rv, NEW executed \in BOOLEAN,
           ExchangeFails(t, rv, executed)
    PROVE  IInv'
<1>1. ~At(t, "idle") /\ th[t].pc \notin Holding
  BY PendingIsNotHolding DEF ExchangeFails, Calls
<1>2. done' \in [Dest -> SUBSET (1 .. count)]
  <2>1. CASE executed
    <3> DEFINE dest == DestOf(th[t].info)
    <3>1. done' = [done EXCEPT ![dest] = done[dest] \cup {th[t].n}]
      BY <2>1 DEF ExchangeFails
    <3> HIDE DEF dest
    <3> QED
      BY <1>1, <3>1, DoneGrows
  <2>2. CASE ~executed
    BY <2>2 DEF ExchangeFails, IInv, TypeOK
  <2> QED
    BY <2>1, <2>2
<1>3. Moves(t) /\ th'[t].pc \notin Holding
  BY AfterUpdateMoves DEF ExchangeFails, IInv, Holding
<1> QED
  BY <1>1, <1>2, <1>3, WebStep DEF ExchangeFails, IInv, TypeOK

LEMMA PollStep ==
    ASSUME IInv, NEW t \in Thread, PollNotified(t) \/ PollTimesOut(t)
    PROVE  IInv'
<1>1. ~At(t, "idle") /\ th[t].pc \notin Holding
  BY DEF PollNotified, PollTimesOut, At, Holding
<1>2. CASE PollNotified(t)
  BY <1>1, <1>2, GotoStep DEF PollNotified, Holding
<1>3. CASE PollTimesOut(t)
  BY <1>1, <1>3, AnswerStep DEF PollTimesOut, Fail
<1> QED
  BY <1>2, <1>3

\* A part of the work on an image, after which the job may be let go.
LEMMA ImageStep ==
    ASSUME IInv, NEW t \in Thread, ~At(t, "idle"), th[t].pc \notin Holding,
           Moves(t), th'[t].pc \notin Holding, Release(t) \/ UNCHANGED busy,
           UNCHANGED <<menu, count, done, numOfKeys, ops, crashes>>
    PROVE  IInv'
<1>1. busy' \in [Dest -> Thread \cup Process \cup {Nobody}]
  BY DEF IInv, TypeOK, Release
<1> QED
  BY <1>1, WebStep DEF IInv, TypeOK

LEMMA LastPartStep == ASSUME IInv, NEW t \in Thread, LastPart(t) PROVE IInv'
<1>1. ~At(t, "idle") /\ th[t].pc \notin Holding
  BY DEF LastPart, At, Holding
<1>2. Moves(t) /\ th'[t].pc \notin Holding
  <2>1. CASE \E reply : Answer(t, reply)
    BY <2>1, AnswerMoves DEF IInv, Holding
  <2>2. CASE th' = [th EXCEPT ![t].pc = "image", ![t].i = 1]
    <3> DEFINE r == [th[t] EXCEPT !.pc = "image", !.i = 1]
    <3>1. /\ DOMAIN r = DOMAIN Idle /\ r = [f \in DOMAIN Idle |-> r[f]]
          /\ r.n = th[t].n /\ r.pc = "image" /\ th' = [th EXCEPT ![t] = r]
      BY <2>2, Fields DEF IInv, TypeOK, Shaped
    <3> QED
      BY <3>1, Replaced DEF IInv, Moves, Holding
  <2> QED
    BY <2>1, <2>2 DEF LastPart, Fail
<1> QED
  BY <1>1, <1>2, ImageStep DEF LastPart

LEMMA EncodeStep ==
    ASSUME IInv, NEW t \in Thread, EncodeImage(t) \/ EncodeFails(t)
    PROVE  IInv'
<1>1. ~At(t, "idle") /\ th[t].pc \notin Holding
  BY DEF EncodeImage, EncodeFails, At, Holding
<1>2. CASE EncodeImage(t)
  <2> DEFINE r == [th[t] EXCEPT !.pc = "next",
                     !.out = Append(@, Labelled(MessageOf(t), th[t].images, th[t].i))]
  <2>1. /\ DOMAIN r = DOMAIN Idle /\ r = [f \in DOMAIN Idle |-> r[f]]
        /\ r.n = th[t].n /\ r.pc = "next"
    BY Fields DEF IInv, TypeOK, Shaped
  <2>2. th' = [th EXCEPT ![t] = r]
    BY <1>2 DEF EncodeImage
  <2> HIDE DEF r
  <2>3. Moves(t) /\ th'[t].pc \notin Holding
    BY <2>1, <2>2, Replaced DEF IInv, Moves, Holding
  <2> QED
    BY <1>1, <1>2, <2>3, ImageStep DEF EncodeImage
<1>3. CASE EncodeFails(t)
  BY <1>1, <1>3, AnswerMoves, ImageStep DEF EncodeFails, Fail, IInv, Holding
<1> QED
  BY <1>2, <1>3

LEMMA NextKeyStep == ASSUME IInv, NEW t \in Thread, NextKey(t) PROVE IInv'
<1>1. ~At(t, "idle") /\ th[t].pc \notin Holding
  BY DEF NextKey, At, Holding
<1>2. CASE KeysMismatch(t)
  <2>1. Moves(t) /\ th'[t].pc \notin Holding
    BY <1>2, AnswerMoves DEF NextKey, Fail, IInv, Holding
  <2> QED
    BY <1>1, <1>2, <2>1, ImageStep DEF NextKey
<1>3. CASE ~KeysMismatch(t)
  <2> DEFINE r == [th[t] EXCEPT !.pc = "image", !.i = @ + 1]
  <2>1. /\ DOMAIN r = DOMAIN Idle /\ r = [f \in DOMAIN Idle |-> r[f]]
        /\ r.n = th[t].n /\ r.pc = "image"
    BY Fields DEF IInv, TypeOK, Shaped
  <2>2. th' = [th EXCEPT ![t] = r] /\ UNCHANGED busy
    BY <1>3 DEF NextKey
  <2> HIDE DEF r
  <2>3. Moves(t) /\ th'[t].pc \notin Holding
    BY <2>1, <2>2, Replaced DEF IInv, Moves, Holding
  <2> QED
    BY <1>1, <2>2, <2>3, ImageStep DEF NextKey
<1> QED
  BY <1>2, <1>3

LEMMA ImagesDoneStep == ASSUME IInv, NEW t \in Thread, ImagesDone(t) PROVE IInv'
<1>1. ~At(t, "idle") /\ th[t].pc \notin Holding
  BY DEF ImagesDone, At, Holding
<1> QED
  BY <1>1, AnswerMoves, ImageStep DEF ImagesDone, IInv, Holding

-----------------------------------------------------------------------------
(* Stopping and starting the master.                                       *)

\* Only the thread that has the lock, or takes it, has to be looked at.
LEMMA HolderStep ==
    ASSUME IInv, NEW t \in Thread, Moves(t), TypeOK', ~At(t, "idle"),
           count' = count, lock \in {t, Nobody}, lock' \in {t, Nobody},
           (lock' = t) <=> (th'[t].pc \in Holding),
           th'[t].pc \in Knowing => th'[t].pid \in MasterPid,
           lock' = Nobody => Staying' \subseteq {pidfile'},
           th'[t].pc = "pid" => Staying' \subseteq {pidfile'},
           th'[t].pc \in {"term", "record"} => Staying' \subseteq {th'[t].pid},
           th'[t].pc \in {"wait", "kill", "reap", "start"} => Staying' = {}
    PROVE  IInv'
<1>1. \A u \in Thread : u # t => th[u].pc \notin Holding /\ th'[u] = th[u]
  BY DEF IInv, LockIsHeld, Moves
<1>2. Numbered'
  BY DEF IInv, Numbered, At, Moves
<1>3. LockIsHeld'
  BY <1>1 DEF LockIsHeld
<1>4. PidIsKnown'
  BY <1>1 DEF PidIsKnown, Knowing, Holding
<1>5. WhoStays'
  BY <1>1 DEF WhoStays, At, Holding
<1> QED
  BY <1>2, <1>3, <1>4, <1>5 DEF IInv, Moves

LEMMA HolderHolds ==
    ASSUME IInv, NEW t \in Thread, th[t].pc \in Holding
    PROVE  lock = t /\ ~At(t, "idle")
BY DEF IInv, LockIsHeld, Holding, At

LEMMA TakeLockStep == ASSUME IInv, NEW t \in Thread, TakeLock(t) PROVE IInv'
<1>1. ~At(t, "idle") /\ th[t].pc \notin Holding
  BY DEF TakeLock, At, Holding
<1>2. CASE LockIsFree
  <2>1. lock = Nobody /\ lock' = t /\ Moves(t) /\ th'[t].pc = "pid"
    BY <1>2, GotoMoves DEF TakeLock, LockIsFree, IInv
  <2>2. Staying' = Staying /\ Staying \subseteq {pidfile}
    BY <2>1 DEF TakeLock, Staying, Living, IInv, WhoStays
  <2>3. TypeOK' /\ count' = count /\ pidfile' = pidfile
    BY <2>1 DEF TakeLock, web, IInv, TypeOK, Moves, Masters
  <2> QED
    BY <1>1, <2>1, <2>2, <2>3, HolderStep DEF Holding, Knowing
<1>3. CASE ~LockIsFree
  BY <1>1, <1>3, AnswerStep DEF TakeLock, ops
<1> QED
  BY <1>2, <1>3

LEMMA GetMasterPidStep ==
    ASSUME IInv, NEW t \in Thread, GetMasterPid(t) PROVE IInv'
<1>1. th[t].pc \in Holding
  BY DEF GetMasterPid, At, Holding
<1>2. /\ UNCHANGED <<menu, count, done, busy, numOfKeys, lock, pidfile,
                     unrecorded, master, seg, crashes>>
  BY DEF GetMasterPid, web, ops
<1>3. Staying' = Staying /\ Staying \subseteq {pidfile}
  BY <1>2 DEF GetMasterPid, Staying, Living, IInv, WhoStays
<1>4. NoPid \notin MasterPid
  BY DEF NoPid
<1>5. CASE pidfile = NoPid
  <2>1. Moves(t) /\ th'[t].pc = "start"
    BY <1>5, GotoMoves DEF GetMasterPid, IInv
  <2>2. Staying = {}
    BY <1>3, <1>4, <1>5 DEF Staying
  <2>3. TypeOK'
    BY <1>2, <2>1 DEF IInv, TypeOK, Moves, Masters
  <2> QED
    BY <1>1, <1>2, <1>3, <2>1, <2>2, <2>3, HolderHolds, HolderStep
       DEF Holding, Knowing
<1>6. CASE pidfile # NoPid
  <2> DEFINE r == [th[t] EXCEPT !.pc = "term", !.pid = pidfile]
  <2>1. /\ DOMAIN r = DOMAIN Idle /\ r = [f \in DOMAIN Idle |-> r[f]]
        /\ r.n = th[t].n /\ r.pc = "term" /\ r.pid = pidfile
    BY Fields DEF IInv, TypeOK, Shaped
  <2>2. th' = [th EXCEPT ![t] = r]
    BY <1>6 DEF GetMasterPid
  <2> HIDE DEF r
  <2>3. Moves(t) /\ th'[t].pc = "term" /\ th'[t].pid = pidfile
    BY <2>1, <2>2, Replaced DEF IInv, Moves
  <2>4. TypeOK' /\ pidfile \in MasterPid
    BY <1>2, <1>6, <2>3 DEF IInv, TypeOK, Moves, Masters
  <2> QED
    BY <1>1, <1>2, <1>3, <2>3, <2>4, HolderHolds, HolderStep
       DEF Holding, Knowing
<1> QED
  BY <1>5, <1>6

\* After a signal the process it was sent to is not among those that stay.
LEMMA SignalStep ==
    ASSUME IInv, NEW t \in Thread, NEW here \in {"term", "kill"},
           NEW next \in {"wait", "reap"}, NEW after,
           after \in [MasterPid -> Masters], Signal(t, here, after, next),
           LET p == th[t].pid IN
               after[p].st \in {"none", "zombie", "gone"} \/ after[p].pending
    PROVE  IInv'
<1> DEFINE p == th[t].pid
<1>1. th[t].pc \in Holding /\ th[t].pc \in Knowing /\ th[t].pc = here
  BY DEF Signal, At, Holding, Knowing
<1>2. p \in MasterPid /\ Staying \subseteq {p}
  BY <1>1 DEF IInv, PidIsKnown, WhoStays
<1>3. UNCHANGED <<menu, count, done, busy, numOfKeys, lock, pidfile,
                  unrecorded, seg, crashes>>
  BY DEF Signal, web
<1>4. CASE master[p].st = "gone"
  <2>1. Moves(t) /\ th'[t].pc = "start" /\ master' = master
    BY <1>4, GotoMoves DEF Signal, IInv
  <2>2. Staying' = {}
    BY <1>2, <1>3, <1>4, <2>1 DEF Staying, Living
  <2>3. TypeOK'
    BY <1>3, <2>1 DEF IInv, TypeOK, Moves
  <2> QED
    BY <1>1, <1>3, <2>1, <2>2, <2>3, HolderHolds, HolderStep
       DEF Holding, Knowing
<1>5. CASE master[p].st # "gone"
  <2> DEFINE r == [th[t] EXCEPT !.pc = next, !.i = 0]
  <2>1. /\ DOMAIN r = DOMAIN Idle /\ r = [f \in DOMAIN Idle |-> r[f]]
        /\ r.n = th[t].n /\ r.pc = next /\ r.pid = p
    BY Fields DEF IInv, TypeOK, Shaped
  <2>2. /\ th' = [th EXCEPT ![t] = r]
        /\ master' = [master EXCEPT ![p] = after[p]]
    BY <1>5 DEF Signal
  <2> HIDE DEF r
  <2>3. Moves(t) /\ th'[t].pc = next /\ th'[t].pid = p
    BY <2>1, <2>2, Replaced DEF IInv, Moves
  <2>4. TypeOK'
    BY <1>2, <1>3, <2>2, <2>3 DEF IInv, TypeOK, Moves
  <2>5. Staying' = {}
    BY <1>2, <1>3, <2>2 DEF Staying, Living, IInv, TypeOK
  <2> QED
    BY <1>1, <1>2, <1>3, <2>3, <2>4, <2>5, HolderHolds, HolderStep
       DEF Holding, Knowing
<1> QED
  BY <1>4, <1>5

LEMMA TerminatedIsMaster ==
    ASSUME TypeOK, NEW p \in MasterPid
    PROVE  /\ Terminated(p) \in Masters
           /\ \/ Terminated(p).st \in {"none", "zombie", "gone"}
              \/ Terminated(p).pending
<1>1. master[p] \in Masters /\ Ended(p) \in {"gone", "zombie"}
  BY DEF TypeOK, Ended
<1>2. CASE master[p].st = "starting"
  BY <1>1, <1>2 DEF Terminated, Masters
<1>3. CASE Living(p) /\ master[p].st # "starting"
  BY <1>1, <1>3 DEF Terminated, Masters
<1>4. CASE ~Living(p) /\ master[p].st # "starting"
  BY <1>1, <1>4 DEF Terminated, Living
<1> QED
  BY <1>2, <1>3, <1>4

LEMMA KilledIsMaster ==
    ASSUME TypeOK, NEW p \in MasterPid
    PROVE  /\ Killed(p) \in Masters
           /\ Killed(p).st \in {"none", "zombie", "gone"}
<1>1. master[p] \in Masters /\ Ended(p) \in {"gone", "zombie"}
  BY DEF TypeOK, Ended
<1> QED
  BY <1>1 DEF Killed, Living, Masters

LEMMA SendTermStep == ASSUME IInv, NEW t \in Thread, SendTerm(t) PROVE IInv'
<1> DEFINE after == [p \in MasterPid |-> Terminated(p)]
<1>1. after \in [MasterPid -> Masters]
  BY TerminatedIsMaster DEF IInv
<1>2. th[t].pid \in MasterPid
  BY DEF SendTerm, Signal, At, IInv, PidIsKnown, Knowing
<1>3. after[th[t].pid] = Terminated(th[t].pid)
  BY <1>2
<1>4. Signal(t, "term", after, "wait")
  BY DEF SendTerm
<1> HIDE DEF after
<1> QED
  BY <1>1, <1>2, <1>3, <1>4, TerminatedIsMaster, SignalStep DEF IInv

LEMMA SendKillStep == ASSUME IInv, NEW t \in Thread, SendKill(t) PROVE IInv'
<1> DEFINE after == [p \in MasterPid |-> Killed(p)]
<1>1. after \in [MasterPid -> Masters]
  BY KilledIsMaster DEF IInv
<1>2. th[t].pid \in MasterPid
  BY DEF SendKill, Signal, At, IInv, PidIsKnown, Knowing
<1>3. after[th[t].pid] = Killed(th[t].pid)
  BY <1>2
<1>4. Signal(t, "kill", after, "reap")
  BY DEF SendKill
<1> HIDE DEF after
<1> QED
  BY <1>1, <1>2, <1>3, <1>4, KilledIsMaster, SignalStep DEF IInv

LEMMA LookAgainStep ==
    ASSUME IInv, NEW t \in Thread, NEW here \in {"wait", "reap"},
           NEW next \in {"kill", "start"}, LookAgain(t, here, next)
    PROVE  IInv'
<1>1. /\ th[t].pc \in Holding /\ th[t].pc \in Knowing /\ th[t].pc = here
      /\ th[t].pid \in MasterPid /\ Staying = {}
  BY DEF LookAgain, At, Holding, Knowing, IInv, PidIsKnown, WhoStays
<1>2. UNCHANGED <<menu, count, done, busy, numOfKeys, lock, pidfile,
                  unrecorded, seg, crashes>>
  BY DEF LookAgain, web
<1>3. /\ master' \in [MasterPid -> Masters]
      /\ \A p \in MasterPid : master'[p] = master[p] \/ master'[p].st = "gone"
  <2>1. master' = master \/ master' = Reap(t)
    BY DEF LookAgain
  <2> QED
    BY <2>1 DEF Reap, IInv, TypeOK, Masters
<1>4. Staying' = {}
  BY <1>1, <1>2, <1>3 DEF Staying, Living
<1>5. /\ Moves(t) /\ th'[t].pid = th[t].pid
      /\ th'[t].pc \in {"wait", "reap", "kill", "start"}
  <2>1. CASE Goto(t, next) \/ Goto(t, "start")
    BY <2>1, GotoMoves DEF IInv
  <2>2. CASE th' = [th EXCEPT ![t].i = OneMore(t)]
    <3> DEFINE r == [th[t] EXCEPT !.i = OneMore(t)]
    <3>1. /\ DOMAIN r = DOMAIN Idle /\ r = [f \in DOMAIN Idle |-> r[f]]
          /\ r.n = th[t].n /\ r.pc = here /\ r.pid = th[t].pid
      BY <1>1, Fields DEF IInv, TypeOK, Shaped
    <3>2. th' = [th EXCEPT ![t] = r]
      BY <2>2
    <3> HIDE DEF r
    <3> QED
      BY <3>1, <3>2, Replaced DEF IInv, Moves
  <2> QED
    BY <2>1, <2>2 DEF LookAgain
<1>6. TypeOK'
  BY <1>2, <1>3, <1>5 DEF IInv, TypeOK, Moves
<1> QED
  BY <1>1, <1>2, <1>4, <1>5, <1>6, HolderHolds, HolderStep DEF Holding, Knowing

LEMMA FinishMoves ==
    ASSUME IInv, NEW t \in Thread, NEW started, Finish(t, started)
    PROVE  Moves(t) /\ th'[t].pc = "idle" /\ lock' = Nobody
BY AnswerMoves DEF Finish, IInv

LEMMA StartFailsStep == ASSUME IInv, NEW t \in Thread, StartFails(t) PROVE IInv'
<1>1. th[t].pc \in Holding /\ Staying = {}
  BY DEF StartFails, At, Holding, IInv, WhoStays
<1>2. UNCHANGED <<menu, count, done, busy, numOfKeys, pidfile, unrecorded,
                  master, seg, crashes>>
  BY DEF StartFails, web
<1>3. Moves(t) /\ th'[t].pc = "idle" /\ lock' = Nobody
  BY FinishMoves DEF StartFails
<1>4. TypeOK' /\ Staying' = {}
  BY <1>1, <1>2, <1>3 DEF IInv, TypeOK, Moves, Masters, Staying, Living
<1> QED
  BY <1>1, <1>2, <1>3, <1>4, HolderHolds, HolderStep DEF Holding, Knowing

LEMMA StartMasterStep == ASSUME IInv, NEW t \in Thread, StartMaster(t) PROVE IInv'
<1>1. th[t].pc \in Holding /\ Staying = {}
  BY DEF StartMaster, At, Holding, IInv, WhoStays
<1>2. UNCHANGED <<menu, count, done, busy, numOfKeys, lock, pidfile,
                  unrecorded, seg, crashes>>
  BY DEF StartMaster, web
<1>3. PICK p \in MasterPid :
        /\ master' = [master EXCEPT ![p].st = "starting", ![p].parent = ProcessOf[t]]
        /\ th' = [th EXCEPT ![t].pc = "record", ![t].pid = p]
  BY DEF StartMaster
<1> DEFINE r == [th[t] EXCEPT !.pc = "record", !.pid = p]
<1>4. /\ DOMAIN r = DOMAIN Idle /\ r = [f \in DOMAIN Idle |-> r[f]]
      /\ r.n = th[t].n /\ r.pc = "record" /\ r.pid = p
  BY Fields DEF IInv, TypeOK, Shaped
<1>5. th' = [th EXCEPT ![t] = r]
  BY <1>3
<1> HIDE DEF r
<1>6. Moves(t) /\ th'[t].pc = "record" /\ th'[t].pid = p
  BY <1>4, <1>5, Replaced DEF IInv, Moves
<1>7. master' \in [MasterPid -> Masters]
  <2>1. master[p] \in Masters /\ ProcessOf[t] \in Process
    BY DEF IInv, TypeOK
  <2>2. [master[p] EXCEPT !.st = "starting", !.parent = ProcessOf[t]] \in Masters
    BY <2>1 DEF Masters
  <2> QED
    BY <1>3, <2>2 DEF IInv, TypeOK
<1>8. TypeOK'
  BY <1>2, <1>6, <1>7 DEF IInv, TypeOK, Moves
<1>9. Staying' \subseteq {p}
  BY <1>1, <1>2, <1>3 DEF Staying, Living, IInv, TypeOK
<1> QED
  BY <1>1, <1>2, <1>6, <1>8, <1>9, HolderHolds, HolderStep DEF Holding, Knowing

LEMMA SetMasterPidStep ==
    ASSUME IInv, NEW t \in Thread, NEW opened \in BOOLEAN, NEW written \in BOOLEAN,
           SetMasterPid(t, opened, written)
    PROVE  IInv'
<1> DEFINE p == th[t].pid
<1>1. th[t].pc \in Holding /\ p \in MasterPid /\ Staying \subseteq {p}
  BY DEF SetMasterPid, At, Holding, Knowing, IInv, WhoStays, PidIsKnown
<1>2. UNCHANGED <<menu, count, done, busy, numOfKeys, master, seg, crashes>>
  BY DEF SetMasterPid, web
<1>3. Moves(t) /\ th'[t].pc = "idle" /\ lock' = Nobody
  BY FinishMoves DEF SetMasterPid
<1>4. /\ pidfile' = IF ~opened THEN pidfile ELSE IF written THEN p ELSE NoPid
      /\ unrecorded' = IF opened /\ written THEN unrecorded ELSE unrecorded \cup {p}
  BY DEF SetMasterPid
<1>5. TypeOK'
  BY <1>1, <1>2, <1>3, <1>4 DEF IInv, TypeOK, Moves, Masters, NoPid
<1>6. Staying' \subseteq {pidfile'}
  BY <1>1, <1>2, <1>4 DEF Staying, Living
<1> QED
  BY <1>1, <1>2, <1>3, <1>5, <1>6, HolderHolds, HolderStep DEF Holding, Knowing

-----------------------------------------------------------------------------
(* The masters and Apache's processes.                                     *)

\* Nobody begins to stay by himself.
LEMMA StayingShrinks ==
    ASSUME IInv, Staying' \subseteq Staying, TypeOK',
           UNCHANGED <<th, count, lock, pidfile>>
    PROVE  IInv'
<1>1. WhoStays'
  BY DEF IInv, WhoStays, At
<1> QED
  BY <1>1 DEF IInv, Shaped, Numbered, At, LockIsHeld, PidIsKnown

LEMMA MasterRunsStep ==
    ASSUME IInv, NEW p \in MasterPid, MasterRuns(p) PROVE IInv'
<1>1. PICK st \in {"creating", "init", "up", "gone", "zombie"} :
        master' = [master EXCEPT ![p].st = st]
  BY DEF MasterRuns, Ended
<1>2. Living(p) /\ UNCHANGED <<menu, count, done, busy, numOfKeys, th, lock,
                               pidfile, unrecorded, crashes>>
  BY DEF MasterRuns, Living, web
<1>3. seg' \in MasterPid \cup {NoPid}
  BY DEF MasterRuns, IInv, TypeOK
<1>4. master' \in [MasterPid -> Masters]
  BY <1>1 DEF IInv, TypeOK, Masters
<1>5. TypeOK'
  BY <1>2, <1>3, <1>4 DEF IInv, TypeOK
<1>6. Staying' \subseteq Staying
  BY <1>1, <1>2 DEF Staying, Living, IInv, TypeOK, Masters
<1> QED
  BY <1>2, <1>5, <1>6, StayingShrinks

LEMMA MasterStopsStep ==
    ASSUME IInv, NEW p \in MasterPid, MasterStops(p) PROVE IInv'
<1>1. /\ master' = [master EXCEPT ![p].st = "ending"] /\ Living(p)
      /\ UNCHANGED <<menu, count, done, busy, numOfKeys, th, lock, pidfile,
                     unrecorded, seg, crashes>>
  BY DEF MasterStops, Living, web
<1>2. TypeOK'
  BY <1>1 DEF IInv, TypeOK, Masters
<1>3. Staying' \subseteq Staying
  BY <1>1 DEF Staying, Living, IInv, TypeOK, Masters
<1> QED
  BY <1>1, <1>2, <1>3, StayingShrinks

\* A process that dies with the lock keeps it; whoever stayed then, stays.
LEMMA CrashStep == ASSUME IInv, NEW c \in Process, Crash(c) PROVE IInv'
<1> DEFINE lost(x) == IF x \in Thread THEN IF ProcessOf[x] = c THEN c ELSE x
                      ELSE x
           Mine == {t \in Thread : ProcessOf[t] = c}
<1>1. /\ th' = [t \in Thread |-> IF t \in Mine THEN Idle ELSE th[t]]
      /\ lock' = lost(lock)
      /\ busy' = [d \in Dest |-> lost(busy[d])]
      /\ DOMAIN numOfKeys' = DOMAIN numOfKeys
      /\ master' = [p \in MasterPid |->
                        IF master[p].parent # c THEN master[p]
                        ELSE [master[p] EXCEPT !.parent = Nobody,
                                !.st = IF @ = "zombie" THEN "gone" ELSE @]]
      /\ crashes' = crashes + 1 /\ crashes < MaxCrashes
      /\ UNCHANGED <<menu, count, done, pidfile, unrecorded, seg>>
  BY DEF Crash
<1>2. /\ \A t \in Mine : th'[t] = Idle
      /\ \A t \in Thread : t \notin Mine => th'[t] = th[t]
      /\ Mine \subseteq Thread /\ Idle.pc = "idle" /\ Idle.n = 0
  BY <1>1 DEF Idle
<1>3. Shaped'
  <2>1. Idle = [f \in DOMAIN Idle |-> Idle[f]]
    BY DEF Idle
  <2> QED
    BY <1>1, <1>2, <2>1 DEF IInv, Shaped
<1>4. lock' \in Thread \cup Process \cup {Nobody}
  BY <1>1 DEF IInv, TypeOK
<1>5. master' \in [MasterPid -> Masters] /\ Staying' \subseteq Staying
  <2>1. \A p \in MasterPid :
          /\ master'[p] \in Masters /\ master'[p].pending = master[p].pending
          /\ master'[p].st = master[p].st \/ master'[p].st = "gone"
    <3> SUFFICES ASSUME NEW p \in MasterPid
                 PROVE  /\ master'[p] \in Masters
                        /\ master'[p].pending = master[p].pending
                        /\ master'[p].st = master[p].st \/ master'[p].st = "gone"
      OBVIOUS
    <3>1. master[p] \in Masters
      BY DEF IInv, TypeOK
    <3>2. \/ master'[p] = master[p]
          \/ master'[p] = [master[p] EXCEPT !.parent = Nobody,
                                !.st = IF @ = "zombie" THEN "gone" ELSE @]
      BY <1>1
    <3> QED
      BY <3>1, <3>2 DEF Masters
  <2>2. master' = [p \in MasterPid |-> master'[p]]
    BY <1>1
  <2> QED
    BY <1>1, <2>1, <2>2 DEF Staying, Living
<1>6. TypeOK'
  <2>1. busy' \in [Dest -> Thread \cup Process \cup {Nobody}]
    BY <1>1 DEF IInv, TypeOK
  <2>2. \A t \in Thread : DOMAIN th'[t] = DOMAIN Idle /\ th'[t].n \in 0 .. count'
    <3>1. count' = count /\ count \in Nat
      <4>1. count' = count
        BY DEF Crash
      <4>2. count \in 0 .. MaxRequests
        BY DEF IInv, TypeOK
      <4> QED
        BY <4>1, <4>2
    <3>2. \A t \in Mine : DOMAIN th'[t] = DOMAIN Idle /\ th'[t].n \in 0 .. count'
      BY <1>2, <3>1
    <3>3. \A t \in Thread : t \notin Mine =>
             DOMAIN th'[t] = DOMAIN Idle /\ th'[t].n \in 0 .. count'
      BY <1>2, <3>1 DEF IInv, TypeOK
    <3> HIDE DEF Mine
    <3> QED
      BY <3>2, <3>3
  <2>3. crashes' \in 0 .. MaxCrashes
    <3>1. crashes \in 0 .. MaxCrashes /\ crashes' = crashes + 1 /\ crashes < MaxCrashes
      BY <1>1 DEF IInv, TypeOK
    <3> QED
      BY ONLY <3>1, BoundsAssumption
  <2> QED
    BY <1>1, <1>4, <1>5, <2>1, <2>2, <2>3 DEF IInv, TypeOK
<1>7. Numbered'
  BY <1>1, <1>2 DEF IInv, Numbered, At
<1>8. LockIsHeld'
  BY <1>1, <1>2 DEF IInv, LockIsHeld, Holding
<1>9. PidIsKnown'
  BY <1>2 DEF IInv, PidIsKnown, Knowing
<1>10. WhoStays'
  <2>1. lock' = Nobody => lock = Nobody
    BY <1>1
  <2>2. \A t \in Thread : t \in Mine => th'[t].pc = "idle"
    BY <1>2
  <2>3. ASSUME lock' \in Process PROVE \E p \in MasterPid : Staying \subseteq {p}
    <3>1. CASE lock \in Process
      BY <3>1 DEF IInv, WhoStays
    <3>2. CASE lock \notin Process
      <4>1. lock \in Thread /\ th[lock].pc \in Holding
        BY <1>1, <2>3, <3>2 DEF IInv, LockIsHeld, TypeOK
      <4>2. \/ Staying \subseteq {pidfile} \/ Staying = {}
            \/ th[lock].pid \in MasterPid /\ Staying \subseteq {th[lock].pid}
        BY <4>1 DEF IInv, WhoStays, Holding, At, PidIsKnown, Knowing
      <4>3. Staying \subseteq MasterPid
        BY DEF Staying
      <4> QED
        BY <4>2, <4>3
    <3> QED
      BY <3>1, <3>2
  <2> QED
    BY <1>1, <1>2, <1>5, <2>1, <2>2, <2>3 DEF IInv, WhoStays, At
<1> QED
  BY <1>3, <1>6, <1>7, <1>8, <1>9, <1>10 DEF IInv

-----------------------------------------------------------------------------

LEMMA WorkStep == ASSUME IInv, NEW t \in Thread, Work(t) PROVE IInv'
<1>1. CASE \/ Decode(t) \/ RefuseCall(t) \/ NoSegment(t) \/ LockTimesOut(t)
         \/ \E rv \in {-1, -2}, executed \in BOOLEAN : ExchangeFails(t, rv, executed)
         \/ Exchange(t) \/ PollNotified(t) \/ PollTimesOut(t)
  BY <1>1, DecodeStep, RefuseCallStep, NoSegmentStep, LockTimesOutStep,
     ExchangeFailsStep, ExchangeStep, PollStep
<1>2. CASE LastPart(t) \/ EncodeImage(t) \/ EncodeFails(t) \/ NextKey(t)
           \/ ImagesDone(t)
  BY <1>2, LastPartStep, EncodeStep, NextKeyStep, ImagesDoneStep
<1>3. CASE \/ TakeLock(t) \/ GetMasterPid(t) \/ SendTerm(t) \/ SendKill(t)
         \/ StartFails(t) \/ StartMaster(t)
         \/ \E opened, written \in BOOLEAN : SetMasterPid(t, opened, written)
  BY <1>3, TakeLockStep, GetMasterPidStep, SendTermStep, SendKillStep,
     StartFailsStep, StartMasterStep, SetMasterPidStep
<1>4. CASE WaitTerm(t) \/ WaitKill(t)
  BY <1>4, LookAgainStep DEF WaitTerm, WaitKill
<1> QED
  BY <1>1, <1>2, <1>3, <1>4 DEF Work

LEMMA StepIsGood == IInv /\ [Next]_vars => IInv'
<1> SUFFICES ASSUME IInv, [Next]_vars PROVE IInv'
  OBVIOUS
<1>1. CASE UNCHANGED vars
  <2>1. Staying' = Staying
    BY <1>1 DEF vars, Staying, Living
  <2>2. TypeOK' /\ UNCHANGED <<th, count, lock, pidfile>>
    BY <1>1 DEF vars, IInv, TypeOK
  <2> QED
    BY <2>1, <2>2, StayingShrinks
<1>2. CASE Next
  BY <1>2, WorkStep, RequestStep, MasterRunsStep, MasterStopsStep, CrashStep
     DEF Next
<1> QED
  BY <1>1, <1>2

LEMMA AlwaysIInv == Spec => []IInv
BY InitIsGood, StepIsGood, PTL DEF Spec

\* Typing of threads, locks, masters and segments; in particular a job has
\* only executed requests that were made.
THEOREM TypeCorrect == Spec => []TypeOK
BY AlwaysIInv, PTL DEF IInv

\* However many processes are asked to restart the master, one master at most
\* goes on that has not been told to end.
THEOREM OneMasterStays == Spec => []OneMaster
<1>1. ASSUME IInv PROVE OneMaster
  <2>1. \E x : Staying \subseteq {x}
    <3>1. CASE lock = Nobody \/ lock \in Process
      BY <1>1, <3>1 DEF IInv, WhoStays
    <3>2. CASE lock \in Thread
      <4>1. th[lock].pc \in Holding
        BY <1>1, <3>2 DEF IInv, LockIsHeld
      <4> QED
        BY <1>1, <3>2, <4>1 DEF IInv, WhoStays, Holding, At
    <3> QED
      BY <1>1, <3>1, <3>2 DEF IInv, TypeOK
  <2>2. PICK x : Staying \subseteq {x}
    BY <2>1
  <2>3. Staying = {} \/ Staying = {x}
    BY <2>2
  <2>4. Cardinality({}) = 0 /\ Cardinality({x}) = 1
    BY FS_EmptySet, FS_Singleton
  <2>5. Cardinality(Staying) <= 1
    BY <2>3, <2>4
  <2> QED
    BY <2>5 DEF OneMaster, Staying
<1> QED
  BY <1>1, AlwaysIInv, PTL

-----------------------------------------------------------------------------
(* What is answered: the second invariant says which requests come to a    *)
(* place, what has been done for them there, and what has been encoded.    *)

\* No two requests have the same number.
Distinct ==
    \A t, u \in Thread : t # u /\ th[t].n = th[u].n => th[t].n = 0

Unexecuted(t) == th[t].n \notin Executions

Acknowledged(t, dest) == dest \in Dest /\ th[t].n \in done[dest]

\* The keys of a request, and what mod_trell makes of them.
KeysAsked(t) == KeysOf[th[t].info.keys]
HasKeys(t) == KeysAsked(t) \in Seq(STRING)

\* The update that came with a request to a job has been executed.
Carried(t) == BringsUpdate(th[t].req) => Acknowledged(t, th[t].info.job)
TokensOf(t) == Tokens(th[t].info)

\* An image that a job has rendered for this request.
IsFor(t, image, viewer) ==
    LET d == th[t].info IN
    /\ image.viewer = viewer
    /\ image.width = d.width /\ image.height = d.height
    /\ BringsUpdate(th[t].req) => th[t].n \in image.edits

IsNamed(key) == key # ""
IsOver(f, S) == f = [x \in S |-> f[x]]

\* Where a thread is that encodes images; num_of_keys is its own as long as no
\* other thread of its process sets it.
Encoding == {"last part", "image", "next"}
Encodes(t) ==
    LET keys == KeysAsked(t) IN
    /\ Shared(t) = Len(keys)
    /\ Len(keys) = 1 => IsNamed(keys[1])
    /\ IsOver(th[t].images, DOMAIN keys)
    /\ \A i \in DOMAIN keys : IsFor(t, th[t].images[i], keys[i])
    /\ Carried(t)

Label(t, i) == IF i <= Len(TokensOf(t)) THEN TokensOf(t)[i] ELSE "(null)"

\* m images are encoded, and strtok has agreed k times.
Encoded(t, m, k) ==
    /\ m <= Len(KeysAsked(t))
    /\ th[t].out = [j \in 1 .. m |-> [key |-> Label(t, j), image |-> th[t].images[j]]]
    /\ \A j \in 1 .. k : /\ j < Len(KeysAsked(t)) => j < Len(TokensOf(t))
                         /\ j = Len(KeysAsked(t)) => Len(TokensOf(t)) <= j

\* Which requests come to a place, and what has become of them so far.
Routed(t) ==
    LET d == th[t].info
        jobs(requests) == d.component = "job" /\ d.request \in requests
    IN  /\ At(t, "decode") => Unexecuted(t) /\ (d.code = OK => HasKeys(t))
        /\ At(t, "update") =>
            jobs({"STATE", "PNG", "RENDERLIST"}) /\ Unexecuted(t) /\ HasKeys(t)
        /\ At(t, "query") =>
            \/ d.component = "master" /\ d.request = "RPC" /\ Unexecuted(t)
            \/ jobs({"POLICY", "SCRIPT"})
            \/ jobs({"RENDERLIST"}) /\ Carried(t)
            \/ jobs({"PNG"}) /\ HasKeys(t) /\ Carried(t)
        /\ At(t, "poll") => jobs({"POLICY"})
        /\ th[t].pc \in Encoding => jobs({"PNG"}) /\ HasKeys(t) /\ Encodes(t)
        /\ At(t, "image") => th[t].i \in Nat \ {0} /\ Encoded(t, th[t].i - 1, th[t].i - 1)
        /\ At(t, "next") => th[t].i \in Nat \ {0} /\ Encoded(t, th[t].i, th[t].i - 1)
        /\ th[t].pc \in Holding \cup {"lock"} => d.component = "mod" /\ d.request = "RPC"
        /\ th[t].pc \in {"decode", "update", "query", "poll", "last part"} =>
              th[t].out = <<>>

\* What AnswersAreRight says of one thread.
Answered(t) ==
    LET reply == th[t].reply
        d     == th[t].info
    IN  /\ reply.code \in {400, 404, 405} => Unexecuted(t)
        /\ reply.code = OK /\ d.code = OK =>
                /\ d.request \in {"STATE", "PNG", "RENDERLIST"} => Carried(t)
                /\ d.request = "RPC" /\ d.component = "master" =>
                        Acknowledged(t, MasterId)
                /\ d.request = "POLICY" =>
                        /\ reply.body.kind = "model"
                        /\ Cardinality(reply.body.edits) > d.revision
                /\ reply.body.kind = "images" => ImagesAreRight(t, reply.body.images)

RInv == Distinct /\ \A t \in Thread : Routed(t) /\ (At(t, "idle") => Answered(t))

\* The first invariant, and what it says of this one.
LEMMA HasNumber ==
    ASSUME IInv, NEW t \in Thread, ~At(t, "idle")
    PROVE  th[t].n # 0 /\ th[t].n \in Nat
BY DEF IInv, Numbered, TypeOK

-----------------------------------------------------------------------------
(* What a step of a thread leaves alone.                                   *)

\* Only requests of this thread are executed.
DoneBy(t) ==
    /\ \A d \in Dest : done[d] \subseteq done'[d]
    /\ Executions' \subseteq Executions \cup {th[t].n}

KeepsKeysOf(u) == numOfKeys'[ProcessOf[u]] = numOfKeys[ProcessOf[u]]

LEMMA OthersKeep ==
    ASSUME IInv, RInv, NEW t \in Thread, NEW u \in Thread, th[t].n # 0, u # t,
           th'[u] = th[u], DoneBy(t), KeepsKeysOf(u)
    PROVE  Routed(u)' /\ (At(u, "idle") => Answered(u))'
<1>1. Unexecuted(u) => Unexecuted(u)'
  BY DEF RInv, Distinct, Unexecuted, DoneBy
<1>2. \A d : Acknowledged(u, d) => Acknowledged(u, d)'
  BY DEF Acknowledged, DoneBy
<1>2a. Carried(u) => Carried(u)'
  BY <1>2 DEF Carried
<1>3. (HasKeys(u) => HasKeys(u)') /\ (Encodes(u) => Encodes(u)')
  BY <1>2a DEF HasKeys, Encodes, Shared, KeepsKeysOf, KeysAsked, IsFor
<1>4. \A m, k : Encoded(u, m, k) => Encoded(u, m, k)'
  BY DEF Encoded, KeysAsked, TokensOf, Label
<1>5. Routed(u)'
  <2>1. Routed(u)
    BY DEF RInv
  <2> QED
    BY <1>2a, <1>1, <1>3, <1>4, <2>1 DEF Routed, At
<1>6. (At(u, "idle") => Answered(u))'
  <2>1. At(u, "idle") => Answered(u)
    BY DEF RInv
  <2>2. \A images : ImagesAreRight(u, images) => ImagesAreRight(u, images)'
    BY DEF ImagesAreRight
  <2> QED
    BY <1>2a, <1>1, <1>2, <2>1, <2>2 DEF Answered, At
<1> QED
  BY <1>5, <1>6

\* A thread that a step neither moves nor does something for.
LEMMA StandsStill ==
    ASSUME RInv, NEW u \in Thread, th'[u] = th[u], UNCHANGED done, KeepsKeysOf(u)
    PROVE  Routed(u)' /\ (At(u, "idle") => Answered(u))'
<1>1. /\ Unexecuted(u)' = Unexecuted(u)
      /\ \A d : Acknowledged(u, d)' = Acknowledged(u, d)
  BY DEF Unexecuted, Executions, Acknowledged
<1>1a. Carried(u)' = Carried(u)
  BY <1>1 DEF Carried
<1>2. (HasKeys(u) => HasKeys(u)') /\ (Encodes(u) => Encodes(u)')
  BY <1>1a DEF HasKeys, Encodes, Shared, KeepsKeysOf, KeysAsked, IsFor
<1>3. \A m, k : Encoded(u, m, k)' = Encoded(u, m, k)
  BY DEF Encoded, KeysAsked, TokensOf, Label
<1>4. \A images : ImagesAreRight(u, images)' = ImagesAreRight(u, images)
  BY DEF ImagesAreRight
<1>5. Routed(u)'
  BY <1>1a, <1>1, <1>2, <1>3 DEF RInv, Routed, At
<1>6. Answered(u) => Answered(u)'
  BY <1>1a, <1>1, <1>4 DEF Answered
<1> QED
  BY <1>5, <1>6 DEF RInv, At

LEMMA StepKeeps ==
    ASSUME IInv, RInv, NEW t \in Thread, ~At(t, "idle"), Moves(t), DoneBy(t),
           \A u \in Thread : u # t => KeepsKeysOf(u),
           Routed(t)', (At(t, "idle") => Answered(t))'
    PROVE  RInv'
<1>1. Distinct'
  BY DEF RInv, Distinct, Moves
<1>2. \A u \in Thread : u # t => Routed(u)' /\ (At(u, "idle") => Answered(u))'
  BY HasNumber, OthersKeep DEF Moves
<1> QED
  BY <1>1, <1>2 DEF RInv

LEMMA NothingDone ==
    ASSUME NEW t \in Thread, UNCHANGED done
    PROVE  DoneBy(t)
BY DEF DoneBy, Executions

LEMMA KeysAreKept ==
    ASSUME UNCHANGED numOfKeys
    PROVE  \A u \in Thread : KeepsKeysOf(u)
BY DEF KeepsKeysOf

\* A thread that answers has nothing else to remember.
Same(t) == /\ th'[t].n = th[t].n /\ th'[t].info = th[t].info
           /\ th'[t].req = th[t].req

LEMMA AnswerRoutes ==
    ASSUME IInv, NEW t \in Thread, NEW reply, Answer(t, reply)
    PROVE  /\ Moves(t) /\ Same(t) /\ Routed(t)'
           /\ th'[t].pc = "idle" /\ th'[t].reply = reply
<1> DEFINE r == [th[t] EXCEPT !.pc = "idle", !.reply = reply]
<1>1. /\ DOMAIN r = DOMAIN Idle /\ r = [f \in DOMAIN Idle |-> r[f]]
      /\ r.n = th[t].n /\ r.pc = "idle" /\ r.reply = reply
      /\ r.info = th[t].info /\ r.req = th[t].req
  BY Fields DEF IInv, TypeOK, Shaped
<1>2. th' = [th EXCEPT ![t] = r]
  BY DEF Answer
<1> HIDE DEF r
<1>3. th'[t] = r /\ Moves(t)
  BY <1>1, <1>2, Replaced DEF IInv, Moves
<1> QED
  BY <1>1, <1>3 DEF Same, Routed, At, Encoding, Holding

LEMMA GotoLeaves ==
    ASSUME IInv, NEW t \in Thread, NEW pc, Goto(t, pc)
    PROVE  /\ Moves(t) /\ Same(t) /\ th'[t].pc = pc /\ th'[t].out = th[t].out
           /\ th'[t].images = th[t].images /\ th'[t].i = th[t].i
<1> DEFINE r == [th[t] EXCEPT !.pc = pc]
<1>1. /\ DOMAIN r = DOMAIN Idle /\ r = [f \in DOMAIN Idle |-> r[f]]
      /\ r.n = th[t].n /\ r.pc = pc /\ r.out = th[t].out /\ r.images = th[t].images
      /\ r.info = th[t].info /\ r.req = th[t].req /\ r.i = th[t].i
  BY Fields DEF IInv, TypeOK, Shaped
<1>2. th' = [th EXCEPT ![t] = r]
  BY DEF Goto
<1> HIDE DEF r
<1>3. th'[t] = r /\ Moves(t)
  BY <1>1, <1>2, Replaced DEF IInv, Moves
<1> QED
  BY <1>1, <1>3 DEF Same

\* An answer without a body promises nothing but that a refusal did nothing, and
\* that the update which came with the request has been executed.
LEMMA EmptyAnswers ==
    ASSUME NEW t \in Thread, NEW code, th'[t].reply = Reply(code, Empty), Same(t),
           code \in {400, 404, 405} => Unexecuted(t)',
           code = 200 /\ th[t].info.code = 200 =>
                /\ ~(th[t].info.request \in {"STATE", "RPC", "POLICY"})
                /\ th[t].info.request \in {"PNG", "RENDERLIST"} => Carried(t)'
    PROVE  Answered(t)'
BY DEF Answered, Reply, Empty, Same, OK

\* A step of a thread that ends with an answer, and changes nothing else.
LEMMA AnswerKeeps ==
    ASSUME IInv, RInv, NEW t \in Thread, NEW reply, ~At(t, "idle"),
           Answer(t, reply), UNCHANGED <<done, numOfKeys>>,
           Same(t) /\ th'[t].reply = reply => Answered(t)'
    PROVE  RInv'
BY AnswerRoutes, NothingDone, KeysAreKept, StepKeeps

LEMMA CodesOfFailures ==
    /\ CodeOf(0) = 200 /\ CodeOf(-1) = 408
    /\ \A rv : rv # 0 => CodeOf(rv) \in {408, 500}
BY DEF CodeOf

-----------------------------------------------------------------------------
(* Requests and calls.                                                     *)

LEMMA RequestRoutes ==
    ASSUME IInv, RInv, NEW t \in Thread, NEW req \in menu, Request(t, req)
    PROVE  RInv'
<1> DEFINE r == [Idle EXCEPT !.pc = "decode", !.req = req, !.n = count + 1,
                             !.info = DecodePathInfo(req.path, req.args)]
<1>1. /\ DOMAIN r = DOMAIN Idle /\ r = [f \in DOMAIN Idle |-> r[f]]
      /\ r.n = count + 1 /\ r.pc = "decode" /\ r.out = <<>>
      /\ r.info = DecodePathInfo(req.path, req.args)
  BY DEF Idle
<1>2. th' = [th EXCEPT ![t] = r] /\ At(t, "idle") /\ UNCHANGED <<done, numOfKeys>>
  BY DEF Request
<1> HIDE DEF r
<1>3. th'[t] = r /\ \A u \in Thread : u # t => th'[u] = th[u]
  BY <1>1, <1>2, Replaced DEF IInv
<1>4. count \in Nat /\ count + 1 # 0 /\ \A u \in Thread : th[u].n \in 0 .. count
  BY DEF IInv, TypeOK
<1>5. \A u \in Thread : th[u].n # count + 1
  BY <1>4
<1>6. Distinct'
  BY <1>1, <1>3, <1>5 DEF RInv, Distinct
<1>7. Unexecuted(t)'
  <2>1. \A d \in Dest : done[d] \subseteq 1 .. count
    BY DEF IInv, TypeOK
  <2>2. count + 1 \notin Executions
    BY <1>4, <2>1 DEF Executions
  <2> QED
    BY <1>1, <1>2, <1>3, <2>2 DEF Unexecuted, Executions
<1>8. r.info.code = OK => HasKeys(t)'
  <2>1. menu \in Menus
    BY DEF IInv, TypeOK
  <2>2. r.info.code = OK => KeysOf[r.info.keys] \in Seq(STRING)
    BY <1>1, <2>1, KeysAssumption
  <2> QED
    BY <1>3, <2>2 DEF HasKeys, KeysAsked
<1>9. Routed(t)' /\ (At(t, "idle") => Answered(t))'
  BY <1>1, <1>3, <1>7, <1>8 DEF Routed, At, Encoding, Holding
<1>10. \A u \in Thread : u # t => Routed(u)' /\ (At(u, "idle") => Answered(u))'
  BY <1>2, <1>3, StandsStill DEF KeepsKeysOf
<1> QED
  BY <1>6, <1>9, <1>10 DEF RInv

LEMMA DecodeRoutes == ASSUME IInv, RInv, NEW t \in Thread, Decode(t) PROVE RInv'
<1> DEFINE d == th[t].info  req == th[t].req
<1>1. /\ At(t, "decode") /\ ~At(t, "idle") /\ UNCHANGED <<done, numOfKeys>>
      /\ Unexecuted(t) /\ (d.code = OK => HasKeys(t)) /\ th[t].out = <<>>
  BY DEF Decode, At, web, RInv, Routed
<1>2. Same(t) => Unexecuted(t)'
  BY <1>1 DEF Same, Unexecuted, Executions
<1>3. ASSUME NEW code, code # 200 \/ d.code # 200, Answer(t, Reply(code, Empty))
      PROVE  RInv'
  BY <1>1, <1>2, <1>3, EmptyAnswers, AnswerKeeps
<1>4. CASE ~WellFormed(req)
  BY <1>3, <1>4 DEF Decode
<1>5. CASE WellFormed(req) /\ d.code # OK
  BY <1>3, <1>5 DEF Decode, OK
<1>6. CASE WellFormed(req) /\ d.code = OK /\ d.component = "job" /\ d.request = "FILE"
  <2>1. CASE d.path \in Files
    <3>1. Answer(t, Reply(OK, [kind |-> "file"]))
      BY <1>6, <2>1 DEF Decode, SendFile
    <3>2. Same(t) /\ th'[t].reply = Reply(OK, [kind |-> "file"]) => Answered(t)'
      BY <1>6 DEF Answered, Same, Reply, OK
    <3> QED
      BY <1>1, <3>1, <3>2, AnswerKeeps
  <2>2. CASE d.path \notin Files
    <3>1. Answer(t, Reply(NotFound, Empty)) /\ NotFound # 200
      BY <1>6, <2>2 DEF Decode, SendFile, NotFound
    <3> QED
      BY <1>3, <3>1
  <2> QED
    BY <2>1, <2>2
<1>7. CASE /\ WellFormed(req) /\ d.code = OK
           /\ ~(d.component = "job" /\ d.request = "FILE")
  <2> DEFINE pc == HandlerBody(req, d)
  <2>1. CASE pc = "missing"
    <3>1. Answer(t, Reply(NotFound, Empty)) /\ NotFound # 200
      BY <1>7, <2>1 DEF Decode, NotFound
    <3> QED
      BY <1>3, <3>1
  <2>2. CASE pc # "missing"
    <3>1. Goto(t, pc)
      BY <1>7, <2>2 DEF Decode
    <3>2. \/ pc = "lock" /\ d.component = "mod" /\ d.request = "RPC"
          \/ pc = "query" /\ d.component = "master" /\ d.request = "RPC"
          \/ /\ pc = "update" /\ d.component = "job"
             /\ d.request \in {"STATE", "PNG", "RENDERLIST"}
          \/ /\ pc = "query" /\ d.component = "job"
             /\ d.request \in {"POLICY", "SCRIPT", "RENDERLIST", "PNG"}
             /\ d.request \in {"PNG", "RENDERLIST"} => req.method # "POST"
      BY <2>2 DEF HandlerBody, PiggyBack
    <3> HIDE DEF pc
    <3>3. /\ Moves(t) /\ Same(t) /\ th'[t].pc = pc /\ th'[t].out = th[t].out
      BY <3>1, GotoLeaves
    <3>4. HasKeys(t)'
      BY <1>1, <1>7, <3>3 DEF HasKeys, KeysAsked, Same
    <3>5. Routed(t)' /\ (At(t, "idle") => Answered(t))'
      BY <1>1, <1>2, <3>2, <3>3, <3>4
      DEF Routed, At, Same, Encoding, Holding, Carried, BringsUpdate
    <3> QED
      BY <1>1, <3>3, <3>5, NothingDone, KeysAreKept, StepKeeps
  <2> QED
    BY <2>1, <2>2
<1> QED
  BY <1>4, <1>5, <1>6, <1>7

\* What a thread that calls knows of its message.
LEMMA CallOf ==
    ASSUME IInv, RInv, NEW t \in Thread, CallPending(t)
    PROVE  LET d == th[t].info  q == MessageOf(t) IN
           /\ ~At(t, "idle") /\ th[t].out = <<>>
           /\ At(t, "update") =>
                /\ q.type = "STATE" /\ DestOf(d) = d.job /\ Unexecuted(t)
                /\ d.component = "job" /\ d.request \in {"STATE", "PNG", "RENDERLIST"}
                /\ HasKeys(t)
           /\ At(t, "query") =>
                \/ /\ q.type = "XML" /\ DestOf(d) = MasterId /\ Unexecuted(t)
                   /\ d.component = "master" /\ d.request = "RPC"
                \/ /\ q.type = d.request /\ DestOf(d) = d.job /\ d.component = "job"
                   /\ d.request \in {"POLICY", "SCRIPT", "RENDERLIST"}
                   /\ d.request = "RENDERLIST" => Carried(t)
                \/ /\ q.type = "SNAPSHOT" /\ DestOf(d) = d.job /\ d.component = "job"
                   /\ d.request = "PNG" /\ HasKeys(t) /\ Carried(t)
<1>1. Routed(t) /\ (At(t, "update") \/ At(t, "query"))
  BY DEF RInv, CallPending
<1>2. ~At(t, "idle") /\ th[t].out = <<>> /\ (At(t, "query") => ~At(t, "update"))
  BY <1>1 DEF Routed, At
<1>3. /\ th[t].info.component = "job" => DestOf(th[t].info) = th[t].info.job
      /\ th[t].info.component = "master" => DestOf(th[t].info) = MasterId
  BY DEF DestOf
<1>4. CASE At(t, "update")
  <2>1. MessageOf(t).type = "STATE" /\ ~At(t, "query")
    BY <1>2, <1>4 DEF MessageOf
  <2> QED
    BY <1>1, <1>2, <1>3, <1>4, <2>1 DEF Routed
<1>5. CASE At(t, "query")
  <2> DEFINE d == th[t].info
  <2>1. /\ ~At(t, "update")
        /\ d.request = "RPC" => MessageOf(t).type = "XML"
        /\ d.request = "PNG" => MessageOf(t).type = "SNAPSHOT"
        /\ d.request \in {"POLICY", "SCRIPT", "RENDERLIST"} =>
              MessageOf(t).type = d.request
    BY <1>2, <1>5 DEF MessageOf
  <2>2. \/ d.component = "master" /\ d.request = "RPC" /\ Unexecuted(t)
        \/ /\ d.component = "job" /\ d.request \in {"POLICY", "SCRIPT", "RENDERLIST"}
           /\ d.request = "RENDERLIST" => Carried(t)
        \/ d.component = "job" /\ d.request = "PNG" /\ HasKeys(t) /\ Carried(t)
    BY <1>1, <1>5 DEF Routed
  <2> QED
    BY <1>2, <1>3, <2>1, <2>2
<1> QED
  BY <1>1, <1>4, <1>5

LEMMA RefuseCallRoutes ==
    ASSUME IInv, RInv, NEW t \in Thread, RefuseCall(t) PROVE RInv'
<1> DEFINE code == RefusedCode(t)
<1>1. /\ CallPending(t) /\ Answer(t, Reply(code, Empty))
      /\ UNCHANGED <<done, numOfKeys>>
  BY DEF RefuseCall, web
<1>2. \/ code \in {400, 405} /\ Writes(MessageOf(t))
      \/ code = 507
      \/ code = 0
  BY DEF RefusedCode, UpdateRefused, BadRequest
<1>3. Writes(MessageOf(t)) => Unexecuted(t)
  BY <1>1, CallOf DEF Writes, CallPending
<1>4. Same(t) => (code \in {400, 404, 405} => Unexecuted(t)')
  BY <1>1, <1>2, <1>3 DEF Same, Unexecuted, Executions
<1>5. code # 200
  BY <1>2
<1> HIDE DEF code
<1>6. ~At(t, "idle")
  BY <1>1, CallOf
<1>7. Same(t) /\ th'[t].reply = Reply(code, Empty) => Answered(t)'
  BY <1>4, <1>5, EmptyAnswers
<1> QED
  BY <1>1, <1>6, <1>7, AnswerKeeps

\* A failure is answered with 408 or 500.
LEMMA FailKeeps ==
    ASSUME IInv, RInv, NEW t \in Thread, NEW rv, rv # 0, Fail(t, rv),
           ~At(t, "idle"), UNCHANGED <<done, numOfKeys>>
    PROVE  RInv'
<1>1. CodeOf(rv) \in {408, 500}
  BY CodesOfFailures
<1>2. Same(t) /\ th'[t].reply = Reply(CodeOf(rv), Empty) => Answered(t)'
  BY <1>1, EmptyAnswers
<1> QED
  BY <1>2, AnswerKeeps DEF Fail

LEMMA NoCallRoutes ==
    ASSUME IInv, RInv, NEW t \in Thread, NoSegment(t) \/ LockTimesOut(t)
    PROVE  RInv'
<1>1. /\ CallPending(t) /\ UNCHANGED <<done, numOfKeys>>
      /\ Fail(t, -1) \/ Fail(t, -2)
  BY DEF NoSegment, LockTimesOut, Calls, web
<1>2. ~At(t, "idle") /\ -1 # 0 /\ -2 # 0
  BY <1>1, CallOf
<1> QED
  BY <1>1, <1>2, FailKeeps

LEMMA PollRoutes ==
    ASSUME IInv, RInv, NEW t \in Thread, PollNotified(t) \/ PollTimesOut(t)
    PROVE  RInv'
<1>1. /\ ~At(t, "idle") /\ UNCHANGED <<done, numOfKeys>> /\ th[t].out = <<>>
      /\ th[t].info.component = "job" /\ th[t].info.request = "POLICY"
  BY DEF PollNotified, PollTimesOut, At, web, RInv, Routed
<1>2. CASE PollNotified(t)
  <2>1. Goto(t, "query")
    BY <1>2 DEF PollNotified
  <2>2. Moves(t) /\ Same(t) /\ th'[t].pc = "query" /\ th'[t].out = th[t].out
    BY <2>1, GotoLeaves
  <2>3. Routed(t)' /\ (At(t, "idle") => Answered(t))'
    BY <1>1, <2>2 DEF Routed, At, Same, Encoding, Holding
  <2> QED
    BY <1>1, <2>2, <2>3, NothingDone, KeysAreKept, StepKeeps
<1>3. CASE PollTimesOut(t)
  BY <1>1, <1>3, FailKeeps DEF PollTimesOut
<1> QED
  BY <1>2, <1>3

LEMMA DestIsDone ==
    ASSUME IInv, NEW t \in Thread, NEW dest, NEW now,
           now \in {done[dest], done[dest] \cup {th[t].n}},
           done' = [done EXCEPT ![dest] = now]
    PROVE  /\ DoneBy(t)
           /\ dest \in Dest => done'[dest] = now
<1>1. DOMAIN done = Dest /\ DOMAIN done' = Dest
  BY DEF IInv, TypeOK
<1>2. \A d \in Dest : done'[d] = IF d = dest THEN now ELSE done[d]
  BY <1>1
<1> QED
  BY <1>2 DEF DoneBy, Executions

\* What the job's answer to a message that is no snapshot becomes.
LEMMA AnswerByType ==
    ASSUME NEW q, NEW now, NEW c, NEW ok
    PROVE  LET r == PassReply(Handle(q, now, c, ok), q.type = "POLICY") IN
           /\ q.type = "XML" => r.rv = IF ok THEN 0 ELSE -1
           /\ q.type = "STATE" => r.rv = 0
           /\ q.type \in {"SCRIPT", "RENDERLIST"} => r.rv = 0
           /\ q.type = "POLICY" =>
                \/ r.rv = 1
                \/ /\ r.rv = 0 /\ c > q.revision
                   /\ r.body = [kind |-> "model", edits |-> now]
           /\ q.type \in {"STATE", "XML", "SCRIPT", "RENDERLIST", "POLICY"} =>
                r.body.kind \in {"empty", "model", "script"}
<1>1. CASE q.type = "STATE"
  BY <1>1 DEF Handle, UpdateState, PassReply, Empty
<1>2. CASE q.type = "XML"
  BY <1>2 DEF Handle, MasterRpc, PassReply, Error, Empty
<1>3. CASE q.type = "SCRIPT"
  BY <1>3 DEF Handle, PassReply
<1>4. CASE q.type = "RENDERLIST"
  BY <1>4 DEF Handle, PassReply
<1>5. CASE q.type = "POLICY"
  BY <1>5 DEF Handle, GetPolicyUpdate, PassReply, Empty
<1> QED
  BY <1>1, <1>2, <1>3, <1>4, <1>5

\* A step of a call that has come back with rv and body.
LEMMA AfterUpdateRoutes ==
    ASSUME IInv, RInv, NEW t \in Thread, CallPending(t), NEW rv, NEW body,
           AfterUpdate(t, rv, body), DoneBy(t), UNCHANGED numOfKeys,
           body.kind \in {"empty", "model", "script"},
           rv = 0 /\ Writes(MessageOf(t))
                  /\ (MessageOf(t).type = "XML" \/ th[t].req.wellFormed) =>
                /\ DestOf(th[t].info) \in Dest
                /\ th[t].n \in done'[DestOf(th[t].info)],
           rv = 0 /\ MessageOf(t).type = "POLICY" =>
                /\ body.kind = "model"
                /\ Cardinality(body.edits) > th[t].info.revision
    PROVE  RInv'
<1> DEFINE d == th[t].info  dest == DestOf(d)
<1>1. /\ ~At(t, "idle") /\ th[t].out = <<>>
      /\ At(t, "update") => /\ MessageOf(t).type = "STATE" /\ dest = d.job
                            /\ d.component = "job" /\ HasKeys(t)
                            /\ d.request \in {"STATE", "PNG", "RENDERLIST"}
      /\ At(t, "query") =>
            \/ /\ MessageOf(t).type = "XML" /\ dest = MasterId
               /\ d.request = "RPC"
            \/ /\ MessageOf(t).type = d.request
               /\ d.request \in {"POLICY", "SCRIPT", "RENDERLIST"}
               /\ d.request = "RENDERLIST" => Carried(t)
            \/ d.request = "PNG" /\ Carried(t)
      /\ At(t, "update") \/ At(t, "query")
  BY CallOf DEF CallPending
<1>2. CASE rv = 0 /\ At(t, "update") /\ d.request # "STATE"
  <2>1. Goto(t, "query")
    BY <1>2 DEF AfterUpdate
  <2>2. Moves(t) /\ Same(t) /\ th'[t].pc = "query" /\ th'[t].out = th[t].out
    BY <2>1, GotoLeaves
  <2>3. th[t].req.wellFormed => d.job \in Dest /\ th[t].n \in done'[d.job]
    BY <1>1, <1>2 DEF Writes
  <2>4. Carried(t)' /\ HasKeys(t)'
    BY <1>1, <1>2, <2>2, <2>3
    DEF Carried, BringsUpdate, Acknowledged, HasKeys, KeysAsked, Same
  <2>5. Routed(t)' /\ (At(t, "idle") => Answered(t))'
    BY <1>1, <1>2, <2>2, <2>4 DEF Routed, At, Same, Encoding, Holding
  <2> QED
    BY <1>1, <2>2, <2>5, KeysAreKept, StepKeeps
<1>3. CASE ~(rv = 0 /\ At(t, "update") /\ d.request # "STATE")
  <2> DEFINE reply == Reply(CodeOf(rv), body)
  <2>1. Answer(t, reply)
    BY <1>3 DEF AfterUpdate
  <2>2. /\ Moves(t) /\ Same(t) /\ Routed(t)' /\ th'[t].reply = reply
        /\ th'[t].pc = "idle"
    BY <2>1, AnswerRoutes
  <2>3. reply.code \notin {400, 404, 405} /\ (reply.code = 200 => rv = 0)
        /\ reply.body = body
    BY CodesOfFailures DEF Reply
  <2> HIDE DEF reply
  <2>4. Answered(t)'
    <3>1. CASE rv # 0
      BY <2>2, <2>3, <3>1 DEF Answered, OK
    <3>2. CASE rv = 0
      <4>1. d.request \in {"STATE", "PNG", "RENDERLIST"} => Carried(t)'
        <5>1. CASE At(t, "update")
          BY <1>1, <2>2, <3>2, <5>1
          DEF Writes, Carried, BringsUpdate, Acknowledged, Same
        <5>2. CASE At(t, "query") /\ Carried(t)
          BY <2>2, <5>2 DEF Carried, Acknowledged, Same, DoneBy
        <5> QED
          BY <1>1, <5>1, <5>2
      <4>2. d.request = "RPC" /\ d.component = "master" => Acknowledged(t, MasterId)'
        BY <1>1, <2>2, <3>2 DEF Writes, Acknowledged, Same
      <4>3. d.request = "POLICY" => MessageOf(t).type = "POLICY"
        BY <1>1
      <4> QED
        BY <2>2, <2>3, <3>2, <4>1, <4>2, <4>3 DEF Answered, Same
    <3> QED
      BY <3>1, <3>2
  <2> QED
    BY <1>1, <2>2, <2>4, KeysAreKept, StepKeeps
<1> QED
  BY <1>2, <1>3

LEMMA ExchangeFailsRoutes ==
    ASSUME IInv, RInv, NEW t \in Thread, NEW rv \in {-1, -2},
           NEW executed \in BOOLEAN, ExchangeFails(t, rv, executed)
    PROVE  RInv'
<1> DEFINE dest == DestOf(th[t].info)
<1>1. /\ CallPending(t) /\ rv # 0 /\ AfterUpdate(t, rv, Empty)
      /\ UNCHANGED numOfKeys
  BY DEF ExchangeFails, Calls
<1>2. DoneBy(t)
  <2>1. CASE executed
    <3>1. done' = [done EXCEPT ![dest] = done[dest] \cup {th[t].n}]
      BY <2>1 DEF ExchangeFails
    <3> HIDE DEF dest
    <3> QED
      BY <3>1, DestIsDone
  <2>2. CASE ~executed
    BY <2>2, NothingDone DEF ExchangeFails
  <2> QED
    BY <2>1, <2>2
<1>3. Empty.kind = "empty"
  BY DEF Empty
<1> QED
  BY <1>1, <1>2, <1>3, AfterUpdateRoutes

LEMMA IsFunctionOf ==
    ASSUME NEW n \in Nat, NEW f, f = [i \in 1 .. n |-> f[i]]
    PROVE  f \in Seq({f[i] : i \in 1 .. n}) /\ Len(f) = n
<1> DEFINE S == {f[i] : i \in 1 .. n}
<1>1. f \in [1 .. n -> S] /\ DOMAIN f = 1 .. n
  OBVIOUS
<1>2. f \in Seq(S)
  BY <1>1, SeqDef
<1> HIDE DEF S
<1>3. Len(f) \in Nat /\ 1 .. Len(f) = 1 .. n
  BY <1>1, <1>2, LenProperties
<1>4. Len(f) = n
  BY <1>3
<1> QED
  BY <1>2, <1>4 DEF S

\* The first part of an image answer that mod_trell accepts has an image for
\* every key.
LEMMA FirstPartIsGood ==
    ASSUME NEW q, NEW now, NEW m, m = GetSnapshot(q, now), FirstPart(q, m) = 0
    PROVE  /\ IsNamed(Keys(q)[1])
           /\ IsOver(m.images, DOMAIN Keys(q))
           /\ \A i \in DOMAIN Keys(q) : m.images[i] = Image(Keys(q)[i], q, now)
<1> DEFINE image == [type |-> "IMAGE", bytes |-> DataSize(q),
                     images |-> [i \in DOMAIN Keys(q) |-> Image(Keys(q)[i], q, now)]]
<1>1. m = Error \/ m = image
  <2>1. GetSnapshot(q, now) = Error \/ GetSnapshot(q, now) = image
    BY Zenon DEF GetSnapshot
  <2> QED
    BY <2>1, Zenon
<1>2. Error.type = "ERROR"
  BY DEF Error
<1>3. m.type = "IMAGE" /\ IsNamed(Keys(q)[1])
  <2>1. ~q.base64 => FirstPart(q, m) = 500
    BY Zenon DEF FirstPart
  <2>2. q.base64 /\ (Keys(q)[1] = "" \/ m.type # "IMAGE") => FirstPart(q, m) = -1
    BY Zenon DEF FirstPart
  <2>3. FirstPart(q, m) # 500 /\ FirstPart(q, m) # -1
    OBVIOUS
  <2> QED
    BY <2>1, <2>2, <2>3, Zenon DEF IsNamed
<1>4. m.images = image.images
  BY <1>1, <1>2, <1>3, Zenon
<1>5. image.images = [i \in DOMAIN Keys(q) |-> Image(Keys(q)[i], q, now)]
  OBVIOUS
<1> HIDE DEF image
<1> QED
  BY <1>3, <1>4, <1>5 DEF IsOver

LEMMA KeysTyped ==
    ASSUME IInv, NEW t \in Thread
    PROVE  DOMAIN numOfKeys = Process /\ ProcessOf[t] \in Process
BY ThreadAssumption DEF IInv, TypeOK

LEMMA SnapshotRoutes ==
    ASSUME IInv, RInv, NEW t \in Thread, ~At(t, "idle"), HasKeys(t),
           th[t].out = <<>>, th[t].info.component = "job", Carried(t),
           th[t].info.request = "PNG", NEW images, NEW bytes,
           IsNamed(KeysAsked(t)[1]),
           IsOver(images, DOMAIN KeysAsked(t)),
           \A i \in DOMAIN KeysAsked(t) : IsFor(t, images[i], KeysAsked(t)[i]),
           numOfKeys' = [numOfKeys EXCEPT ![ProcessOf[t]] = Len(KeysAsked(t))],
           th' = [th EXCEPT ![t].pc = "last part", ![t].images = images,
                            ![t].bytes = bytes],
           DoneBy(t)
    PROVE  RInv'
<1> DEFINE keys == KeysAsked(t)
           r == [th[t] EXCEPT !.pc = "last part", !.images = images, !.bytes = bytes]
<1>1. /\ DOMAIN r = DOMAIN Idle /\ r = [f \in DOMAIN Idle |-> r[f]]
      /\ r.n = th[t].n /\ r.pc = "last part" /\ r.images = images
      /\ r.info = th[t].info /\ r.req = th[t].req /\ r.out = <<>>
  BY Fields DEF IInv, TypeOK, Shaped
<1>2. th' = [th EXCEPT ![t] = r]
  OBVIOUS
<1> HIDE DEF r, keys
<1>3. /\ numOfKeys'[ProcessOf[t]] = Len(keys)
      /\ \A u \in Thread : u # t => KeepsKeysOf(u)
  BY KeysTyped, PreforkAssumption DEF KeepsKeysOf, keys
<1>4. th'[t] = r /\ Moves(t)
  BY <1>1, <1>2, Replaced DEF IInv, Moves
<1>5. KeysAsked(t)' = keys /\ HasKeys(t)'
  BY <1>1, <1>4 DEF KeysAsked, keys, HasKeys
<1>6. Encodes(t)'
  <2>1. Shared(t)' = Len(keys)
    BY <1>3 DEF Shared
  <2>2. \A i \in DOMAIN keys : IsFor(t, th[t].images[i], KeysAsked(t)[i])'
    <3>1. ASSUME NEW i \in DOMAIN keys
          PROVE  IsFor(t, th[t].images[i], KeysAsked(t)[i])'
      <4>1. th'[t].images[i] = images[i] /\ KeysAsked(t)' = KeysAsked(t)
        BY <1>1, <1>4, <1>5 DEF keys
      <4>2. IsFor(t, images[i], KeysAsked(t)[i])
        BY DEF keys
      <4> QED
        BY <1>1, <1>4, <4>1, <4>2 DEF IsFor
    <3> QED
      BY <3>1
  <2>3. Carried(t)'
    BY <1>1, <1>4 DEF Carried, Acknowledged, DoneBy
  <2> QED
    BY <1>1, <1>4, <1>5, <2>1, <2>2, <2>3 DEF Encodes, keys
<1>7. Routed(t)' /\ (At(t, "idle") => Answered(t))'
  BY <1>1, <1>4, <1>5, <1>6 DEF Routed, At, Encoding, Holding
<1> QED
  BY <1>3, <1>4, <1>7, StepKeeps

LEMMA ExchangeRoutes == ASSUME IInv, RInv, NEW t \in Thread, Exchange(t) PROVE RInv'
<1> DEFINE d == th[t].info  dest == DestOf(d)  q == MessageOf(t)
           ok == th[t].req.wellFormed
           now == IF Executed(q, ok) THEN done[dest] \cup {th[t].n} ELSE done[dest]
           m == Handle(q, now, Cardinality(now), ok)
           r == PassReply(m, q.type = "POLICY")
<1>1. /\ CallPending(t) /\ HasSegment(dest)
      /\ done' = [done EXCEPT ![dest] = now]
      /\ \/ /\ q.type # "SNAPSHOT" /\ UNCHANGED numOfKeys
            /\ IF r.rv > 0
               THEN th' = [th EXCEPT ![t].pc = "poll", ![t].i = Cardinality(now)]
               ELSE AfterUpdate(t, r.rv, r.body)
         \/ /\ q.type = "SNAPSHOT" /\ FirstPart(q, m) # 0
            /\ Fail(t, SendRecv(FirstPart(q, m))) /\ UNCHANGED numOfKeys
         \/ /\ q.type = "SNAPSHOT" /\ FirstPart(q, m) = 0
            /\ numOfKeys' = [numOfKeys EXCEPT ![ProcessOf[t]] = NumOfKeys(q)]
            /\ th' = [th EXCEPT ![t].pc = "last part", ![t].images = m.images,
                                ![t].bytes = m.bytes]
  BY DEF Exchange, Calls
<1>2. dest \in Dest /\ DoneBy(t) /\ done'[dest] = now
  <2>1. now \in {done[dest], done[dest] \cup {th[t].n}}
    OBVIOUS
  <2>2. dest \in Dest
    BY <1>1 DEF HasSegment, Dest
  <2> HIDE DEF now, dest
  <2> QED
    BY <1>1, <2>1, <2>2, DestIsDone
<1>3. /\ ~At(t, "idle") /\ th[t].out = <<>>
      /\ q.type \in {"STATE", "XML", "SCRIPT", "RENDERLIST", "POLICY", "SNAPSHOT"}
      /\ q.type = "POLICY" => d.request = "POLICY" /\ d.component = "job"
      /\ q.type = "SNAPSHOT" => d.request = "PNG"
      /\ q.revision = d.revision
  BY <1>1, CallOf DEF CallPending, MessageOf
<1>4. /\ q.type = "XML" => r.rv = IF ok THEN 0 ELSE -1
      /\ q.type = "STATE" => r.rv = 0
      /\ q.type \in {"SCRIPT", "RENDERLIST"} => r.rv = 0
      /\ q.type = "POLICY" =>
            \/ r.rv = 1
            \/ /\ r.rv = 0 /\ Cardinality(now) > q.revision
               /\ r.body = [kind |-> "model", edits |-> now]
      /\ q.type # "SNAPSHOT" => r.body.kind \in {"empty", "model", "script"}
  <2> HIDE DEF now, ok, q
  <2> QED
    BY <1>3, AnswerByType
<1>5. CASE q.type # "SNAPSHOT" /\ ~(r.rv > 0)
  <2>1. AfterUpdate(t, r.rv, r.body) /\ UNCHANGED numOfKeys
    BY <1>1, <1>5
  <2>2. r.body.kind \in {"empty", "model", "script"}
    <3> HIDE DEF r, now, ok, q
    <3> QED
      BY <1>3, <1>5, <1>4
  <2>3. r.rv = 0 /\ Writes(q) /\ (q.type = "XML" \/ ok) => th[t].n \in done'[dest]
    <3>1. r.rv = 0 /\ q.type = "XML" => ok
      BY <1>4
    <3>2. Writes(q) /\ ok => th[t].n \in now
      BY DEF Executed
    <3> HIDE DEF r, now, q, ok, dest
    <3> QED
      BY <1>2, <3>1, <3>2
  <2>4. r.rv = 0 /\ q.type = "POLICY" => /\ r.body.kind = "model"
                                         /\ Cardinality(r.body.edits) > d.revision
    <3> HIDE DEF r, now, q, d
    <3> QED
      BY <1>3, <1>4
  <2> HIDE DEF r
  <2> QED
    BY <1>1, <1>2, <2>1, <2>2, <2>3, <2>4, AfterUpdateRoutes
<1>6. CASE q.type # "SNAPSHOT" /\ r.rv > 0
  <2>1. q.type = "POLICY"
    <3> HIDE DEF r, now, ok, q
    <3> QED
      BY <1>3, <1>6, <1>4
  <2>2. th' = [th EXCEPT ![t].pc = "poll", ![t].i = Cardinality(now)]
    BY <1>1, <1>6
  <2> DEFINE s == [th[t] EXCEPT !.pc = "poll", !.i = Cardinality(now)]
  <2> HIDE DEF now, r, m, q
  <2>3. /\ DOMAIN s = DOMAIN Idle /\ s = [f \in DOMAIN Idle |-> s[f]]
        /\ s.n = th[t].n /\ s.pc = "poll" /\ s.info = d /\ s.out = <<>>
    BY <1>3, Fields DEF IInv, TypeOK, Shaped
  <2>4. th' = [th EXCEPT ![t] = s]
    BY <2>2
  <2> HIDE DEF s
  <2>5. th'[t] = s /\ Moves(t)
    BY <2>3, <2>4, Replaced DEF IInv, Moves
  <2>6. Routed(t)' /\ (At(t, "idle") => Answered(t))'
    BY <1>3, <2>1, <2>3, <2>5 DEF Routed, At, Encoding, Holding
  <2> QED
    BY <1>1, <1>2, <1>3, <1>6, <2>5, <2>6, KeysAreKept, StepKeeps
<1>7. CASE q.type = "SNAPSHOT" /\ FirstPart(q, m) # 0
  <2> DEFINE reply == Reply(CodeOf(SendRecv(FirstPart(q, m))), Empty)
  <2>1. Answer(t, reply) /\ UNCHANGED numOfKeys
    BY <1>1, <1>7 DEF Fail
  <2>2. CodeOf(SendRecv(FirstPart(q, m))) \notin {400, 404, 405}
    BY CodesOfFailures
  <2>3. Moves(t) /\ Same(t) /\ Routed(t)' /\ th'[t].reply = reply
    BY <2>1, AnswerRoutes
  <2>4. Carried(t)
    BY <1>1, <1>7, CallOf DEF CallPending
  <2>5. Carried(t)'
    BY <1>2, <2>3, <2>4 DEF Carried, Acknowledged, DoneBy, Same
  <2>6. Answered(t)'
    BY <1>3, <1>7, <2>2, <2>3, <2>5, EmptyAnswers
  <2> QED
    BY <1>2, <1>3, <2>1, <2>3, <2>6, KeysAreKept, StepKeeps
<1>8. CASE q.type = "SNAPSHOT" /\ FirstPart(q, m) = 0
  <2>1. /\ numOfKeys' = [numOfKeys EXCEPT ![ProcessOf[t]] = NumOfKeys(q)]
        /\ th' = [th EXCEPT ![t].pc = "last part", ![t].images = m.images,
                            ![t].bytes = m.bytes]
    BY <1>1, <1>8
  <2>2. /\ HasKeys(t) /\ d.component = "job" /\ d.request = "PNG" /\ dest = d.job
        /\ Carried(t)
    BY <1>1, <1>8, CallOf DEF CallPending
  <2>3. /\ Keys(q) = KeysAsked(t) /\ q.width = d.width /\ q.height = d.height
    BY DEF MessageOf, Keys, KeysAsked
  <2>4. /\ IsNamed(KeysAsked(t)[1])
        /\ IsOver(m.images, DOMAIN KeysAsked(t))
        /\ \A i \in DOMAIN KeysAsked(t) : m.images[i] = Image(KeysAsked(t)[i], q, now)
    <3>1. /\ IsNamed(Keys(q)[1])
          /\ IsOver(m.images, DOMAIN Keys(q))
          /\ \A i \in DOMAIN Keys(q) : m.images[i] = Image(Keys(q)[i], q, now)
      <4>1. m = GetSnapshot(q, now)
        BY <1>8 DEF Handle
      <4> HIDE DEF now, ok, q, m
      <4> QED
        BY <1>8, <4>1, FirstPartIsGood
    <3> HIDE DEF m, q, now
    <3> QED
      BY <2>3, <3>1
  <2>5. now = done[dest] /\ (BringsUpdate(th[t].req) => th[t].n \in now)
    BY <1>8, <2>2 DEF Executed, Writes, Carried, Acknowledged
  <2> DEFINE images == m.images  bytes == m.bytes
  <2> HIDE DEF m, now, images, bytes, q
  <2>6. /\ IsOver(images, DOMAIN KeysAsked(t))
        /\ \A i \in DOMAIN KeysAsked(t) : IsFor(t, images[i], KeysAsked(t)[i])
    <3>1. IsOver(images, DOMAIN KeysAsked(t))
      BY <2>4 DEF images
    <3>2. ASSUME NEW i \in DOMAIN KeysAsked(t)
          PROVE  IsFor(t, images[i], KeysAsked(t)[i])
      <4>1. images[i] = Image(KeysAsked(t)[i], q, now)
        BY <2>4 DEF images
      <4>2. images[i] = [viewer |-> KeysAsked(t)[i], width |-> d.width,
                         height |-> d.height, edits |-> now]
        BY <2>3, <4>1 DEF Image
      <4> QED
        BY <2>5, <4>2 DEF IsFor
    <3> QED
      BY <3>1, <3>2
  <2>7. numOfKeys' = [numOfKeys EXCEPT ![ProcessOf[t]] = Len(KeysAsked(t))]
    BY <2>1, <2>3 DEF NumOfKeys
  <2>8. th' = [th EXCEPT ![t].pc = "last part", ![t].images = images,
                            ![t].bytes = bytes]
    BY <2>1 DEF images, bytes
  <2> QED
    BY <1>2, <1>3, <2>2, <2>4, <2>6, <2>7, <2>8, SnapshotRoutes
<1> QED
  BY <1>5, <1>6, <1>7, <1>8

-----------------------------------------------------------------------------
(* Images.                                                                 *)

\* What is known of a thread that encodes.
LEMMA EncoderIs ==
    ASSUME IInv, RInv, NEW t \in Thread, th[t].pc \in Encoding
    PROVE  /\ ~At(t, "idle") /\ HasKeys(t) /\ Encodes(t)
           /\ th[t].info.component = "job" /\ th[t].info.request = "PNG"
           /\ Len(KeysAsked(t)) \in Nat /\ DOMAIN KeysAsked(t) = 1 .. Len(KeysAsked(t))
           /\ KeysAsked(t) = [i \in 1 .. Len(KeysAsked(t)) |-> KeysAsked(t)[i]]
<1>1. /\ ~At(t, "idle") /\ HasKeys(t) /\ Encodes(t)
      /\ th[t].info.component = "job" /\ th[t].info.request = "PNG"
  BY DEF RInv, Routed, At, Encoding
<1>2. KeysAsked(t) \in Seq(STRING)
  BY <1>1 DEF HasKeys
<1> HIDE DEF KeysAsked
<1>3. /\ Len(KeysAsked(t)) \in Nat /\ DOMAIN KeysAsked(t) = 1 .. Len(KeysAsked(t))
      /\ KeysAsked(t) \in [1 .. Len(KeysAsked(t)) -> STRING]
  BY <1>2, LenProperties
<1> QED
  BY <1>1, <1>3

\* A step that goes on encoding the same request.
LEMMA EncodingKeeps ==
    ASSUME IInv, RInv, NEW t \in Thread, th[t].pc \in Encoding, Moves(t), Same(t),
           UNCHANGED <<done, numOfKeys>>, th'[t].images = th[t].images
    PROVE  /\ KeysAsked(t)' = KeysAsked(t) /\ TokensOf(t)' = TokensOf(t)
           /\ HasKeys(t)' /\ Encodes(t)'
           /\ th'[t].info.component = "job" /\ th'[t].info.request = "PNG"
           /\ DoneBy(t) /\ \A u \in Thread : KeepsKeysOf(u)
<1>1. /\ HasKeys(t) /\ Encodes(t)
      /\ th[t].info.component = "job" /\ th[t].info.request = "PNG"
  BY EncoderIs
<1>2. KeysAsked(t)' = KeysAsked(t) /\ TokensOf(t)' = TokensOf(t)
  BY DEF KeysAsked, TokensOf, Same
<1>3. HasKeys(t)'
  BY <1>1, <1>2 DEF HasKeys
<1>4. \A i, k : IsFor(t, i, k)' = IsFor(t, i, k)
  BY DEF IsFor, Same
<1>5. Shared(t)' = Shared(t)
  BY DEF Shared
<1>6. Encodes(t)'
  <2> DEFINE keys == KeysAsked(t)
  <2>1. keys' = keys
    BY <1>2
  <2>2. /\ Shared(t) = Len(keys) /\ (Len(keys) = 1 => IsNamed(keys[1]))
        /\ IsOver(th[t].images, DOMAIN keys)
        /\ \A i \in DOMAIN keys : IsFor(t, th[t].images[i], keys[i])
        /\ Carried(t)
    BY <1>1 DEF Encodes
  <2> HIDE DEF keys
  <2>4. Carried(t)'
    BY <2>2 DEF Carried, Acknowledged, Same
  <2>3. /\ Shared(t)' = Len(keys') /\ (Len(keys') = 1 => IsNamed(keys'[1]))
        /\ IsOver(th'[t].images, DOMAIN keys')
        /\ \A i \in DOMAIN keys' : IsFor(t, th[t].images[i], keys[i])'
    BY <1>4, <1>5, <2>1, <2>2
  <2> QED
    BY <2>3, <2>4 DEF Encodes, keys
<1> QED
  BY <1>1, <1>2, <1>3, <1>6, NothingDone, KeysAreKept DEF Same

\* An image answer that goes wrong, with or without a code that says so.
LEMMA EncodingFails ==
    ASSUME IInv, RInv, NEW t \in Thread, th[t].pc \in Encoding, NEW rv, Fail(t, rv),
           UNCHANGED <<done, numOfKeys>>
    PROVE  RInv'
<1>1. /\ ~At(t, "idle") /\ th[t].info.request = "PNG"
  BY EncoderIs
<1>2. CodeOf(rv) \notin {400, 404, 405}
  BY CodesOfFailures
<1>3. Carried(t)
  BY EncoderIs DEF Encodes
<1>4. Same(t) => Carried(t)'
  BY <1>3 DEF Carried, Acknowledged, Same
<1>5. Same(t) /\ th'[t].reply = Reply(CodeOf(rv), Empty) => Answered(t)'
  BY <1>1, <1>2, <1>4, EmptyAnswers
<1> QED
  BY <1>1, <1>5, AnswerKeeps DEF Fail

LEMMA LastPartRoutes == ASSUME IInv, RInv, NEW t \in Thread, LastPart(t) PROVE RInv'
<1> DEFINE r == [th[t] EXCEPT !.pc = "image", !.i = 1]
<1>1. /\ At(t, "last part") /\ th[t].pc \in Encoding /\ th[t].out = <<>>
      /\ UNCHANGED <<done, numOfKeys>>
      /\ Fail(t, -1) \/ th' = [th EXCEPT ![t] = r]
  BY DEF LastPart, At, Encoding, RInv, Routed
<1>2. /\ DOMAIN r = DOMAIN Idle /\ r = [f \in DOMAIN Idle |-> r[f]]
      /\ r.n = th[t].n /\ r.pc = "image" /\ r.i = 1 /\ r.out = th[t].out
      /\ r.info = th[t].info /\ r.req = th[t].req /\ r.images = th[t].images
  BY Fields DEF IInv, TypeOK, Shaped
<1> HIDE DEF r
<1>3. CASE th' = [th EXCEPT ![t] = r]
  <2>1. th'[t] = r /\ Moves(t) /\ Same(t)
    BY <1>2, <1>3, Replaced DEF IInv, Moves, Same
  <2>2. /\ HasKeys(t)' /\ Encodes(t)' /\ DoneBy(t) /\ \A u \in Thread : KeepsKeysOf(u)
        /\ th'[t].info.component = "job" /\ th'[t].info.request = "PNG"
        /\ KeysAsked(t)' = KeysAsked(t)
    BY <1>1, <1>2, <2>1, EncodingKeeps
  <2>3. Encoded(t, 0, 0)'
    <3>1. Len(KeysAsked(t)) \in Nat
      BY <1>1, EncoderIs
    <3> DEFINE f == [j \in 1 .. 0 |-> [key |-> Label(t, j)', image |-> th'[t].images[j]]]
    <3>2. f = <<>>
      OBVIOUS
    <3>3. 0 <= Len(KeysAsked(t)')
      BY <2>2, <3>1
    <3>4. th'[t].out = f
      BY <1>1, <1>2, <2>1, <3>2, Zenon
    <3> QED
      BY <3>3, <3>4 DEF Encoded
  <2>4. th'[t].i - 1 = 0 /\ th'[t].i \in Nat \ {0}
    BY <1>2, <2>1
  <2>5. Routed(t)' /\ (At(t, "idle") => Answered(t))'
    BY <1>2, <2>1, <2>2, <2>3, <2>4 DEF Routed, At, Encoding, Holding
  <2> QED
    BY <1>1, <2>1, <2>2, <2>5, EncoderIs, StepKeeps
<1> QED
  BY <1>1, <1>3, EncodingFails

\* Appending e as the n-th element.
IsLonger(a, n, s, e) ==
    /\ IsOver(a, 1 .. n) /\ a[n] = e
    /\ \A j \in 1 .. n - 1 : a[j] = s[j]

LEMMA AppendIs ==
    ASSUME NEW n \in Nat \ {0}, NEW s, NEW e, IsOver(s, 1 .. n - 1),
           NEW a, a = Append(s, e)
    PROVE  IsLonger(a, n, s, e)
<1> DEFINE k == n - 1
           S == {s[i] : i \in 1 .. k} \cup {e}
<1>0. k \in Nat /\ n = k + 1 /\ IsOver(s, 1 .. k)
  OBVIOUS
<1> HIDE DEF k
<1>1. s \in Seq({s[i] : i \in 1 .. k}) /\ Len(s) = k
  BY <1>0, IsFunctionOf DEF IsOver
<1>2. s \in Seq(S) /\ e \in S
  <2>1. s \in [1 .. k -> S]
    BY <1>0 DEF IsOver
  <2>2. e \in S
    OBVIOUS
  <2> HIDE DEF S
  <2>3. s \in Seq(S)
    BY <1>0, <2>1, SeqDef
  <2> QED
    BY <2>2, <2>3
<1> HIDE DEF S
<1>3. /\ a \in Seq(S) /\ Len(a) = k + 1 /\ a[k + 1] = e
      /\ \A i \in 1 .. k : a[i] = s[i]
  BY <1>1, <1>2, AppendProperties
<1>4. a \in [1 .. n -> S]
  BY <1>0, <1>3, LenProperties
<1> QED
  BY <1>0, <1>3, <1>4 DEF IsOver, k, IsLonger

LEMMA EncodeImageRoutes ==
    ASSUME IInv, RInv, NEW t \in Thread, EncodeImage(t) PROVE RInv'
<1> DEFINE i == th[t].i  keys == KeysAsked(t)
           new == Labelled(MessageOf(t), th[t].images, i)
           out == Append(th[t].out, new)
           r == [th[t] EXCEPT !.pc = "next", !.out = out]
           rec(j) == [key |-> Label(t, j), image |-> th[t].images[j]]
<1>1. /\ At(t, "image") /\ th[t].pc \in Encoding /\ i <= Shared(t)
      /\ UNCHANGED <<done, numOfKeys>> /\ th' = [th EXCEPT ![t] = r]
  BY DEF EncodeImage, At, Encoding
<1>2. /\ i \in Nat \ {0} /\ th[t].out = [j \in 1 .. i - 1 |-> rec(j)]
      /\ \A j \in 1 .. i - 1 : /\ j < Len(keys) => j < Len(TokensOf(t))
                               /\ j = Len(keys) => Len(TokensOf(t)) <= j
  BY <1>1 DEF RInv, Routed, Encoded
<1>3. /\ Len(keys) \in Nat /\ DOMAIN keys = 1 .. Len(keys)
      /\ Shared(t) = Len(keys) /\ IsOver(th[t].images, 1 .. Len(keys))
  BY <1>1, EncoderIs DEF Encodes
<1>4. new = rec(i)
  <2>1. Tokens(MessageOf(t)) = TokensOf(t)
    BY DEF Tokens, TokensOf, Keys, MessageOf
  <2>2. Len(th[t].images) = Len(keys)
    <3> HIDE DEF keys
    <3> QED
      BY <1>3, IsFunctionOf DEF IsOver
  <2> HIDE DEF i, keys
  <2> QED
    BY <1>1, <1>3, <2>1, <2>2 DEF Labelled, Label
<1>5. out = [j \in 1 .. i |-> rec(j)]
  <2> DEFINE old == th[t].out
  <2>1. IsOver(old, 1 .. i - 1)
    BY <1>2 DEF IsOver
  <2>2. i \in Nat \ {0} /\ out = Append(old, new)
    BY <1>2
  <2> HIDE DEF i, new, out, old
  <2>3. IsLonger(out, i, old, new)
    BY <2>1, <2>2, AppendIs
  <2>4. \A j \in 1 .. i : j \in 1 .. i - 1 \/ j = i
    BY <1>2
  <2>5. \A j \in 1 .. i - 1 : old[j] = rec(j)
    BY <1>2 DEF old
  <2> HIDE DEF rec
  <2>6. \A j \in 1 .. i : out[j] = rec(j)
    BY <1>4, <2>3, <2>4, <2>5 DEF IsLonger
  <2>7. out = [j \in 1 .. i |-> out[j]]
    BY <2>3 DEF IsLonger, IsOver
  <2> QED
    BY <2>6, <2>7
<1> HIDE DEF new, out
<1>6. /\ DOMAIN r = DOMAIN Idle /\ r = [f \in DOMAIN Idle |-> r[f]]
      /\ r.n = th[t].n /\ r.pc = "next" /\ r.i = i /\ r.out = out
      /\ r.info = th[t].info /\ r.req = th[t].req /\ r.images = th[t].images
  BY Fields DEF IInv, TypeOK, Shaped
<1> HIDE DEF r
<1>7. th'[t] = r /\ Moves(t) /\ Same(t)
  BY <1>1, <1>6, Replaced DEF IInv, Moves, Same
<1>8. /\ HasKeys(t)' /\ Encodes(t)' /\ DoneBy(t) /\ \A u \in Thread : KeepsKeysOf(u)
      /\ th'[t].info.component = "job" /\ th'[t].info.request = "PNG"
      /\ KeysAsked(t)' = KeysAsked(t) /\ TokensOf(t)' = TokensOf(t)
  BY <1>1, <1>6, <1>7, EncodingKeeps
<1>9. Encoded(t, i, i - 1)'
  <2>1. \A j : Label(t, j)' = Label(t, j)
    BY <1>8 DEF Label
  <2>2. th'[t].images = th[t].images /\ th'[t].out = out /\ th'[t].i = i
    BY <1>6, <1>7
  <2>3. th'[t].out = [j \in 1 .. i |-> [key |-> Label(t, j)', image |-> th'[t].images[j]]]
    BY <1>5, <2>1, <2>2
  <2>4. i <= Len(keys)
    BY <1>1, <1>3
  <2> HIDE DEF i
  <2>5. th'[t].i = i
    BY <2>2
  <2> QED
    BY <1>2, <1>8, <2>3, <2>4, <2>5 DEF Encoded, i
<1>10. Routed(t)' /\ (At(t, "idle") => Answered(t))'
  BY <1>2, <1>6, <1>7, <1>8, <1>9 DEF Routed, At, Encoding, Holding
<1> QED
  BY <1>1, <1>7, <1>8, <1>10, EncoderIs, StepKeeps

LEMMA EncodeFailsRoutes ==
    ASSUME IInv, RInv, NEW t \in Thread, EncodeFails(t) PROVE RInv'
<1>1. /\ th[t].pc \in Encoding /\ UNCHANGED <<done, numOfKeys>>
      /\ Fail(t, SendRecv(IF th[t].info.format = "JPG" THEN -1 ELSE 500))
  BY DEF EncodeFails, At, Encoding
<1> QED
  BY <1>1, EncodingFails

\* strtok skips keys that are empty: it returns as many as there are only when
\* none is, and then returns the keys.
LEMMA TokensAre ==
    ASSUME NEW q, Keys(q) \in Seq(STRING)
    PROVE  /\ Len(Tokens(q)) \in Nat
           /\ Len(Keys(q)) >= 1 /\ IsNamed(Keys(q)[1]) => Len(Tokens(q)) >= 1
           /\ Len(Tokens(q)) >= Len(Keys(q)) =>
                /\ Len(Tokens(q)) = Len(Keys(q))
                /\ \A i \in 1 .. Len(Keys(q)) : Tokens(q)[i] = Keys(q)[i]
<1> DEFINE keys == Keys(q)  n == Len(keys)
           named == {i \in DOMAIN keys : keys[i] # ""}
           upTo(i) == {j \in named : j <= i}
           pick(m) == keys[CHOOSE i \in named : Cardinality(upTo(i)) = m]
           c == Cardinality(named)
           tokens == [m \in 1 .. c |-> pick(m)]
<1>1. Tokens(q) = tokens
  BY DEF Tokens
<1>2. n \in Nat /\ DOMAIN keys = 1 .. n
  BY LenProperties
<1>3. IsFiniteSet(1 .. n) /\ Cardinality(1 .. n) = n
  <2> HIDE DEF n
  <2>1. 1 \in Int /\ n \in Int
    BY <1>2
  <2>2. IsFiniteSet(1 .. n) /\ Cardinality(1 .. n) = IF 1 > n THEN 0 ELSE n - 1 + 1
    BY <2>1, FS_Interval, Zenon
  <2> QED
    BY <1>2, <2>2
<1>4. named \subseteq 1 .. n
  BY <1>2
<1> HIDE DEF n, named
<1>5. IsFiniteSet(named) /\ c \in Nat /\ c <= n /\ (c = n => named = 1 .. n)
  BY <1>3, <1>4, FS_Subset, FS_CardinalityType
<1> HIDE DEF c, pick
<1>6. Len(tokens) = c
  <2>1. IsOver(tokens, 1 .. c) /\ c \in Nat
    BY <1>5 DEF IsOver
  <2> HIDE DEF tokens
  <2> QED
    BY <2>1, IsFunctionOf DEF IsOver
<1>7. n >= 1 /\ IsNamed(keys[1]) => c >= 1
  <2>1. n >= 1 => 1 \in DOMAIN keys
    BY <1>2
  <2>2. n >= 1 /\ IsNamed(keys[1]) => 1 \in named
    BY <2>1, Zenon DEF named, IsNamed
  <2>3. 1 \in named => c # 0
    BY <1>5, FS_EmptySet DEF c
  <2>4. c # 0 => c >= 1
    BY <1>5
  <2> QED
    BY <2>2, <2>3, <2>4, Zenon
<1>8. c >= n => \A i \in 1 .. n : tokens[i] = keys[i]
  <2> SUFFICES ASSUME c >= n, NEW i \in 1 .. n PROVE tokens[i] = keys[i]
    OBVIOUS
  <2>1. c = n /\ named = 1 .. n
    BY <1>2, <1>5
  <2>2. \A k \in 1 .. n : upTo(k) = 1 .. k
    BY <1>2, <2>1
  <2>3. \A k \in 1 .. n : Cardinality(1 .. k) = k
    BY <1>2, FS_Interval
  <2>4. \A k \in named : Cardinality(upTo(k)) = k
    BY <2>1, <2>2, <2>3
  <2>5. (CHOOSE k \in named : Cardinality(upTo(k)) = i) = i
    BY <2>1, <2>4
  <2>6. pick(i) = keys[i]
    BY <2>5 DEF pick
  <2> QED
    BY <2>1, <2>6
<1> HIDE DEF tokens, keys
<1>9. /\ Len(tokens) \in Nat
      /\ n >= 1 /\ IsNamed(keys[1]) => Len(tokens) >= 1
      /\ Len(tokens) >= n => /\ Len(tokens) = n
                             /\ \A i \in 1 .. n : tokens[i] = keys[i]
  <2>1. Len(tokens) \in Nat
    BY <1>5, <1>6
  <2>2. n >= 1 /\ IsNamed(keys[1]) => Len(tokens) >= 1
    BY <1>6, <1>7
  <2>3. Len(tokens) >= n => Len(tokens) = n
    BY <1>2, <1>5, <1>6
  <2>4. Len(tokens) >= n => \A i \in 1 .. n : tokens[i] = keys[i]
    BY <1>6, <1>8
  <2> QED
    BY <2>1, <2>2, <2>3, <2>4
<1> QED
  BY <1>1, <1>9 DEF n, keys

\* One thread's step from one place to another.
LEMMA RecordMoves ==
    ASSUME IInv, NEW t \in Thread, NEW r, DOMAIN r = DOMAIN Idle,
           r = [f \in DOMAIN Idle |-> r[f]], r.n = th[t].n, r.info = th[t].info,
           r.req = th[t].req, th' = [th EXCEPT ![t] = r]
    PROVE  Moves(t) /\ Same(t) /\ th'[t] = r
BY Replaced DEF IInv, Moves, Same

LEMMA NextKeyRoutes == ASSUME IInv, RInv, NEW t \in Thread, NextKey(t) PROVE RInv'
<1> DEFINE i == th[t].i  keys == KeysAsked(t)
           r == [th[t] EXCEPT !.pc = "image", !.i = i + 1]
<1>1. /\ At(t, "next") /\ th[t].pc \in Encoding /\ UNCHANGED <<done, numOfKeys>>
      /\ Fail(t, -1) \/ (~KeysMismatch(t) /\ th' = [th EXCEPT ![t] = r])
  BY DEF NextKey, At, Encoding
<1>2. /\ i \in Nat \ {0} /\ Encoded(t, i, i - 1)
      /\ Len(keys) \in Nat /\ Shared(t) = Len(keys) /\ HasKeys(t)
  BY <1>1, EncoderIs DEF RInv, Routed, Encodes
<1>3. CASE ~KeysMismatch(t) /\ th' = [th EXCEPT ![t] = r]
  <2>1. /\ DOMAIN r = DOMAIN Idle /\ r = [f \in DOMAIN Idle |-> r[f]]
        /\ r.n = th[t].n /\ r.pc = "image" /\ r.i = i + 1 /\ r.out = th[t].out
        /\ r.info = th[t].info /\ r.req = th[t].req /\ r.images = th[t].images
    BY Fields DEF IInv, TypeOK, Shaped
  <2> HIDE DEF r
  <2>2. th'[t] = r /\ Moves(t) /\ Same(t)
    BY <1>3, <2>1, RecordMoves
  <2>3. /\ HasKeys(t)' /\ Encodes(t)' /\ DoneBy(t) /\ \A u \in Thread : KeepsKeysOf(u)
        /\ th'[t].info.component = "job" /\ th'[t].info.request = "PNG"
        /\ KeysAsked(t)' = keys /\ TokensOf(t)' = TokensOf(t)
    BY <1>1, <2>1, <2>2, EncodingKeeps
  <2>4. /\ i < Len(keys) => i < Len(TokensOf(t))
        /\ i = Len(keys) => Len(TokensOf(t)) <= i
    <3>1. Tokens(MessageOf(t)) = TokensOf(t) /\ Keys(th[t].info) = keys
      BY DEF Tokens, TokensOf, Keys, MessageOf, KeysAsked
    <3>2. Len(TokensOf(t)) \in Nat
      BY <1>2, <3>1, TokensAre DEF HasKeys, TokensOf
    <3>3. /\ ~(i < Shared(t) /\ ~(i < Len(Tokens(MessageOf(t)))))
          /\ ~(i = Shared(t) /\ i < Len(Tokens(MessageOf(t))))
      BY <1>3 DEF KeysMismatch
    <3> HIDE DEF i, keys
    <3> QED
      BY <1>2, <3>1, <3>2, <3>3
  <2>5. Encoded(t, i, i)
    <3>1. \A j \in 1 .. i : j \in 1 .. i - 1 \/ j = i
      BY <1>2
    <3> QED
      BY <1>2, <2>4, <3>1 DEF Encoded
  <2>6. /\ \A j : Label(t, j)' = Label(t, j)
        /\ th'[t].images = th[t].images /\ th'[t].out = th[t].out
        /\ th'[t].i = i + 1
    BY <2>1, <2>2, <2>3 DEF Label
  <2> HIDE DEF i
  <2>7. Encoded(t, th[t].i - 1, th[t].i - 1)'
    <3>1. PICK m : m = i
      OBVIOUS
    <3>2. Encoded(t, m, m)
      BY <2>5, <3>1
    <3>3. Encoded(t, m, m)'
      BY <2>3, <2>6, <3>2 DEF Encoded
    <3>4. th'[t].i - 1 = m
      BY <1>2, <2>6, <3>1
    <3> QED
      BY <3>3, <3>4
  <2>8. Routed(t)' /\ (At(t, "idle") => Answered(t))'
    <3>1. th'[t].i \in Nat \ {0}
      BY <1>2, <2>6
    <3> QED
      BY <3>1, <2>1, <2>2, <2>3, <2>6, <2>7 DEF Routed, At, Encoding, Holding
  <2> QED
    BY <1>1, <2>2, <2>3, <2>8, EncoderIs, StepKeeps
<1> QED
  BY <1>1, <1>3, EncodingFails

LEMMA ImagesDoneRoutes == ASSUME IInv, RInv, NEW t \in Thread, ImagesDone(t) PROVE RInv'
<1> DEFINE i == th[t].i  keys == KeysAsked(t)  n == Len(keys)  out == th[t].out
           reply == Reply(OK, [kind |-> "images", images |-> out])
<1>1. /\ At(t, "image") /\ th[t].pc \in Encoding /\ UNCHANGED <<done, numOfKeys>>
      /\ i > Shared(t) /\ Answer(t, reply)
  BY DEF ImagesDone, At, Encoding
<1>2. /\ ~At(t, "idle") /\ HasKeys(t) /\ Encodes(t) /\ th[t].info.request = "PNG"
      /\ n \in Nat /\ DOMAIN keys = 1 .. n /\ keys = [j \in 1 .. n |-> keys[j]]
  BY <1>1, EncoderIs
<1>3. Encoded(t, n, n)
  <2>1. i \in Nat \ {0} /\ Encoded(t, i - 1, i - 1) /\ Shared(t) = n
    BY <1>1, <1>2 DEF RInv, Routed, Encodes
  <2>2. i - 1 <= n
    BY <2>1 DEF Encoded
  <2> HIDE DEF i, n
  <2>3. i - 1 = n
    BY <1>1, <1>2, <2>1, <2>2
  <2> QED
    BY <2>1, <2>3
<1>4. \A j \in 1 .. n : Label(t, j) = keys[j]
  <2> DEFINE tokens == TokensOf(t)
  <2>1. /\ Len(tokens) \in Nat
        /\ n >= 1 /\ IsNamed(keys[1]) => Len(tokens) >= 1
        /\ Len(tokens) >= n =>
              Len(tokens) = n /\ \A j \in 1 .. n : tokens[j] = keys[j]
    <3>1. Keys(th[t].info) = keys /\ tokens = Tokens(th[t].info)
      BY DEF Keys, KeysAsked, TokensOf
    <3>2. keys \in Seq(STRING)
      BY <1>2 DEF HasKeys
    <3> HIDE DEF keys, tokens
    <3> QED
      BY <3>1, <3>2, TokensAre
  <2>2. /\ n = 1 => IsNamed(keys[1])
        /\ \A j \in 1 .. n : j < n => j < Len(tokens)
    BY <1>2, <1>3 DEF Encodes, Encoded
  <2> HIDE DEF n, keys, tokens
  <2>3. n > 1 => n - 1 < Len(tokens)
    BY <1>2, <2>2
  <2>4. Len(tokens) >= n
    BY <1>2, <2>1, <2>2, <2>3
  <2>5. \A j \in 1 .. n : j <= Len(tokens) /\ tokens[j] = keys[j]
    BY <1>2, <2>1, <2>4
  <2> QED
    BY <2>5 DEF Label, tokens
<1>5. ASSUME Same(t), NEW images, images = out PROVE ImagesAreRight(t, images)'
  <2>1. out = [j \in 1 .. n |-> [key |-> Label(t, j), image |-> th[t].images[j]]]
    BY <1>3 DEF Encoded
  <2>2. \A j \in 1 .. n : IsFor(t, th[t].images[j], keys[j])
    BY <1>2 DEF Encodes
  <2>3. KeysOf[th'[t].info.keys] = keys
    BY <1>5 DEF Same, KeysAsked
  <2> HIDE DEF n, keys, out
  <2>4. /\ DOMAIN images = 1 .. n
        /\ \A j \in 1 .. n :
                images[j].key = keys[j] /\ images[j].image = th[t].images[j]
    BY <1>4, <1>5, <2>1
  <2>5. [j \in DOMAIN images |-> images[j].key] = keys
    BY <1>2, <2>4
  <2>6. \A j \in DOMAIN images :
            /\ images[j].image.viewer = images[j].key
            /\ images[j].image.width = th'[t].info.width
            /\ images[j].image.height = th'[t].info.height
            /\ BringsUpdate(th'[t].req) => th'[t].n \in images[j].image.edits
    BY <1>5, <2>2, <2>4 DEF IsFor, Same
  <2> QED
    BY <2>3, <2>5, <2>6 DEF ImagesAreRight
<1>6. ASSUME Same(t), th'[t].reply = reply PROVE Answered(t)'
  <2>1. PICK images : images = out
    OBVIOUS
  <2>2. ImagesAreRight(t, images)'
    BY <1>5, <1>6, <2>1
  <2>3. /\ th'[t].reply.code = 200 /\ th'[t].reply.body.images = images
        /\ th'[t].info.request = "PNG" /\ Carried(t)'
    BY <1>1, <1>2, <1>6, <2>1 DEF Reply, OK, Same, Encodes, Carried, Acknowledged
  <2> QED
    BY <2>2, <2>3 DEF Answered
<1> QED
  BY <1>1, <1>2, <1>6, AnswerKeeps

-----------------------------------------------------------------------------
(* Restarts, masters and crashes.                                          *)

\* Who restarts the master has asked mod_trell to: no job answers it.
LEMMA RestartKeeps ==
    ASSUME IInv, RInv, NEW t \in Thread, th[t].pc \in Holding \cup {"lock"},
           UNCHANGED <<done, numOfKeys>>, Moves(t), Same(t),
           \/ th'[t].pc \in Holding
           \/ /\ th'[t].pc = "idle"
              /\ \E kind \in {"success", "failure"} :
                    th'[t].reply = Reply(OK, [kind |-> kind])
    PROVE  RInv'
<1>1. /\ ~At(t, "idle")
      /\ th[t].info.component = "mod" /\ th[t].info.request = "RPC"
  BY DEF RInv, Routed, At, Holding
<1>2. Routed(t)'
  BY <1>1 DEF Routed, At, Same, Encoding, Holding
<1>3. (At(t, "idle") => Answered(t))'
  <2> SUFFICES ASSUME th'[t].pc = "idle" PROVE Answered(t)'
    BY DEF At
  <2>1. /\ th'[t].reply.code = 200 /\ th'[t].reply.body.kind # "images"
        /\ th'[t].info.component = "mod" /\ th'[t].info.request = "RPC"
    BY <1>1 DEF Reply, OK, Holding, Same
  <2> QED
    BY <2>1 DEF Answered
<1> QED
  BY <1>1, <1>2, <1>3, NothingDone, KeysAreKept, StepKeeps

LEMMA RestartAnswers ==
    ASSUME IInv, RInv, NEW t \in Thread, th[t].pc \in Holding \cup {"lock"},
           UNCHANGED <<done, numOfKeys>>, NEW kind \in {"success", "failure"},
           Answer(t, Reply(OK, [kind |-> kind]))
    PROVE  RInv'
<1> DEFINE reply == Reply(OK, [kind |-> kind])
<1>1. Answer(t, reply)
  OBVIOUS
<1> HIDE DEF reply
<1>2. Moves(t) /\ Same(t) /\ th'[t].pc = "idle" /\ th'[t].reply = reply
  BY <1>1, AnswerRoutes
<1> QED
  BY <1>2, RestartKeeps DEF reply

LEMMA RestartGoes ==
    ASSUME IInv, RInv, NEW t \in Thread, th[t].pc \in Holding \cup {"lock"},
           UNCHANGED <<done, numOfKeys>>, NEW pc \in Holding, Goto(t, pc)
    PROVE  RInv'
BY GotoLeaves, RestartKeeps

LEMMA RestartMoves ==
    ASSUME IInv, RInv, NEW t \in Thread, th[t].pc \in Holding \cup {"lock"},
           UNCHANGED <<done, numOfKeys>>, NEW pc \in Holding, NEW i, NEW pid,
           \/ th' = [th EXCEPT ![t].pc = pc, ![t].pid = pid]
           \/ th' = [th EXCEPT ![t].pc = pc, ![t].i = i]
           \/ pc = th[t].pc /\ th' = [th EXCEPT ![t].i = i]
    PROVE  RInv'
<1> DEFINE r == [f \in DOMAIN Idle |-> th'[t][f]]
<1>1. /\ th' = [th EXCEPT ![t] = r] /\ r.n = th[t].n /\ r.info = th[t].info
      /\ r.req = th[t].req /\ r.pc = pc
  BY Fields DEF IInv, TypeOK, Shaped
<1>2. DOMAIN r = DOMAIN Idle /\ r = [f \in DOMAIN Idle |-> r[f]]
  OBVIOUS
<1> HIDE DEF r
<1>3. Moves(t) /\ Same(t) /\ th'[t].pc = pc
  BY <1>1, <1>2, RecordMoves
<1> QED
  BY <1>3, RestartKeeps

LEMMA LockRoutes ==
    ASSUME IInv, RInv, NEW t \in Thread, TakeLock(t) \/ GetMasterPid(t)
    PROVE  RInv'
<1>1. th[t].pc \in Holding \cup {"lock"} /\ UNCHANGED <<done, numOfKeys>>
  BY DEF TakeLock, GetMasterPid, At, Holding, web
<1>2. {"pid", "start", "term"} \subseteq Holding
  BY DEF Holding
<1>3. \/ Goto(t, "pid") \/ Goto(t, "start")
      \/ Answer(t, Reply(OK, [kind |-> "failure"]))
      \/ th' = [th EXCEPT ![t].pc = "term", ![t].pid = pidfile]
  BY DEF TakeLock, GetMasterPid
<1> QED
  BY <1>1, <1>2, <1>3, RestartAnswers, RestartGoes, RestartMoves

LEMMA SignalRoutes ==
    ASSUME IInv, RInv, NEW t \in Thread, SendTerm(t) \/ SendKill(t)
    PROVE  RInv'
<1>1. th[t].pc \in Holding \cup {"lock"} /\ UNCHANGED <<done, numOfKeys>>
  BY DEF SendTerm, SendKill, Signal, At, Holding, web
<1>2. {"start", "wait", "reap"} \subseteq Holding
  BY DEF Holding
<1>3. \/ Goto(t, "start")
      \/ th' = [th EXCEPT ![t].pc = "wait", ![t].i = 0]
      \/ th' = [th EXCEPT ![t].pc = "reap", ![t].i = 0]
  BY DEF SendTerm, SendKill, Signal
<1> QED
  BY <1>1, <1>2, <1>3, RestartGoes, RestartMoves

LEMMA WaitRoutes ==
    ASSUME IInv, RInv, NEW t \in Thread, WaitTerm(t) \/ WaitKill(t)
    PROVE  RInv'
<1>1. th[t].pc \in Holding /\ UNCHANGED <<done, numOfKeys>>
  BY DEF WaitTerm, WaitKill, LookAgain, At, Holding, web
<1>2. {"start", "kill"} \subseteq Holding
  BY DEF Holding
<1>3. \/ Goto(t, "start") \/ Goto(t, "kill")
      \/ th' = [th EXCEPT ![t].i = OneMore(t)]
  BY DEF WaitTerm, WaitKill, LookAgain
<1> QED
  BY <1>1, <1>2, <1>3, RestartGoes, RestartMoves

LEMMA StartRoutes ==
    ASSUME IInv, RInv, NEW t \in Thread,
           \/ StartFails(t) \/ StartMaster(t)
           \/ \E opened, written \in BOOLEAN : SetMasterPid(t, opened, written)
    PROVE  RInv'
<1>1. th[t].pc \in Holding \cup {"lock"} /\ UNCHANGED <<done, numOfKeys>>
  BY DEF StartFails, StartMaster, SetMasterPid, At, Holding, web
<1>2. "record" \in Holding
  BY DEF Holding
<1>3. ASSUME NEW started \in BOOLEAN, Finish(t, started) PROVE RInv'
  <2>1. Answer(t, Verdict(started))
    BY <1>3 DEF Finish
  <2>2. \/ Verdict(started) = Reply(OK, [kind |-> "failure"])
        \/ Verdict(started) = Reply(OK, [kind |-> "success"])
    BY DEF Verdict
  <2> QED
    BY <1>1, <2>1, <2>2, RestartAnswers
<1>4. CASE StartMaster(t)
  <2>1. PICK p \in MasterPid : th' = [th EXCEPT ![t].pc = "record", ![t].pid = p]
    BY <1>4 DEF StartMaster
  <2> QED
    BY <1>1, <1>2, <2>1, RestartMoves
<1> QED
  BY <1>3, <1>4 DEF StartFails, SetMasterPid

\* Whatever does not touch threads, edits and num_of_keys.
LEMMA OutsideKeeps ==
    ASSUME RInv, UNCHANGED <<th, done, numOfKeys>>
    PROVE  RInv'
BY StandsStill DEF RInv, Distinct, KeepsKeysOf

LEMMA CrashRoutes == ASSUME IInv, RInv, NEW c \in Process, Crash(c) PROVE RInv'
<1>1. /\ th' = [t \in Thread |-> IF ProcessOf[t] = c THEN Idle ELSE th[t]]
      /\ numOfKeys' = [numOfKeys EXCEPT ![c] = 0] /\ UNCHANGED done
  BY DEF Crash
<1>2. Idle.n = 0 /\ Idle.pc = "idle" /\ Idle.reply.code = 0
  BY DEF Idle, NoReply, Reply
<1>3. ASSUME NEW t \in Thread
      PROVE  th'[t] = Idle \/ (th'[t] = th[t] /\ KeepsKeysOf(t))
  BY <1>1, KeysTyped DEF KeepsKeysOf
<1>4. Distinct'
  BY <1>2, <1>3 DEF RInv, Distinct
<1> SUFFICES ASSUME NEW t \in Thread
             PROVE  Routed(t)' /\ (At(t, "idle") => Answered(t))'
  BY <1>4 DEF RInv
<1>5. CASE th'[t] = Idle
  <2>1. th'[t].pc = "idle" /\ th'[t].reply.code = 0
    BY <1>2, <1>5
  <2> QED
    BY <2>1 DEF Routed, Answered, At, Encoding, Holding, OK
<1>6. CASE th'[t] = th[t] /\ KeepsKeysOf(t)
  BY <1>1, <1>6, StandsStill
<1> QED
  BY <1>3, <1>5, <1>6

-----------------------------------------------------------------------------

LEMMA InitRoutes == Init => RInv
<1> SUFFICES ASSUME Init PROVE RInv
  OBVIOUS
<1>1. \A t \in Thread : th[t] = Idle
  BY DEF Init
<1>2. Idle.n = 0 /\ Idle.pc = "idle" /\ Idle.reply.code = 0
  BY DEF Idle, NoReply, Reply
<1>3. Distinct
  BY <1>1, <1>2 DEF Distinct
<1>4. ASSUME NEW t \in Thread PROVE Routed(t) /\ Answered(t)
  <2>1. th[t].pc = "idle" /\ th[t].reply.code = 0
    BY <1>1, <1>2
  <2> QED
    BY <2>1 DEF Routed, Answered, At, Encoding, Holding, OK
<1> QED
  BY <1>3, <1>4 DEF RInv

LEMMA WorkRoutes == ASSUME IInv, RInv, NEW t \in Thread, Work(t) PROVE RInv'
BY DecodeRoutes, RefuseCallRoutes, NoCallRoutes, ExchangeFailsRoutes, ExchangeRoutes,
   PollRoutes, LastPartRoutes, EncodeImageRoutes, EncodeFailsRoutes, NextKeyRoutes,
   ImagesDoneRoutes, LockRoutes, SignalRoutes, WaitRoutes, StartRoutes DEF Work

LEMMA StepRoutes == IInv /\ RInv /\ [Next]_vars => RInv'
<1> SUFFICES ASSUME IInv, RInv, [Next]_vars PROVE RInv'
  OBVIOUS
<1>1. CASE \E p \in MasterPid : MasterRuns(p) \/ MasterStops(p)
  BY <1>1, OutsideKeeps DEF MasterRuns, MasterStops, web
<1>2. CASE UNCHANGED vars
  BY <1>2, OutsideKeeps DEF vars
<1> QED
  BY <1>1, <1>2, WorkRoutes, RequestRoutes, CrashRoutes DEF Next

\* AnswersAreRight holds in every behaviour: what mod_trell acknowledges has
\* been executed if it can be parsed, what it refuses has not, and images are
\* those asked for.  The processes of Apache have one thread each.
THEOREM AnswersStayRight == Spec => []AnswersAreRight
<1>1. RInv => AnswersAreRight
  <2> SUFFICES ASSUME RInv, NEW t \in Thread, At(t, "idle") PROVE Answered(t)
    BY DEF AnswersAreRight, Answered, Unexecuted, Carried, Acknowledged
  <2> QED
    BY DEF RInv
<1>2. Init => RInv
  BY InitRoutes
<1>3. IInv /\ RInv /\ [Next]_vars => RInv'
  BY StepRoutes
<1> QED
  BY <1>1, <1>2, <1>3, AlwaysIInv, PTL DEF Spec
=============================================================================
