------------------------------ MODULE ModTrell ------------------------------
(***************************************************************************)
(* The Apache module: threads of Apache's processes take requests, ask     *)
(* jobs and the master for answers, encode images, and stop and start the  *)
(* master.                                                                 *)
(*                                                                         *)
(* An exchange with a job, which IpcMessenger models step by step, is one  *)
(* step here, except for images: their answer is encoded while the job     *)
(* waits, in one part of the thread's work after the other.                *)
(***************************************************************************)
EXTENDS TrellUrl, TrellAnswers, FiniteSets

CONSTANTS
    Thread, Process,
    ProcessOf,      \* the process of a thread
    LiveJobs,       \* the ids of the running jobs
    MasterId,       \* TrellMasterId
    Files,          \* the paths under TrellJobWWWRoot
    Menus,          \* sets of requests that are sent in one behaviour
    MasterPid,      \* pids of masters
    FirstMaster,    \* the master that runs when Apache starts
    Nobody,         \* no thread, no process
    Tries,          \* how often trell_kill_process looks for the master
    MaxRequests, MaxCrashes

ASSUME ThreadAssumption ==
    /\ ProcessOf \in [Thread -> Process]
    /\ Thread \cap Process = {} /\ Nobody \notin Thread \cup Process
\* Apache's prefork module, which the installation guide asks for: the consumers
\* keep num_of_keys, and strtok its place, in static variables.
ASSUME PreforkAssumption ==
    \A s, t \in Thread : ProcessOf[s] = ProcessOf[t] => s = t
\* What boost::split returns for a list of viewers that is asked for.
ASSUME KeysAssumption ==
    \A m \in Menus : \A req \in m :
        LET d == DecodePathInfo(req.path, req.args) IN
        d.code = OK => KeysOf[d.keys] \in Seq(STRING)
ASSUME BoundsAssumption == MaxRequests \in Nat /\ MaxCrashes \in Nat
ASSUME MasterAssumption == FirstMaster \in MasterPid /\ Nobody \notin MasterPid

VARIABLES
    menu,       \* the requests of this behaviour
    th,         \* what the threads are doing
    count,      \* requests so far: each has a number
    done,       \* the requests whose edit a job, or the master, has executed
    busy,       \* who has the transaction lock of a segment
    numOfKeys,  \* the static num_of_keys, one for a process
    lock,       \* /trell_lock: Nobody, or the thread that has decremented it
    pidfile,    \* /tmp/trell_master.pid
    unrecorded, \* masters whose pid could not be written there
    master,     \* the processes of masters
    seg,        \* the process whose segment has the master's name
    crashes

web == <<menu, count, done, busy, numOfKeys>>
ops == <<lock, pidfile, unrecorded, master, seg>>
vars == <<menu, th, count, done, busy, numOfKeys, lock, pidfile, unrecorded,
          master, seg, crashes>>

Dest == LiveJobs \cup {MasterId}
Reply(code, body) == [code |-> code, body |-> body]
NoReply == Reply(0, Empty)
NoRequest == [path |-> <<>>, args |-> <<>>, host |-> "none", method |-> "none",
              type |-> "none", wellFormed |-> FALSE]
NoPid == Nobody

\* A thread: where it is, the request with its number and its dispatch_info,
\* the image it encodes or the try it is at, and the reply.
Idle == [pc |-> "idle", req |-> NoRequest, n |-> 0, info |-> Refused(0),
         images |-> <<>>, bytes |-> 0, out |-> <<>>, i |-> 0, pid |-> NoPid,
         reply |-> NoReply]

At(t, pc) == th[t].pc = pc
Goto(t, pc) == th' = [th EXCEPT ![t].pc = pc]
Answer(t, reply) == th' = [th EXCEPT ![t].pc = "idle", ![t].reply = reply]
Fail(t, rv) == Answer(t, Reply(CodeOf(rv), Empty))

Masters == [st : {"none", "starting", "creating", "init", "up", "ending",
                  "zombie", "gone"},
            parent : Process \cup {Nobody}, pending : BOOLEAN]
Living(p) == master[p].st \notin {"none", "zombie", "gone"}

TypeOK ==
    /\ menu \in Menus /\ count \in 0 .. MaxRequests
    /\ DOMAIN th = Thread
    /\ \A t \in Thread : DOMAIN th[t] = DOMAIN Idle /\ th[t].n \in 0 .. count
    /\ done \in [Dest -> SUBSET (1 .. count)]
    /\ busy \in [Dest -> Thread \cup Process \cup {Nobody}]
    /\ DOMAIN numOfKeys = Process
    /\ lock \in Thread \cup Process \cup {Nobody}
    /\ pidfile \in MasterPid \cup {NoPid}
    /\ unrecorded \in SUBSET MasterPid
    /\ master \in [MasterPid -> Masters]
    /\ seg \in MasterPid \cup {NoPid}
    /\ crashes \in 0 .. MaxCrashes

\* One master is running when Apache starts, and is no child of its processes.
Init ==
    /\ menu \in Menus
    /\ th = [t \in Thread |-> Idle]
    /\ count = 0 /\ crashes = 0
    /\ done = [d \in Dest |-> {}]
    /\ busy = [d \in Dest |-> Nobody]
    /\ numOfKeys = [c \in Process |-> 0]
    /\ lock = Nobody
    /\ unrecorded = {}
    /\ master = [p \in MasterPid |->
                    [st |-> IF p = FirstMaster THEN "up" ELSE "none",
                     parent |-> Nobody, pending |-> FALSE]]
    /\ pidfile = FirstMaster /\ seg = FirstMaster

-----------------------------------------------------------------------------
(* Requests.                                                               *)

\* Only the main server's configuration is marked well-formed.
WellFormed(req) == req.host = "main"

PostOfXml(req) == req.method = "POST" /\ req.type = "xml"
UpdateRefused(req) == IF req.method # "POST" THEN 405 ELSE BadRequest

SendFile(path) ==
    IF path \in Files THEN Reply(OK, [kind |-> "file"]) ELSE Reply(NotFound, Empty)

\* The snapshot and the render list take an update with them when they are
\* posted.
PiggyBack(req) == IF req.method = "POST" THEN "update" ELSE "query"

\* Where a request goes: a label, or a reply to give at once.
HandlerBody(req, d) ==
    CASE d.component = "mod" /\ d.request = "RPC" -> "lock"
      [] d.component = "master" /\ d.request = "RPC" -> "query"
      [] d.component = "job" /\ d.request \in {"POLICY", "SCRIPT"} -> "query"
      [] d.component = "job" /\ d.request = "STATE" -> "update"
      [] d.component = "job" /\ d.request \in {"PNG", "RENDERLIST"} -> PiggyBack(req)
      [] OTHER -> "missing"

Request(t, req) ==
    /\ At(t, "idle") /\ count < MaxRequests
    /\ count' = count + 1
    /\ th' = [th EXCEPT ![t] = [Idle EXCEPT !.pc = "decode", !.req = req,
                                            !.n = count + 1,
                                            !.info = DecodePathInfo(req.path, req.args)]]
    /\ UNCHANGED <<menu, done, busy, numOfKeys, ops, crashes>>

Decode(t) ==
    LET req == th[t].req
        d   == th[t].info
    IN  /\ At(t, "decode")
        /\ IF ~WellFormed(req) THEN Answer(t, Reply(500, Empty))
           ELSE IF d.code # OK THEN Answer(t, Reply(d.code, Empty))
           ELSE IF d.component = "job" /\ d.request = "FILE"
           THEN Answer(t, SendFile(d.path))
           ELSE LET pc == HandlerBody(req, d) IN
                IF pc = "missing" THEN Answer(t, Reply(NotFound, Empty))
                ELSE Goto(t, pc)
        /\ UNCHANGED <<web, ops, crashes>>

-----------------------------------------------------------------------------
(* Calls of jobs and of the master.                                        *)

DestOf(d) == IF d.component = "master" THEN MasterId ELSE d.job

MessageOf(t) ==
    LET d == th[t].info
        type == IF At(t, "update") THEN "STATE"
                ELSE CASE d.request = "RPC" -> "XML"
                       [] d.request = "PNG" -> "SNAPSHOT"
                       [] OTHER -> d.request
    IN  [type |-> type, keys |-> d.keys, format |-> d.format, base64 |-> d.base64,
         width |-> d.width, height |-> d.height, depthH |-> d.depthH,
         revision |-> d.revision]

Writes(q) == q.type \in {"STATE", "XML"}
PassesPost(q) == Writes(q)

HasSegment(dest) == dest \in LiveJobs \/ (dest = MasterId /\ seg # NoPid)
Serves(dest) == dest \in LiveJobs \/ (dest = MasterId /\ master[seg].st = "up")

\* A master without its segment has no transaction lock either.
CallPending(t) == At(t, "update") \/ At(t, "query")

\* What a handler looks at before it calls.
RefusedCode(t) ==
    LET q == MessageOf(t) IN
    IF Writes(q) /\ ~PostOfXml(th[t].req) THEN UpdateRefused(th[t].req)
    ELSE IF q.type = "SNAPSHOT" /\ SizeIsRefused(th[t].info) THEN 507
    ELSE 0

RefuseCall(t) ==
    /\ CallPending(t) /\ RefusedCode(t) # 0
    /\ Answer(t, Reply(RefusedCode(t), Empty))
    /\ UNCHANGED <<web, ops, crashes>>

Calls(t) == CallPending(t) /\ RefusedCode(t) = 0

NoSegment(t) ==
    /\ Calls(t) /\ ~HasSegment(DestOf(th[t].info))
    /\ Fail(t, -1)
    /\ UNCHANGED <<web, ops, crashes>>

\* The transaction lock is not to be had within a second.
LockTimesOut(t) ==
    LET dest == DestOf(th[t].info) IN
    /\ Calls(t) /\ HasSegment(dest) /\ busy[dest] # Nobody
    /\ Fail(t, -2)
    /\ UNCHANGED <<web, ops, crashes>>

\* MUTANT of AfterUpdate: the image is asked for whatever the update returned.
AfterUpdateAnyway(t, rv, body) ==
    IF At(t, "update") /\ th[t].info.request # "STATE"
    THEN Goto(t, "query")
    ELSE Answer(t, Reply(CodeOf(rv), body))

\* What a call that has returned 0 leads to.
AfterUpdate(t, rv, body) ==
    IF rv = 0 /\ At(t, "update") /\ th[t].info.request # "STATE"
    THEN Goto(t, "query")
    ELSE Answer(t, Reply(CodeOf(rv), body))

Executed(q, wellFormed) == Writes(q) /\ wellFormed

\* The job answers.  An update whose document cannot be parsed is not executed,
\* and the job says that it is; a call of the master that cannot be is answered
\* with an error.
Exchange(t) ==
    LET dest == DestOf(th[t].info)
        q    == MessageOf(t)
        ok   == th[t].req.wellFormed
        now  == IF Executed(q, ok) THEN done[dest] \cup {th[t].n} ELSE done[dest]
        m    == Handle(q, now, Cardinality(now), ok)
        r    == PassReply(m, q.type = "POLICY")
    IN  /\ Calls(t) /\ HasSegment(dest) /\ Serves(dest) /\ busy[dest] = Nobody
        /\ PassesPost(q) => FilterPasses(ok)
        /\ done' = [done EXCEPT ![dest] = now]
        /\ \/ /\ q.type # "SNAPSHOT"
              /\ IF r.rv > 0
                 THEN th' = [th EXCEPT ![t].pc = "poll", ![t].i = Cardinality(now)]
                 ELSE AfterUpdate(t, r.rv, r.body)
              /\ UNCHANGED <<busy, numOfKeys>>
           \/ /\ q.type = "SNAPSHOT" /\ FirstPart(q, m) # 0
              /\ Fail(t, SendRecv(FirstPart(q, m)))
              /\ UNCHANGED <<busy, numOfKeys>>
           \/ /\ q.type = "SNAPSHOT" /\ FirstPart(q, m) = 0
              /\ busy' = [busy EXCEPT ![dest] = t]
              /\ numOfKeys' = [numOfKeys EXCEPT ![ProcessOf[t]] = NumOfKeys(q)]
              /\ th' = [th EXCEPT ![t].pc = "last part", ![t].images = m.images,
                                  ![t].bytes = m.bytes]
        /\ UNCHANGED <<menu, count, ops, crashes>>

\* An exchange that fails, before or after the job has executed it: by a wait
\* for the job that times out (-1), or with the operation lock (-2).
ExchangeFails(t, rv, executed) ==
    LET dest == DestOf(th[t].info)
        q    == MessageOf(t)
    IN  /\ Calls(t) /\ HasSegment(dest) /\ busy[dest] = Nobody
        /\ executed => Executed(q, th[t].req.wellFormed) /\ Serves(dest)
        /\ done' = IF executed THEN [done EXCEPT ![dest] = @ \cup {th[t].n}] ELSE done
        /\ AfterUpdate(t, rv, Empty)
        /\ UNCHANGED <<menu, count, busy, numOfKeys, ops, crashes>>

\* A long poll asks again when it is notified, and gives up after 30 seconds.
PollNotified(t) ==
    /\ At(t, "poll") /\ Cardinality(done[DestOf(th[t].info)]) # th[t].i
    /\ Goto(t, "query")
    /\ UNCHANGED <<web, ops, crashes>>

PollTimesOut(t) ==
    /\ At(t, "poll")
    /\ Fail(t, -1)
    /\ UNCHANGED <<web, ops, crashes>>

-----------------------------------------------------------------------------
(* Images.                                                                 *)

Shared(t) == numOfKeys[ProcessOf[t]]
Release(t) == busy' = [busy EXCEPT ![DestOf(th[t].info)] = Nobody]

\* The last part: are all bytes there?
LastPart(t) ==
    LET q == MessageOf(t)
        m == [bytes |-> th[t].bytes]
    IN  /\ At(t, "last part")
        /\ \/ /\ th[t].bytes # BytesExpected(q, m, Shared(t))
              /\ Fail(t, -1)
              /\ Release(t)
           \/ /\ th[t].bytes = BytesExpected(q, m, Shared(t))
              /\ th' = [th EXCEPT ![t].pc = "image", ![t].i = 1]
              /\ UNCHANGED busy
        /\ UNCHANGED <<menu, count, done, numOfKeys, ops, crashes>>

\* An image under the key that strtok has returned; after the last one it
\* returns NULL, and behind the last image the buffer ends.
Labelled(q, images, i) ==
    [key   |-> IF i <= Len(Tokens(q)) THEN Tokens(q)[i] ELSE "(null)",
     image |-> IF i <= Len(images) THEN images[i] ELSE Image("", q, {})]

EncodeImage(t) ==
    /\ At(t, "image") /\ th[t].i <= Shared(t)
    /\ th' = [th EXCEPT ![t].pc = "next",
                        ![t].out = Append(@, Labelled(MessageOf(t), th[t].images,
                                                      th[t].i))]
    /\ UNCHANGED <<menu, count, done, busy, numOfKeys, ops, crashes>>

\* The encoders say so differently when they run out of memory.
EncodeFails(t) ==
    /\ At(t, "image") /\ th[t].i <= Shared(t)
    /\ Fail(t, SendRecv(IF th[t].info.format = "JPG" THEN -1 ELSE 500))
    /\ Release(t)
    /\ UNCHANGED <<menu, count, done, numOfKeys, ops, crashes>>

\* There must be another key exactly when there is another image.
KeysMismatch(t) ==
    LET another == th[t].i < Len(Tokens(MessageOf(t))) IN
    \/ th[t].i < Shared(t) /\ ~another
    \/ th[t].i = Shared(t) /\ another

NextKey(t) ==
    /\ At(t, "next")
    /\ IF KeysMismatch(t)
       THEN Fail(t, -1) /\ Release(t)
       ELSE /\ th' = [th EXCEPT ![t].pc = "image", ![t].i = @ + 1]
            /\ UNCHANGED busy
    /\ UNCHANGED <<menu, count, done, numOfKeys, ops, crashes>>

ImagesDone(t) ==
    /\ At(t, "image") /\ th[t].i > Shared(t)
    /\ Answer(t, Reply(OK, [kind |-> "images", images |-> th[t].out]))
    /\ Release(t)
    /\ UNCHANGED <<menu, count, done, numOfKeys, ops, crashes>>

-----------------------------------------------------------------------------
(* Stopping and starting the master.                                       *)

\* success and failure are the wrong way round: apr_status_t 0 is success.
Verdict(started) == Reply(OK, [kind |-> IF started THEN "failure" ELSE "success"])

\* MUTANT of LockIsFree: nobody waits for the lock.
LockIsIgnored == TRUE

LockIsFree == lock = Nobody

\* The lock is waited for until a moment that is over.
TakeLock(t) ==
    /\ At(t, "lock")
    /\ IF LockIsFree
       THEN lock' = t /\ Goto(t, "pid")
       ELSE Answer(t, Reply(OK, [kind |-> "failure"])) /\ UNCHANGED lock
    /\ UNCHANGED <<web, pidfile, unrecorded, master, seg, crashes>>

GetMasterPid(t) ==
    /\ At(t, "pid")
    /\ IF pidfile = NoPid
       THEN Goto(t, "start")
       ELSE th' = [th EXCEPT ![t].pc = "term", ![t].pid = pidfile]
    /\ UNCHANGED <<web, ops, crashes>>

\* A process that ends is a zombie until its parent waits for it; init does
\* so at once.
Ended(p) == IF master[p].parent = Nobody THEN "gone" ELSE "zombie"

\* Before ipc_msg_server_create SIGTERM ends the process, then it is blocked
\* until the mainloop's signal thread takes it.
Terminated(p) ==
    CASE master[p].st = "starting" -> [master[p] EXCEPT !.st = Ended(p)]
      [] Living(p) /\ master[p].st # "starting" -> [master[p] EXCEPT !.pending = TRUE]
      [] OTHER -> master[p]

Killed(p) == IF Living(p) THEN [master[p] EXCEPT !.st = Ended(p)] ELSE master[p]

\* A signal to a process that is gone is an error, and the end of it.
Signal(t, here, after, next) ==
    LET p == th[t].pid IN
    /\ At(t, here)
    /\ IF master[p].st = "gone"
       THEN Goto(t, "start") /\ UNCHANGED master
       ELSE /\ master' = [master EXCEPT ![p] = after[p]]
            /\ th' = [th EXCEPT ![t].pc = next, ![t].i = 0]
    /\ UNCHANGED <<web, lock, pidfile, unrecorded, seg, crashes>>

SendTerm(t) == Signal(t, "term", [p \in MasterPid |-> Terminated(p)], "wait")
SendKill(t) == Signal(t, "kill", [p \in MasterPid |-> Killed(p)], "reap")

\* One try: apr_proc_wait finds a child that has ended; without a segment the
\* master is assumed dead.
AssumedDead(t) ==
    LET p == th[t].pid IN
    \/ master[p].st = "zombie" /\ master[p].parent = ProcessOf[t]
    \/ seg = NoPid

Reap(t) ==
    LET p == th[t].pid IN
    IF master[p].st = "zombie" /\ master[p].parent = ProcessOf[t]
    THEN [master EXCEPT ![p].st = "gone"] ELSE master

TriesOver(t) == th[t].i >= Tries

\* MUTANT of OneMore: the tries are not counted.
OneMoreUncounted(t) == th[t].i

OneMore(t) == th[t].i + 1

LookAgain(t, here, next) ==
    /\ At(t, here)
    /\ IF TriesOver(t) THEN Goto(t, next) /\ UNCHANGED master
       ELSE /\ master' = Reap(t)
            /\ IF AssumedDead(t) THEN Goto(t, "start")
               ELSE th' = [th EXCEPT ![t].i = OneMore(t)]
    /\ UNCHANGED <<web, lock, pidfile, unrecorded, seg, crashes>>

WaitTerm(t) == LookAgain(t, "wait", "kill")
WaitKill(t) == LookAgain(t, "reap", "start")

Finish(t, started) == lock' = Nobody /\ Answer(t, Verdict(started))

\* The files or the program cannot be opened.
StartFails(t) ==
    /\ At(t, "start")
    /\ Finish(t, FALSE)
    /\ UNCHANGED <<web, pidfile, unrecorded, master, seg, crashes>>

StartMaster(t) ==
    /\ At(t, "start")
    /\ \E p \in MasterPid :
        /\ master[p].st = "none"
        /\ master' = [master EXCEPT ![p].st = "starting", ![p].parent = ProcessOf[t]]
        /\ th' = [th EXCEPT ![t].pc = "record", ![t].pid = p]
    /\ UNCHANGED <<web, lock, pidfile, unrecorded, seg, crashes>>

\* The file is opened, which empties it, and written; whether the writing
\* succeeds is not looked at.
SetMasterPid(t, opened, written) ==
    LET p == th[t].pid IN
    /\ At(t, "record")
    /\ pidfile' = IF ~opened THEN pidfile ELSE IF written THEN p ELSE NoPid
    /\ unrecorded' = IF opened /\ written THEN unrecorded ELSE unrecorded \cup {p}
    /\ Finish(t, opened)
    /\ UNCHANGED <<web, master, seg, crashes>>

-----------------------------------------------------------------------------
(* The masters and Apache's processes.                                     *)

\* IPCController::run: blocking SIGTERM, creating the segment in place of
\* whatever has its name, the mainloop, deleting whatever has its name.
MasterRuns(p) ==
    LET st == master[p].st
        next == CASE st = "starting" -> "creating" [] st = "creating" -> "init"
                  [] st = "init" -> "up" [] st = "ending" -> Ended(p)
    IN  /\ st \in {"starting", "creating", "init", "ending"}
        /\ master' = [master EXCEPT ![p].st = next]
        /\ seg' = CASE st = "creating" -> p [] st = "ending" -> NoPid [] OTHER -> seg
        /\ UNCHANGED <<web, th, lock, pidfile, unrecorded, crashes>>

\* The signal thread breaks the mainloop.
MasterStops(p) ==
    /\ master[p].st = "up" /\ master[p].pending
    /\ master' = [master EXCEPT ![p].st = "ending"]
    /\ UNCHANGED <<web, th, lock, pidfile, unrecorded, seg, crashes>>

\* A process of Apache dies; its locks stay locked, its children become
\* those of init.
Crash(c) ==
    LET lost(x) == IF x \in Thread THEN IF ProcessOf[x] = c THEN c ELSE x ELSE x
    IN  /\ crashes < MaxCrashes
        /\ \E t \in Thread : ProcessOf[t] = c /\ ~At(t, "idle")
        /\ crashes' = crashes + 1
        /\ th' = [t \in Thread |-> IF ProcessOf[t] = c THEN Idle ELSE th[t]]
        /\ busy' = [d \in Dest |-> lost(busy[d])]
        /\ lock' = lost(lock)
        /\ numOfKeys' = [numOfKeys EXCEPT ![c] = 0]
        /\ master' = [p \in MasterPid |->
                        IF master[p].parent # c THEN master[p]
                        ELSE [master[p] EXCEPT !.parent = Nobody,
                                !.st = IF @ = "zombie" THEN "gone" ELSE @]]
        /\ UNCHANGED <<menu, count, done, pidfile, unrecorded, seg>>

-----------------------------------------------------------------------------

Work(t) ==
    \/ Decode(t) \/ RefuseCall(t) \/ NoSegment(t) \/ LockTimesOut(t)
    \/ \E rv \in {-1, -2}, executed \in BOOLEAN : ExchangeFails(t, rv, executed)
    \/ Exchange(t)
    \/ PollNotified(t) \/ PollTimesOut(t)
    \/ LastPart(t) \/ EncodeImage(t) \/ EncodeFails(t) \/ NextKey(t) \/ ImagesDone(t)
    \/ TakeLock(t) \/ GetMasterPid(t)
    \/ SendTerm(t) \/ WaitTerm(t) \/ SendKill(t) \/ WaitKill(t)
    \/ StartFails(t) \/ StartMaster(t)
    \/ \E opened, written \in BOOLEAN : SetMasterPid(t, opened, written)

Next ==
    \/ \E t \in Thread : Work(t) \/ \E req \in menu : Request(t, req)
    \/ \E p \in MasterPid : MasterRuns(p) \/ MasterStops(p)
    \/ \E c \in Process : Crash(c)

\* A thread of Apache that has work goes on with it: its waits have limits.
Fairness == \A t \in Thread : WF_vars(Work(t))

Spec == Init /\ [][Next]_vars /\ Fairness

-----------------------------------------------------------------------------

Executions == UNION {done[d] : d \in Dest}

\* A request that brings an update which a job can parse.
BringsUpdate(req) == req.method = "POST" /\ req.wellFormed

\* Every viewer that was asked for has its image, of the size that was asked
\* for, under its own key, rendered after the update that came with the request.
ImagesAreRight(t, images) ==
    LET d == th[t].info IN
    /\ [i \in DOMAIN images |-> images[i].key] = KeysOf[d.keys]
    /\ \A i \in DOMAIN images :
        /\ images[i].image.viewer = images[i].key
        /\ images[i].image.width = d.width /\ images[i].image.height = d.height
        /\ BringsUpdate(th[t].req) => th[t].n \in images[i].image.edits

\* A browser that is refused (400, 404, 405) has changed nothing.  What
\* mod_trell acknowledges (200) has been executed: by the master, and by a job
\* if the update can be parsed, also one that came with a request for images or
\* the render list; a job acknowledges the others as well.  The answer to a
\* long poll has something new, and images are those that were asked for.
AnswersAreRight ==
    \A t \in Thread :
        LET reply == th[t].reply
            d     == th[t].info
        IN  At(t, "idle") =>
            /\ reply.code \in {400, 404, 405} => th[t].n \notin Executions
            /\ reply.code = OK /\ d.code = OK =>
                /\ d.request \in {"STATE", "PNG", "RENDERLIST"} =>
                        (BringsUpdate(th[t].req) => th[t].n \in done[d.job])
                /\ d.request = "RPC" /\ d.component = "master" =>
                        th[t].n \in done[MasterId]
                /\ d.request = "POLICY" =>
                        /\ reply.body.kind = "model"
                        /\ Cardinality(reply.body.edits) > d.revision
                /\ reply.body.kind = "images" => ImagesAreRight(t, reply.body.images)

\* However many browsers ask for a restart, and whoever crashes meanwhile, one
\* master at most goes on that has not been told to end; masters whose pid
\* could not be recorded are not told.
OneMaster ==
    Cardinality({p \in MasterPid : Living(p) /\ ~master[p].pending
                                    /\ p \notin unrecorded}) <= 1

\* Whatever jobs, masters and other processes of Apache do, a request is
\* answered, unless its own process crashes.
RequestsAreAnswered == \A t \in Thread : ~At(t, "idle") ~> At(t, "idle")
=============================================================================
