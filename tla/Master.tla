------------------------------- MODULE Master -------------------------------
(***************************************************************************)
(* The master, the jobs it starts and the shared memory segments they own: *)
(* what the master's table says of processes that start, report, answer,   *)
(* end and crash on their own, across restarts of the master.              *)
(*                                                                         *)
(* The master works in the handler of one message, or in periodic(), at a  *)
(* time.  Writing its table to the dump file is a step of its own, in      *)
(* which the file may be torn; so is the call it makes to a job from its   *)
(* handler, during which that job may be calling the master.               *)
(***************************************************************************)
EXTENDS Naturals, FiniteSets

CONSTANTS
    Id,         \* job ids
    Pid,        \* process ids, none of them used twice
    NoPid,      \* no process; for a table entry, the -1 of a failed fork
    NoJob,      \* no entry in the table
    MaxStarts   \* bound on the number of times the master is started

ASSUME IdAssumption == Id # {}
ASSUME NoPidAssumption == NoPid \notin Pid

VARIABLES
    master,     \* what the master is doing: "down", "idle", "dump", "die"
    target,     \* the process it has sent TRELL_MESSAGE_DIE to
    jobs,       \* m_jobs
    file,       \* the records of /tmp/trell_master_state
    proc,       \* the job processes: id and place in IPCController::run
    child,      \* the processes whose parent is the running master
    seg,        \* the process whose segment has the name of the id
    starts,
    spoilt      \* a history: a dump has been cut short, or a job was wiped
                \* before its process was gone

vars == <<master, target, jobs, file, proc, child, seg, starts, spoilt>>

-----------------------------------------------------------------------------

Terminated == {"TERMINATED_SUCCESSFULLY", "TERMINATED_UNSUCCESSFULLY"}

\* RUNNING stands for FINISHED and FAILED too: a process that says so has not
\* left its mainloop.
State == {"NOT_STARTED", "RUNNING"} \cup Terminated

Record == [pid : Pid \cup {NoPid}, state : State]

ASSUME NoJobAssumption == NoJob \notin Record

Table  == [Id -> Record \cup {NoJob}]
Empty  == [i \in Id |-> NoJob]

\* Where a process is: after fork; after a failed exec; before and after it
\* has created its segment; about to send the first heartbeat; in the
\* mainloop; in a heartbeat of periodic(); about to send the heartbeat after
\* the mainloop, then that of shutdown(), then about to delete the segment.
Coming == {"forked", "start", "init", "hello", "run", "beat"}
Going  == {"noexec", "ended", "shut", "delete"}
Dead   == {"zombie", "gone"}
Place  == {"none"} \cup Coming \cup Going \cup Dead

Alive(p) == proc[p].pc \in Coming \cup Going

\* A process that has ended stays a zombie until its parent waits for it.
\* init waits for those whose master is gone.
AtExit(p) == IF p \in child THEN "zombie" ELSE "gone"
Goto(p, pc) == proc' = [proc EXCEPT ![p].pc = pc]

Init ==
    /\ master = "down" /\ target = NoPid
    /\ jobs = Empty /\ file = Empty
    /\ proc = [p \in Pid |-> [id |-> CHOOSE i \in Id : TRUE, pc |-> "none"]]
    /\ child = {} /\ seg = [i \in Id |-> NoPid]
    /\ starts = 0 /\ spoilt = FALSE

-----------------------------------------------------------------------------
(* The master.                                                             *)

\* MUTANT of Start: the states in the dump are not read.
StartForgetsStates ==
    /\ master = "down" /\ starts < MaxStarts
    /\ starts' = starts + 1
    /\ master' = "idle"
    /\ jobs' = [i \in Id |-> IF file[i] = NoJob THEN NoJob
                            ELSE [file[i] EXCEPT !.state = "NOT_STARTED"]]
    /\ UNCHANGED <<target, file, proc, child, seg, spoilt>>

\* run() creates the segment, init() reads the dump.
Start ==
    /\ master = "down" /\ starts < MaxStarts
    /\ starts' = starts + 1
    /\ master' = "idle"
    /\ jobs' = file
    /\ UNCHANGED <<target, file, proc, child, seg, spoilt>>

\* The master is gone: its memory is, and its children are init's.
Gone ==
    /\ master' = "down" /\ target' = NoPid
    /\ jobs' = Empty
    /\ child' = {}
    /\ proc' = [p \in Pid |-> IF proc[p].pc = "zombie"
                              THEN [proc[p] EXCEPT !.pc = "gone"] ELSE proc[p]]
    /\ UNCHANGED <<seg, starts>>

\* MUTANT of Stop: cleanup() does not dump.
StopForgets ==
    master = "idle" /\ file' = Empty /\ Gone /\ UNCHANGED spoilt

\* SIGTERM breaks the mainloop between two messages; shutdown() dumps.
Stop == master = "idle" /\ file' = jobs /\ Gone /\ UNCHANGED spoilt

\* SIGKILL, or a crash.  If the master is writing the dump, the file keeps some
\* of the records, none right after the truncation, or the old ones.
Crash ==
    \/ master \in {"idle", "die"} /\ Gone /\ UNCHANGED <<file, spoilt>>
    \/ /\ master = "dump" /\ Gone
       /\ spoilt' = TRUE
       /\ \/ file' = file
          \/ \E kept \in SUBSET Id :
                file' = [i \in Id |-> IF i \in kept THEN jobs[i] ELSE NoJob]

Dump ==
    /\ master = "dump" /\ master' = "idle"
    /\ file' = jobs
    /\ UNCHANGED <<target, jobs, proc, child, seg, starts, spoilt>>

\* MUTANT of Add: an id that is taken is not refused.
AddAgain(i, p) ==
    /\ master = "idle" /\ proc[p].pc = "none"
    /\ master' = "dump"
    /\ jobs' = [jobs EXCEPT ![i] = [pid |-> p, state |-> "NOT_STARTED"]]
    /\ proc' = [proc EXCEPT ![p] = [id |-> i, pc |-> "forked"]]
    /\ child' = child \cup {p}
    /\ UNCHANGED <<target, file, seg, starts, spoilt>>

\* addJob
Add(i, p) ==
    /\ master = "idle" /\ jobs[i] = NoJob /\ proc[p].pc = "none"
    /\ master' = "dump"
    /\ jobs' = [jobs EXCEPT ![i] = [pid |-> p, state |-> "NOT_STARTED"]]
    /\ proc' = [proc EXCEPT ![p] = [id |-> i, pc |-> "forked"]]
    /\ child' = child \cup {p}
    /\ UNCHANGED <<target, file, seg, starts, spoilt>>

\* addJob, if fork fails.
AddFails(i) ==
    /\ master = "idle" /\ jobs[i] = NoJob
    /\ master' = "dump"
    /\ jobs' = [jobs EXCEPT ![i] = [pid   |-> NoPid,
                                    state |-> "TERMINATED_UNSUCCESSFULLY"]]
    /\ UNCHANGED <<target, file, proc, child, seg, starts, spoilt>>

\* Whom waitpid can find: the process, or for the -1 of a failed fork any child.
Zombies == {p \in Pid : proc[p].pc = "zombie"}
WaitedFor(pid) == IF pid = NoPid THEN Zombies ELSE Zombies \cap {pid}

\* wipeJob.  A process that has said it terminates is still there for a while.
Wipe(i) ==
    /\ master = "idle" /\ jobs[i] # NoJob /\ jobs[i].state \in Terminated
    /\ spoilt' = (spoilt \/ \E p \in Pid : Alive(p) /\ proc[p].id = i)
    /\ master' = "dump"
    /\ jobs' = [jobs EXCEPT ![i] = NoJob]
    /\ \/ WaitedFor(jobs[i].pid) = {} /\ UNCHANGED proc
       \/ \E p \in WaitedFor(jobs[i].pid) : Goto(p, "gone")
    /\ UNCHANGED <<target, file, child, seg, starts>>

\* killJob(id, true): SIGKILL; the process -1 is every process.
ForceKill(i) ==
    /\ master = "idle" /\ jobs[i] # NoJob
    /\ proc' = [p \in Pid |->
                  IF jobs[i].pid \in {p, NoPid} /\ Alive(p)
                  THEN [proc[p] EXCEPT !.pc = AtExit(p)] ELSE proc[p]]
    /\ UNCHANGED <<master, target, jobs, file, child, seg, starts, spoilt>>

\* killJob(id, false): the master calls the job, if the name leads anywhere.
\* A forced kill of an id that is not in the table comes here too.
Kill(i) ==
    /\ master = "idle" /\ seg[i] # NoPid
    /\ master' = "die" /\ target' = seg[i]
    /\ UNCHANGED <<jobs, file, proc, child, seg, starts, spoilt>>

\* The job has not answered within the second.
KillTimesOut ==
    /\ master = "die"
    /\ master' = "idle" /\ target' = NoPid
    /\ UNCHANGED <<jobs, file, proc, child, seg, starts, spoilt>>

\* MUTANT of Check: only the jobs that have reported are looked at.
CheckReported ==
    /\ master = "idle" /\ master' = "dump"
    /\ jobs' = [i \in Id |->
          IF jobs[i] # NoJob /\ jobs[i].state = "RUNNING"
             /\ jobs[i].pid \in Pid /\ proc[jobs[i].pid].pc = "gone"
          THEN [jobs[i] EXCEPT !.state = "TERMINATED_UNSUCCESSFULLY"]
          ELSE jobs[i]]
    /\ UNCHANGED <<target, file, proc, child, seg, starts, spoilt>>

\* periodic(): dump, and kill(pid, 0) for each job that has not terminated; a
\* zombie can still be sent signals.
Check ==
    /\ master = "idle" /\ master' = "dump"
    /\ jobs' = [i \in Id |->
          IF jobs[i] # NoJob /\ jobs[i].state \notin Terminated
             /\ jobs[i].pid \in Pid /\ proc[jobs[i].pid].pc = "gone"
          THEN [jobs[i] EXCEPT !.state = "TERMINATED_UNSUCCESSFULLY"]
          ELSE jobs[i]]
    /\ UNCHANGED <<target, file, proc, child, seg, starts, spoilt>>

-----------------------------------------------------------------------------
(* A job.                                                                  *)

\* MUTANT of SetJobState: the change is not dumped.
SetJobStateNoDump(i, state) ==
    /\ jobs' = IF jobs[i] = NoJob THEN jobs
               ELSE [jobs EXCEPT ![i].state = state]
    /\ master' = master

\* setJobState, for a heartbeat: whoever says it is job i.
SetJobState(i, state) ==
    /\ jobs' = IF jobs[i] = NoJob THEN jobs
               ELSE [jobs EXCEPT ![i].state = state]
    /\ master' = IF jobs' # jobs THEN "dump" ELSE master

\* sendHeartBeat: the master's handler gets it, or the call fails: the
\* master is down, in a call of its own, or too slow.
Tell(p, state) ==
    \/ master = "idle" /\ SetJobState(proc[p].id, state)
    \/ UNCHANGED <<jobs, master>>

Rest == <<target, file, child, starts, spoilt>>

\* The child of the master has become the application, or has not.
Exec(p) ==
    /\ proc[p].pc = "forked"
    /\ Goto(p, "start") \/ Goto(p, "noexec")
    /\ UNCHANGED <<master, jobs, seg, Rest>>

\* addJob's child, if execvpe returns: tell the master and exit.
TellNoExec(p) ==
    /\ proc[p].pc = "noexec"
    /\ Tell(p, "TERMINATED_UNSUCCESSFULLY")
    /\ Goto(p, AtExit(p))
    /\ UNCHANGED <<seg, Rest>>

\* MUTANT of Create: an old segment of that name is used.
CreateKeepsOld(p) ==
    /\ proc[p].pc = "start"
    /\ seg' = [seg EXCEPT ![proc[p].id] = IF @ = NoPid THEN p ELSE @]
    /\ Goto(p, "init")
    /\ UNCHANGED <<master, jobs, Rest>>

\* ipc_msg_server_create: unlink what has the name, create the segment.
Create(p) ==
    /\ proc[p].pc = "start"
    /\ seg' = [seg EXCEPT ![proc[p].id] = p]
    /\ Goto(p, "init")
    /\ UNCHANGED <<master, jobs, Rest>>

\* init() of the job, whose failure leads straight to shutdown().
InitJob(p) ==
    /\ proc[p].pc = "init"
    /\ Goto(p, "hello") \/ Goto(p, "shut")
    /\ UNCHANGED <<master, jobs, seg, Rest>>

\* The first heartbeat, then the mainloop.
Hello(p) ==
    /\ proc[p].pc = "hello"
    /\ Tell(p, "RUNNING")
    /\ Goto(p, "run")
    /\ UNCHANGED <<seg, Rest>>

\* periodic() on the mainloop thread, which sends a heartbeat ...
Periodic(p) ==
    /\ proc[p].pc = "run"
    /\ Goto(p, "beat")
    /\ UNCHANGED <<master, jobs, seg, Rest>>

\* ... and goes on whether it arrived or not.
Beat(p) ==
    /\ proc[p].pc = "beat"
    /\ Tell(p, "RUNNING")
    /\ Goto(p, "run")
    /\ UNCHANGED <<seg, Rest>>

\* finish(), SIGTERM, or a fatal error in the mainloop.
Finish(p) ==
    /\ proc[p].pc = "run"
    /\ Goto(p, "ended")
    /\ UNCHANGED <<master, jobs, seg, Rest>>

\* The handler of TRELL_MESSAGE_DIE calls fail() and answers.
AnswerDie(p) ==
    /\ master = "die" /\ target = p /\ proc[p].pc = "run"
    /\ master' = "idle" /\ target' = NoPid
    /\ Goto(p, "ended")
    /\ UNCHANGED <<jobs, file, child, seg, starts, spoilt>>

\* run(), after the mainloop.
LastBeat(p) ==
    /\ proc[p].pc = "ended"
    /\ \E state \in Terminated : Tell(p, state)
    /\ Goto(p, "shut")
    /\ UNCHANGED <<seg, Rest>>

\* shutdown(), after fail(): a second heartbeat, with the state that fail() and
\* shutdown() have made of the first.
Shutdown(p) ==
    /\ proc[p].pc = "shut"
    /\ Tell(p, "TERMINATED_UNSUCCESSFULLY")
    /\ Goto(p, "delete")
    /\ UNCHANGED <<seg, Rest>>

\* cleanup() and ipc_msg_server_delete, which unlinks by name; exit.
Delete(p) ==
    /\ proc[p].pc = "delete"
    /\ seg' = [seg EXCEPT ![proc[p].id] = NoPid]
    /\ Goto(p, AtExit(p))
    /\ UNCHANGED <<master, jobs, Rest>>

\* A crash anywhere; the segment stays.
Die(p) ==
    /\ Alive(p)
    /\ Goto(p, AtExit(p))
    /\ UNCHANGED <<master, jobs, seg, Rest>>

-----------------------------------------------------------------------------

User(i) == \/ \E p \in Pid : Add(i, p)
           \/ AddFails(i) \/ Wipe(i) \/ ForceKill(i) \/ Kill(i)

Job(p) == \/ Exec(p) \/ TellNoExec(p) \/ Create(p) \/ InitJob(p) \/ Hello(p)
          \/ Beat(p) \/ LastBeat(p) \/ Shutdown(p) \/ Delete(p)

Next ==
    \/ Start \/ Stop \/ Crash \/ Dump \/ Check \/ KillTimesOut
    \/ \E i \in Id : User(i)
    \/ \E p \in Pid : Job(p) \/ Periodic(p) \/ Finish(p) \/ AnswerDie(p)
                      \/ Die(p)

Spec == Init /\ [][Next]_vars

\* A process that is on its way goes on; calls return within their second; the
\* master's mainloop comes round to periodic() between messages.
Fairness ==
    /\ WF_vars(Dump) /\ WF_vars(KillTimesOut) /\ SF_vars(Check)
    /\ \A p \in Pid : WF_vars(Job(p))

FairSpec == Spec /\ Fairness

-----------------------------------------------------------------------------
(* Properties.                                                             *)

TypeOK ==
    /\ master \in {"down", "idle", "dump", "die"}
    /\ target \in Pid \cup {NoPid} /\ (master = "die") = (target # NoPid)
    /\ jobs \in Table /\ file \in Table
    /\ proc \in [Pid -> [id : Id, pc : Place]]
    /\ child \subseteq Pid
    /\ seg \in [Id -> Pid \cup {NoPid}]
    /\ starts \in Nat /\ spoilt \in BOOLEAN

\* What the master knows, or will know when it is started again.
Known == IF master = "down" THEN file ELSE jobs

\* A master that is killed between two messages loses nothing: every path that
\* changes the table dumps it before the next message is looked at.
DumpIsCurrent == master \in {"idle", "die"} => file = jobs

\* The rest holds until a dump is cut short or somebody wipes a job whose
\* process still has its last words to say.

\* No job runs that the master does not know of, now or after a restart, and no
\* id is ever used by two processes.
NoOrphans ==
    ~spoilt => \A p \in Pid : Alive(p) => /\ Known[proc[p].id] # NoJob
                                          /\ Known[proc[p].id].pid = p

\* A job that may be wiped has left its mainloop for good.
TerminatedIsOver ==
    ~spoilt => \A i \in Id :
        Known[i] # NoJob /\ Known[i].state \in Terminated =>
            \A p \in Pid : proc[p].id = i => proc[p].pc \notin Coming

\* The id leads to the segment of the process that serves it, from its first
\* heartbeat to its last.
NameLeadsHome ==
    ~spoilt => \A p \in Pid :
        proc[p].pc \in {"hello", "run", "beat", "ended", "shut"} =>
            seg[proc[p].id] = p

\* A state that says terminated is the last of its process: no heartbeat that
\* comes late takes it back.
TerminatedIsFinal ==
    [][\A i \in Id :
          (/\ ~spoilt /\ master # "down" /\ master' # "down"
           /\ jobs[i] # NoJob /\ jobs[i].state \in Terminated)
          => jobs'[i] = NoJob \/ jobs'[i].state \in Terminated]_vars

\* What the users of the master see of it: the registry of JobRegistry.
Life(r) == IF r = NoJob THEN "free"
           ELSE IF r.state = "NOT_STARTED" THEN "starting"
           ELSE IF r.state = "RUNNING" THEN "running" ELSE "over"

Serves(r) == IF r = NoJob THEN NoPid ELSE r.pid

Phase(p) == IF proc[p].pc = "none" THEN "unborn"
            ELSE IF proc[p].pc \in Coming THEN "up"
            ELSE IF proc[p].pc \in Going THEN "leaving" ELSE "dead"

Registry == INSTANCE JobRegistry
    WITH life    <- [i \in Id |-> Life(Known[i])],
         serves  <- [i \in Id |-> Serves(Known[i])],
         phase   <- [p \in Pid |-> Phase(p)],
         trusted <- ~spoilt

\* The master, with its restarts and crashes, its dump, lost calls, late
\* heartbeats and processes that die, implements the registry: nobody can tell
\* that it was away, no job goes back from running to starting or from over to
\* running, and no id changes hands while its process is there.
KeepsRegistry == Registry!Spec

\* A job whose process is gone is found out, unless the master goes down.
DeadAreFound ==
    \A i \in Id, p \in Pid :
        /\ master # "down" /\ proc[p].pc = "gone"
        /\ jobs[i] # NoJob /\ jobs[i].pid = p
        ~> \/ spoilt \/ master = "down" \/ jobs[i] = NoJob
           \/ jobs[i].state \in Terminated
=============================================================================
