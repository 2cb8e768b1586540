--------------------------- MODULE Master_proofs ---------------------------
(***************************************************************************)
(* The master's table, its dump, the processes of jobs and the names of    *)
(* their segments agree, for any number of ids, processes and restarts.    *)
(***************************************************************************)
EXTENDS Master, TLAPS

\* A process owns the name of its id from the moment it has created its
\* segment until it has unlinked that name.
Owning == {"init", "hello", "run", "beat", "ended", "shut", "delete"}

NamesLead ==
    ~spoilt => \A p \in Pid : proc[p].pc \in Owning => seg[proc[p].id] = p

\* TerminatedIsOver speaks of the records of a table, Bond of processes.
Bond ==
    ~spoilt => \A p \in Pid :
        proc[p].pc \in Coming => Known[proc[p].id].state \notin Terminated

IInv == TypeOK /\ DumpIsCurrent /\ NoOrphans /\ Bond /\ NamesLead

USE IdAssumption, NoPidAssumption, NoJobAssumption

-----------------------------------------------------------------------------
(* Records and places.                                                     *)

LEMMA PlacesAreDisjoint ==
    /\ Coming \cap Going = {} /\ Coming \cap Dead = {} /\ Going \cap Dead = {}
    /\ "none" \notin Coming \cup Going \cup Dead
    /\ Owning \subseteq Coming \cup Going
BY DEF Coming, Going, Dead, Owning

\* As long as nothing is spoilt, an id has one process at most that is alive.
LEMMA OneProcess ==
    ASSUME NoOrphans, ~spoilt, NEW p \in Pid, NEW q \in Pid,
           Alive(p), Alive(q), proc[p].id = proc[q].id
    PROVE  p = q
BY DEF NoOrphans

LEMMA InitIsGood == Init => IInv
<1> SUFFICES ASSUME Init PROVE IInv
  OBVIOUS
<1>1. TypeOK
  <2>1. (CHOOSE i \in Id : TRUE) \in Id
    OBVIOUS
  <2> QED
    BY <2>1 DEF Init, TypeOK, Table, Empty, Place
<1>2. \A p \in Pid : proc[p].pc = "none"
  BY DEF Init
<1> QED
  BY <1>1, <1>2, PlacesAreDisjoint
     DEF Init, IInv, DumpIsCurrent, NoOrphans, Bond, NamesLead, Alive

-----------------------------------------------------------------------------
(* Steps of a job.                                                         *)

\* What Tell does to the table: nothing, or the state of one record.
LEMMA TellChanges ==
    ASSUME TypeOK, DumpIsCurrent, NEW p \in Pid, NEW s \in State, Tell(p, s),
           target' = target, file' = file
    PROVE  /\ master' \in {"down", "idle", "dump", "die"}
           /\ (master' = "die") = (target' # NoPid)
           /\ jobs' \in Table
           /\ (master' = "down") <=> (master = "down")
           /\ master' \in {"idle", "die"} => file' = jobs'
           /\ \/ jobs' = jobs
              \/ /\ jobs[proc[p].id] # NoJob
                 /\ jobs' = [jobs EXCEPT ![proc[p].id].state = s]
<1>1. CASE UNCHANGED <<jobs, master>>
  BY <1>1 DEF TypeOK, DumpIsCurrent
<1>2. CASE master = "idle" /\ SetJobState(proc[p].id, s)
  <2> DEFINE i == proc[p].id
  <2>1. i \in Id
    BY DEF TypeOK
  <2>2. CASE jobs[i] = NoJob
    BY <1>2, <2>2 DEF SetJobState, TypeOK, DumpIsCurrent
  <2>3. CASE jobs[i] # NoJob
    <3>1. jobs[i] \in Record
      BY <2>1, <2>3 DEF TypeOK, Table
    <3>2. jobs' = [jobs EXCEPT ![i].state = s]
      BY <1>2, <2>3 DEF SetJobState
    <3>3. [jobs[i] EXCEPT !.state = s] \in Record
      BY <3>1 DEF Record
    <3>4. jobs' \in Table
      BY <2>1, <3>2, <3>3 DEF TypeOK, Table
    <3> QED
      BY <1>2, <2>3, <3>2, <3>4 DEF SetJobState, TypeOK, DumpIsCurrent
  <2> QED
    BY <2>2, <2>3
<1> QED
  BY <1>1, <1>2 DEF Tell

\* A process that goes on to x, where it comes from a place of the same kind or
\* has been told to end, and says nothing that belies where it is.
LEMMA JobGoesOn ==
    ASSUME IInv, NEW p \in Pid, NEW x \in Coming \cup Going \cup Dead,
           NEW s \in State, Alive(p), Goto(p, x), Tell(p, s),
           x \in Coming => proc[p].pc \in Coming,
           s \in Terminated => x \notin Coming,
           target' = target, file' = file, child' = child,
           starts' = starts, spoilt' = spoilt
    PROVE  /\ master' \in {"down", "idle", "dump", "die"}
           /\ (master' = "die") = (target' # NoPid)
           /\ jobs' \in Table /\ proc' \in [Pid -> [id : Id, pc : Place]]
           /\ DumpIsCurrent' /\ NoOrphans' /\ Bond'
<1> DEFINE i == proc[p].id
<1>1. proc' \in [Pid -> [id : Id, pc : Place]]
  BY DEF IInv, TypeOK, Goto, Place
<1>2. /\ \A q \in Pid : proc'[q].id = proc[q].id
      /\ \A q \in Pid : q # p => proc'[q] = proc[q]
      /\ proc'[p].pc = x
  BY DEF IInv, TypeOK, Goto
<1>3. /\ master' \in {"down", "idle", "dump", "die"}
      /\ (master' = "die") = (target' # NoPid)
      /\ jobs' \in Table
      /\ (master' = "down") <=> (master = "down")
      /\ master' \in {"idle", "die"} => file' = jobs'
      /\ \/ jobs' = jobs
         \/ /\ jobs[i] # NoJob
            /\ jobs' = [jobs EXCEPT ![i].state = s]
  BY TellChanges DEF IInv
<1>4. DumpIsCurrent'
  BY <1>3 DEF DumpIsCurrent
<1>5. \A q \in Pid : Alive(q)' => Alive(q)
  BY <1>2 DEF Alive
<1>6. \A q \in Pid : proc'[q].pc \in Coming => proc[q].pc \in Coming
  BY <1>2
<1>7. \/ Known' = Known
      \/ /\ Known[i] # NoJob
         /\ Known' = [Known EXCEPT ![i].state = s]
  BY <1>3 DEF Known
<1>8. Known \in Table /\ i \in Id /\ \A q \in Pid : proc[q].id \in Id
  BY DEF Known, IInv, TypeOK
<1>9. /\ \A j \in Id : Known[j] # NoJob =>
            Known'[j] # NoJob /\ Known'[j].pid = Known[j].pid
      /\ \A j \in Id : j # i => Known'[j] = Known[j]
      /\ Known'[i] = Known[i] \/ Known'[i].state = s
  <2>1. CASE Known' = Known
    BY <2>1
  <2>2. CASE /\ Known[i] # NoJob
             /\ Known' = [Known EXCEPT ![i].state = s]
    <3>1. Known[i] \in Record
      BY <1>8, <2>2 DEF Table
    <3>2. [Known[i] EXCEPT !.state = s] \in Record
      BY <3>1 DEF Record
    <3> QED
      BY <1>8, <2>2, <3>1, <3>2, NoJobAssumption DEF Table, Record
  <2> QED
    BY <1>7, <2>1, <2>2
<1>10. NoOrphans'
  <2> SUFFICES ASSUME ~spoilt', NEW q \in Pid, Alive(q)'
               PROVE  /\ Known'[proc'[q].id] # NoJob
                      /\ Known'[proc'[q].id].pid = q
    BY DEF NoOrphans
  <2>1. Known[proc[q].id] # NoJob /\ Known[proc[q].id].pid = q
    BY <1>5 DEF NoOrphans, IInv
  <2> QED
    BY <2>1, <1>2, <1>8, <1>9
<1>11. Bond'
  <2> SUFFICES ASSUME ~spoilt', NEW q \in Pid, proc'[q].pc \in Coming
               PROVE  Known'[proc'[q].id].state \notin Terminated
    BY DEF Bond
  <2>1. Known[proc[q].id].state \notin Terminated
    BY <1>6 DEF Bond, IInv
  <2>2. CASE proc[q].id # i
    BY <2>1, <2>2, <1>2, <1>8, <1>9
  <2>3. CASE proc[q].id = i
    <3>1. q = p
      BY <2>3, <1>6, OneProcess DEF IInv, Alive
    <3>2. s \notin Terminated
      BY <3>1, <1>2
    <3> QED
      BY <2>1, <2>3, <3>2, <1>2, <1>9
  <2> QED
    BY <2>2, <2>3
<1> QED
  BY <1>1, <1>3, <1>4, <1>10, <1>11

\* Names lead where they did, if nobody comes to own one.
LEMMA NamesKept ==
    ASSUME IInv, ~spoilt' => ~spoilt, seg' = seg,
           \A q \in Pid : proc'[q].pc \in Owning =>
                proc[q].pc \in Owning /\ proc'[q].id = proc[q].id
    PROVE  NamesLead'
BY DEF NamesLead, IInv

LEMMA JobGoesOnQuietly ==
    ASSUME IInv, NEW p \in Pid, NEW x \in Coming \cup Going \cup Dead,
           Alive(p), Goto(p, x), x \in Coming => proc[p].pc \in Coming,
           x \in Owning => proc[p].pc \in Owning,
           \E s \in State : /\ Tell(p, s)
                            /\ s \in Terminated => x \notin Coming,
           UNCHANGED <<seg, Rest>>
    PROVE  IInv'
<1>1. PICK s \in State : Tell(p, s) /\ (s \in Terminated => x \notin Coming)
  OBVIOUS
<1>2. UNCHANGED <<target, file, child, starts, spoilt, seg>>
  BY DEF Rest
<1>3. /\ master' \in {"down", "idle", "dump", "die"}
      /\ (master' = "die") = (target' # NoPid)
      /\ jobs' \in Table /\ proc' \in [Pid -> [id : Id, pc : Place]]
      /\ DumpIsCurrent' /\ NoOrphans' /\ Bond'
  BY <1>1, <1>2, JobGoesOn
<1>4. NamesLead'
  <2>1. \A q \in Pid : proc'[q].pc \in Owning =>
            proc[q].pc \in Owning /\ proc'[q].id = proc[q].id
    BY DEF Goto, IInv, TypeOK
  <2> QED
    BY <2>1, <1>2, NamesKept
<1>5. TypeOK'
  BY <1>2, <1>3 DEF IInv, TypeOK
<1> QED
  BY <1>3, <1>4, <1>5 DEF IInv

\* The step of a job that says nothing.
LEMMA SilenceIsTold ==
    ASSUME NEW p \in Pid, UNCHANGED <<jobs, master>>
    PROVE  \E s \in State : Tell(p, s) /\ s \notin Terminated
<1>1. "RUNNING" \in State /\ "RUNNING" \notin Terminated
  BY DEF State, Terminated
<1>2. Tell(p, "RUNNING")
  BY DEF Tell
<1> QED
  BY <1>1, <1>2

LEMMA AtExitIsDead == \A p \in Pid : AtExit(p) \in Dead
BY DEF AtExit, Dead

LEMMA StatesAre ==
    /\ "RUNNING" \in State \ Terminated
    /\ "TERMINATED_UNSUCCESSFULLY" \in Terminated
    /\ Terminated \subseteq State
BY DEF State, Terminated

LEMMA ExecStep == ASSUME IInv, NEW p \in Pid, Exec(p) PROVE IInv'
<1>1. Alive(p) /\ proc[p].pc \in Coming
  BY DEF Exec, Alive, Coming
<1>2. CASE Goto(p, "start")
  BY <1>1, <1>2, SilenceIsTold, JobGoesOnQuietly
     DEF Exec, Coming, Owning
<1>3. CASE Goto(p, "noexec")
  BY <1>1, <1>3, SilenceIsTold, JobGoesOnQuietly
     DEF Exec, Coming, Going, Owning
<1> QED
  BY <1>2, <1>3 DEF Exec

LEMMA TellNoExecStep == ASSUME IInv, NEW p \in Pid, TellNoExec(p) PROVE IInv'
<1>1. Alive(p)
  BY DEF TellNoExec, Alive, Going
<1>2. AtExit(p) \notin Coming \cup Owning
  BY AtExitIsDead, PlacesAreDisjoint
<1> QED
  BY <1>1, <1>2, AtExitIsDead, StatesAre, JobGoesOnQuietly DEF TellNoExec

LEMMA InitJobStep == ASSUME IInv, NEW p \in Pid, InitJob(p) PROVE IInv'
<1>1. Alive(p) /\ proc[p].pc \in Coming /\ proc[p].pc \in Owning
  BY DEF InitJob, Alive, Coming, Owning
<1>2. CASE Goto(p, "hello")
  BY <1>1, <1>2, SilenceIsTold, JobGoesOnQuietly DEF InitJob, Coming
<1>3. CASE Goto(p, "shut")
  BY <1>1, <1>3, SilenceIsTold, JobGoesOnQuietly DEF InitJob, Coming, Going
<1> QED
  BY <1>2, <1>3 DEF InitJob

LEMMA HelloStep == ASSUME IInv, NEW p \in Pid, Hello(p) PROVE IInv'
<1>1. Alive(p) /\ proc[p].pc \in Coming /\ proc[p].pc \in Owning
  BY DEF Hello, Alive, Coming, Owning
<1> QED
  BY <1>1, StatesAre, JobGoesOnQuietly DEF Hello, Coming

LEMMA PeriodicStep == ASSUME IInv, NEW p \in Pid, Periodic(p) PROVE IInv'
<1>1. Alive(p) /\ proc[p].pc \in Coming /\ proc[p].pc \in Owning
  BY DEF Periodic, Alive, Coming, Owning
<1> QED
  BY <1>1, SilenceIsTold, JobGoesOnQuietly DEF Periodic, Coming

LEMMA BeatStep == ASSUME IInv, NEW p \in Pid, Beat(p) PROVE IInv'
<1>1. Alive(p) /\ proc[p].pc \in Coming /\ proc[p].pc \in Owning
  BY DEF Beat, Alive, Coming, Owning
<1> QED
  BY <1>1, StatesAre, JobGoesOnQuietly DEF Beat, Coming

LEMMA FinishStep == ASSUME IInv, NEW p \in Pid, Finish(p) PROVE IInv'
<1>1. Alive(p) /\ proc[p].pc \in Owning
  BY DEF Finish, Alive, Coming, Owning
<1>2. "ended" \in Going /\ "ended" \notin Coming
  BY DEF Going, Coming
<1> QED
  BY <1>1, <1>2, SilenceIsTold, JobGoesOnQuietly DEF Finish

LEMMA LastBeatStep == ASSUME IInv, NEW p \in Pid, LastBeat(p) PROVE IInv'
<1>1. Alive(p) /\ proc[p].pc \in Owning
  BY DEF LastBeat, Alive, Going, Owning
<1>2. "shut" \in Going /\ "shut" \notin Coming
  BY DEF Going, Coming
<1> QED
  BY <1>1, <1>2, StatesAre, JobGoesOnQuietly DEF LastBeat

LEMMA ShutdownStep == ASSUME IInv, NEW p \in Pid, Shutdown(p) PROVE IInv'
<1>1. Alive(p) /\ proc[p].pc \in Owning
  BY DEF Shutdown, Alive, Going, Owning
<1>2. "delete" \in Going /\ "delete" \notin Coming
  BY DEF Going, Coming
<1> QED
  BY <1>1, <1>2, StatesAre, JobGoesOnQuietly DEF Shutdown

LEMMA DieStep == ASSUME IInv, NEW p \in Pid, Die(p) PROVE IInv'
<1>1. Alive(p) /\ AtExit(p) \in Dead /\ AtExit(p) \notin Coming \cup Owning
  BY AtExitIsDead, PlacesAreDisjoint DEF Die
<1> QED
  BY <1>1, SilenceIsTold, JobGoesOnQuietly DEF Die

\* Nobody else has the id whose segment is made or unlinked.
LEMMA CreateStep == ASSUME IInv, NEW p \in Pid, Create(p) PROVE IInv'
<1>1. Alive(p) /\ proc[p].pc \in Coming /\ "init" \in Coming
  BY DEF Create, Alive, Coming
<1>2. UNCHANGED <<target, file, child, starts, spoilt, jobs, master>>
  BY DEF Create, Rest
<1>3. PICK s \in State : Tell(p, s) /\ s \notin Terminated
  BY <1>2, SilenceIsTold
<1>4. /\ proc' \in [Pid -> [id : Id, pc : Place]]
      /\ DumpIsCurrent' /\ NoOrphans' /\ Bond'
  BY <1>1, <1>2, <1>3, JobGoesOn DEF Create
<1>5. TypeOK'
  BY <1>2, <1>4 DEF IInv, TypeOK, Create
<1>6. NamesLead'
  <2> SUFFICES ASSUME ~spoilt', NEW q \in Pid, proc'[q].pc \in Owning
               PROVE  seg'[proc'[q].id] = q
    BY DEF NamesLead
  <2>1. proc[p].id \in Id /\ proc'[q].id = proc[q].id /\ proc[q].id \in Id
    BY DEF IInv, TypeOK, Create, Goto
  <2>2. CASE q = p
    BY <2>1, <2>2 DEF Create, IInv, TypeOK
  <2>3. CASE q # p
    <3>1. proc'[q] = proc[q]
      BY <2>3 DEF IInv, TypeOK, Create, Goto
    <3>2. Alive(q)
      BY <3>1, PlacesAreDisjoint DEF Alive
    <3>3. proc[q].id # proc[p].id
      BY <1>1, <1>2, <2>3, <3>2, OneProcess DEF IInv
    <3>4. seg[proc[q].id] = q
      BY <1>2, <3>1 DEF IInv, NamesLead
    <3> QED
      BY <2>1, <3>3, <3>4 DEF Create, IInv, TypeOK
  <2> QED
    BY <2>2, <2>3
<1> QED
  BY <1>4, <1>5, <1>6 DEF IInv

LEMMA DeleteStep == ASSUME IInv, NEW p \in Pid, Delete(p) PROVE IInv'
<1>1. /\ Alive(p)
      /\ AtExit(p) \in Dead /\ AtExit(p) \notin Coming \cup Owning
  BY AtExitIsDead, PlacesAreDisjoint DEF Delete, Alive, Going
<1>2. UNCHANGED <<target, file, child, starts, spoilt, jobs, master>>
  BY DEF Delete, Rest
<1>3. PICK s \in State : Tell(p, s) /\ s \notin Terminated
  BY <1>2, SilenceIsTold
<1>4. /\ proc' \in [Pid -> [id : Id, pc : Place]]
      /\ DumpIsCurrent' /\ NoOrphans' /\ Bond'
  BY <1>1, <1>2, <1>3, JobGoesOn DEF Delete
<1>5. TypeOK'
  BY <1>2, <1>4 DEF IInv, TypeOK, Delete
<1>6. NamesLead'
  <2> SUFFICES ASSUME ~spoilt', NEW q \in Pid, proc'[q].pc \in Owning
               PROVE  seg'[proc'[q].id] = q
    BY DEF NamesLead
  <2>1. q # p
    BY <1>1 DEF Delete, Goto, IInv, TypeOK
  <2>2. /\ proc'[q] = proc[q]
        /\ proc[q].id \in Id /\ proc[p].id \in Id
    BY <2>1 DEF IInv, TypeOK, Delete, Goto
  <2>3. Alive(q)
    BY <2>2, PlacesAreDisjoint DEF Alive
  <2>4. proc[q].id # proc[p].id
    BY <1>1, <1>2, <2>1, <2>3, OneProcess DEF IInv
  <2>5. seg[proc[q].id] = q
    BY <1>2, <2>2 DEF IInv, NamesLead
  <2> QED
    BY <2>2, <2>4, <2>5 DEF Delete, IInv, TypeOK
<1> QED
  BY <1>4, <1>5, <1>6 DEF IInv

-----------------------------------------------------------------------------
(* Steps of the master.                                                    *)

\* Processes come to nothing new, and what the master knows of those that are
\* still alive stays as it is.
LEMMA RecordsKept ==
    ASSUME IInv, ~spoilt' => ~spoilt, seg' = seg,
           NEW q \in Pid, proc'[q].id = proc[q].id,
           proc'[q].pc \in {proc[q].pc} \cup Dead \/
               (proc[q].pc = "run" /\ proc'[q].pc = "ended"),
           ~spoilt' /\ Alive(q)' =>
               /\ Known'[proc[q].id] = Known[proc[q].id]
    PROVE  ~spoilt' =>
               /\ Alive(q)' => /\ Known'[proc'[q].id] # NoJob
                               /\ Known'[proc'[q].id].pid = q
               /\ proc'[q].pc \in Coming =>
                       Known'[proc'[q].id].state \notin Terminated
               /\ proc'[q].pc \in Owning => seg'[proc'[q].id] = q
<1>1. "run" \in Coming /\ "run" \in Owning
      /\ "ended" \in Going /\ "ended" \notin Coming
  BY DEF Coming, Owning, Going
<1>2. /\ Alive(q)' => Alive(q)
      /\ proc'[q].pc \in Coming => proc[q].pc \in Coming
      /\ proc'[q].pc \in Owning => proc[q].pc \in Owning
  BY <1>1, PlacesAreDisjoint DEF Alive
<1>3. proc'[q].pc \in Coming \cup Owning => Alive(q)'
  BY PlacesAreDisjoint DEF Alive
<1> QED
  BY <1>2, <1>3 DEF IInv, NoOrphans, Bond, NamesLead

\* The same for all processes.
LEMMA TableStep ==
    ASSUME IInv, TypeOK', DumpIsCurrent', ~spoilt' => ~spoilt, seg' = seg,
           \A q \in Pid :
               /\ proc'[q].id = proc[q].id
               /\ \/ proc'[q].pc \in {proc[q].pc} \cup Dead
                  \/ proc[q].pc = "run" /\ proc'[q].pc = "ended"
               /\ ~spoilt' /\ Alive(q)' =>
                       Known'[proc[q].id] = Known[proc[q].id]
    PROVE  IInv'
<1>1. \A q \in Pid : ~spoilt' =>
         /\ Alive(q)' => /\ Known'[proc'[q].id] # NoJob
                         /\ Known'[proc'[q].id].pid = q
         /\ proc'[q].pc \in Coming =>
                 Known'[proc'[q].id].state \notin Terminated
         /\ proc'[q].pc \in Owning => seg'[proc'[q].id] = q
  BY RecordsKept
<1>2. NoOrphans'
  BY <1>1 DEF NoOrphans
<1>3. Bond'
  BY <1>1 DEF Bond
<1>4. NamesLead'
  BY <1>1 DEF NamesLead
<1> QED
  BY <1>2, <1>3, <1>4 DEF IInv

LEMMA EmptyIsTable == Empty \in Table
BY DEF Empty, Table

\* When the master is gone its file is what it will know.
LEMMA GoneStep ==
    ASSUME IInv, Gone, file' \in Table, spoilt' \in BOOLEAN,
           ~spoilt' => ~spoilt /\ file' = Known
    PROVE  IInv'
<1>1. \A q \in Pid : proc'[q].id = proc[q].id
                     /\ proc'[q].pc \in {proc[q].pc} \cup Dead
  BY DEF Gone, IInv, TypeOK, Dead
<1>2. TypeOK'
  BY EmptyIsTable DEF IInv, TypeOK, Gone, Place, Dead
<1>3. DumpIsCurrent' /\ Known' = file' /\ seg' = seg
  BY DEF DumpIsCurrent, Gone, Known
<1> QED
  BY <1>1, <1>2, <1>3, TableStep

LEMMA StartStep == ASSUME IInv, Start PROVE IInv'
<1>1. TypeOK' /\ DumpIsCurrent'
  BY DEF IInv, TypeOK, Start, DumpIsCurrent
<1>2. Known' = Known
  BY DEF Start, Known
<1> QED
  BY <1>1, <1>2, TableStep DEF Start

LEMMA StopStep == ASSUME IInv, Stop PROVE IInv'
BY GoneStep DEF Stop, Known, IInv, TypeOK

LEMMA CrashStep == ASSUME IInv, Crash PROVE IInv'
<1>1. CASE master \in {"idle", "die"} /\ Gone /\ UNCHANGED <<file, spoilt>>
  BY <1>1, GoneStep DEF Known, IInv, TypeOK, DumpIsCurrent
<1>2. CASE master = "dump" /\ Crash
  <2>1. jobs \in Table /\ file \in Table
    BY DEF IInv, TypeOK
  <2>2. file' \in Table
    BY <1>2, <2>1 DEF Crash, Table
  <2> QED
    BY <1>2, <2>2, GoneStep DEF Crash
<1> QED
  BY <1>1, <1>2 DEF Crash

LEMMA DumpStep == ASSUME IInv, Dump PROVE IInv'
<1>1. TypeOK' /\ DumpIsCurrent'
  BY DEF IInv, TypeOK, Dump, DumpIsCurrent
<1>2. Known' = Known
  BY DEF Dump, Known
<1> QED
  BY <1>1, <1>2, TableStep DEF Dump

\* A process that was not used before gets an id that nobody has.
LEMMA AddStep == ASSUME IInv, NEW i \in Id, NEW p \in Pid, Add(i, p) PROVE IInv'
<1> DEFINE r == [pid |-> p, state |-> "NOT_STARTED"]
<1>1. r \in Record /\ r # NoJob /\ r.state \notin Terminated
  BY NoJobAssumption DEF Record, State, Terminated
<1>2. TypeOK' /\ DumpIsCurrent'
  BY <1>1 DEF IInv, TypeOK, Add, DumpIsCurrent, Table, Place, Coming
<1>3. /\ proc'[p] = [id |-> i, pc |-> "forked"]
      /\ \A q \in Pid : q # p => proc'[q] = proc[q]
      /\ "forked" \in Coming /\ "forked" \notin Owning
  BY DEF Add, IInv, TypeOK, Coming, Owning
<1>4. /\ Known'[i] = r
      /\ \A j \in Id : j # i => Known'[j] = Known[j]
      /\ Known[i] = NoJob
  BY DEF Add, IInv, TypeOK, Known, Table
<1>5. \A q \in Pid : proc[q].id \in Id
  BY DEF IInv, TypeOK
<1>6. ~spoilt' => ~spoilt /\ \A q \in Pid : Alive(q) => proc[q].id # i
  BY <1>4 DEF Add, IInv, NoOrphans
<1>7. \A q \in Pid : q # p /\ Alive(q)' => Alive(q)
  BY <1>3 DEF Alive
<1>8. NoOrphans'
  BY <1>1, <1>3, <1>4, <1>5, <1>6, <1>7 DEF NoOrphans, IInv
<1>9. Bond'
  <2> SUFFICES ASSUME ~spoilt', NEW q \in Pid, proc'[q].pc \in Coming
               PROVE  Known'[proc'[q].id].state \notin Terminated
    BY DEF Bond
  <2>1. CASE q = p
    BY <2>1, <1>1, <1>3, <1>4
  <2>2. CASE q # p
    <3>1. proc'[q] = proc[q] /\ Alive(q)
      BY <2>2, <1>3 DEF Alive
    <3> QED
      BY <3>1, <1>4, <1>5, <1>6 DEF Bond, IInv
  <2> QED
    BY <2>1, <2>2
<1>10. NamesLead'
  BY <1>3, <1>6, NamesKept DEF Add
<1> QED
  BY <1>2, <1>8, <1>9, <1>10 DEF IInv

LEMMA AddFailsStep == ASSUME IInv, NEW i \in Id, AddFails(i) PROVE IInv'
<1>1. [pid |-> NoPid, state |-> "TERMINATED_UNSUCCESSFULLY"] \in Record
  BY StatesAre DEF Record
<1>2. TypeOK' /\ DumpIsCurrent'
  BY <1>1 DEF IInv, TypeOK, AddFails, DumpIsCurrent, Table
<1>3. /\ \A j \in Id : j # i => Known'[j] = Known[j]
      /\ Known[i] = NoJob
  BY DEF AddFails, IInv, TypeOK, Known, Table
<1>4. ~spoilt' => \A q \in Pid : Alive(q)' => proc[q].id # i
  BY <1>3 DEF AddFails, IInv, NoOrphans, Alive
<1>5. \A q \in Pid : proc[q].id \in Id
  BY DEF IInv, TypeOK
<1> QED
  BY <1>2, <1>3, <1>4, <1>5, TableStep DEF AddFails

LEMMA WipeStep == ASSUME IInv, NEW i \in Id, Wipe(i) PROVE IInv'
<1>1. TypeOK' /\ DumpIsCurrent'
  BY DEF IInv, TypeOK, Wipe, WaitedFor, Zombies, Goto, DumpIsCurrent, Table, Place,
         Dead
<1>2. \A j \in Id : j # i => Known'[j] = Known[j]
  BY DEF Wipe, IInv, TypeOK, Known, Table
<1>3. \A q \in Pid : /\ proc'[q].id = proc[q].id
                     /\ proc'[q].pc \in {proc[q].pc} \cup Dead
                     /\ proc[q].id \in Id
  BY DEF Wipe, WaitedFor, Zombies, Goto, IInv, TypeOK, Dead
<1>4. ~spoilt' => ~spoilt /\ \A q \in Pid : Alive(q)' => proc[q].id # i
  <2>1. \A q \in Pid : Alive(q)' => Alive(q)
    BY <1>3, PlacesAreDisjoint DEF Alive
  <2> QED
    BY <2>1 DEF Wipe
<1> QED
  BY <1>1, <1>2, <1>3, <1>4, TableStep DEF Wipe

LEMMA ForceKillStep == ASSUME IInv, NEW i \in Id, ForceKill(i) PROVE IInv'
<1>1. \A q \in Pid : /\ proc'[q].id = proc[q].id
                     /\ proc'[q].pc \in {proc[q].pc} \cup Dead
  BY AtExitIsDead DEF ForceKill, IInv, TypeOK
<1>2. TypeOK' /\ DumpIsCurrent'
  BY AtExitIsDead DEF IInv, TypeOK, ForceKill, DumpIsCurrent, Place
<1>3. Known' = Known
  BY DEF ForceKill, Known
<1> QED
  BY <1>1, <1>2, <1>3, TableStep DEF ForceKill

LEMMA KillStep == ASSUME IInv, NEW i \in Id, Kill(i) PROVE IInv'
<1>1. TypeOK' /\ DumpIsCurrent'
  BY DEF IInv, TypeOK, Kill, DumpIsCurrent
<1>2. Known' = Known
  BY DEF Kill, Known
<1> QED
  BY <1>1, <1>2, TableStep DEF Kill

LEMMA KillTimesOutStep == ASSUME IInv, KillTimesOut PROVE IInv'
<1>1. TypeOK' /\ DumpIsCurrent'
  BY DEF IInv, TypeOK, KillTimesOut, DumpIsCurrent
<1>2. Known' = Known
  BY DEF KillTimesOut, Known
<1> QED
  BY <1>1, <1>2, TableStep DEF KillTimesOut

LEMMA AnswerDieStep == ASSUME IInv, NEW p \in Pid, AnswerDie(p) PROVE IInv'
<1>1. TypeOK' /\ DumpIsCurrent'
  BY DEF IInv, TypeOK, AnswerDie, DumpIsCurrent, Goto, Place, Going
<1>2. Known' = Known
  BY DEF AnswerDie, Known
<1>3. \A q \in Pid : /\ proc'[q].id = proc[q].id
                     /\ \/ proc'[q].pc = proc[q].pc
                        \/ proc[q].pc = "run" /\ proc'[q].pc = "ended"
  BY DEF AnswerDie, Goto, IInv, TypeOK
<1> QED
  BY <1>1, <1>2, <1>3, TableStep DEF AnswerDie

\* A job is declared over when its process is gone, so nobody alive is.
LEMMA CheckStep == ASSUME IInv, Check PROVE IInv'
<1>1. /\ \A i \in Id : jobs'[i] # jobs[i] =>
            /\ jobs[i] # NoJob /\ jobs[i].pid \in Pid
            /\ proc[jobs[i].pid].pc = "gone"
      /\ jobs' \in Table
  <2>1. \A r \in Record : [r EXCEPT !.state = "TERMINATED_UNSUCCESSFULLY"] \in Record
    BY StatesAre DEF Record
  <2> QED
    BY <2>1 DEF Check, IInv, TypeOK, Table
<1>2. TypeOK' /\ DumpIsCurrent'
  BY <1>1 DEF IInv, TypeOK, Check, DumpIsCurrent
<1>3. \A q \in Pid : proc[q].id \in Id
  BY DEF IInv, TypeOK
<1>4. ASSUME ~spoilt', NEW q \in Pid, Alive(q)'
      PROVE  Known'[proc[q].id] = Known[proc[q].id]
  <2>1. Alive(q) /\ proc[q].pc # "gone"
    BY <1>4, PlacesAreDisjoint DEF Check, Alive, Dead
  <2>2. jobs[proc[q].id].pid = q
    BY <1>4, <2>1 DEF IInv, NoOrphans, Check, Known
  <2>3. jobs'[proc[q].id] = jobs[proc[q].id]
    BY <1>1, <1>3, <2>1, <2>2
  <2> QED
    BY <2>3 DEF Check, Known
<1> QED
  BY <1>2, <1>4, TableStep DEF Check

LEMMA UserStep == ASSUME IInv, NEW i \in Id, User(i) PROVE IInv'
BY AddStep, AddFailsStep, WipeStep, ForceKillStep, KillStep DEF User

LEMMA JobStep ==
    ASSUME IInv, NEW p \in Pid,
           Job(p) \/ Periodic(p) \/ Finish(p) \/ AnswerDie(p) \/ Die(p)
    PROVE  IInv'
BY ExecStep, TellNoExecStep, CreateStep, InitJobStep, HelloStep, BeatStep,
   LastBeatStep, ShutdownStep, DeleteStep, PeriodicStep, FinishStep,
   AnswerDieStep, DieStep DEF Job

LEMMA StepIsGood == IInv /\ [Next]_vars => IInv'
<1> SUFFICES ASSUME IInv, [Next]_vars PROVE IInv'
  OBVIOUS
<1>1. CASE UNCHANGED vars
  BY <1>1 DEF vars, IInv, TypeOK, DumpIsCurrent, NoOrphans, Bond, NamesLead,
     Known, Alive
<1>2. CASE Next
  BY <1>2, StartStep, StopStep, CrashStep, DumpStep, CheckStep,
     KillTimesOutStep, UserStep, JobStep DEF Next
<1> QED
  BY <1>1, <1>2

LEMMA AlwaysIInv == Spec => []IInv
BY InitIsGood, StepIsGood, PTL DEF Spec

-----------------------------------------------------------------------------
(* The properties.                                                         *)

\* Typing of the master's table and file, of processes and segments.
THEOREM TypeCorrect == Spec => []TypeOK
BY AlwaysIInv, PTL DEF IInv

\* A master that is killed between two messages loses nothing.
THEOREM DumpStaysCurrent == Spec => []DumpIsCurrent
BY AlwaysIInv, PTL DEF IInv

\* No job runs that the master does not know of, now or after a restart, and
\* an id is used by one process at a time.
THEOREM NobodyIsOrphaned == Spec => []NoOrphans
BY AlwaysIInv, PTL DEF IInv

\* A job that may be wiped has left its mainloop for good.
THEOREM TerminatedStaysOver == Spec => []TerminatedIsOver
<1>1. IInv => TerminatedIsOver
  BY DEF IInv, Bond, TerminatedIsOver
<1> QED
  BY <1>1, AlwaysIInv, PTL

\* The id leads to the segment of the process that serves it.
THEOREM NamesLeadHome == Spec => []NameLeadsHome
<1>1. IInv => NameLeadsHome
  BY DEF IInv, NamesLead, NameLeadsHome, Owning
<1> QED
  BY <1>1, AlwaysIInv, PTL

\* What a process says that is where its state belongs.
LEMMA TellStaysFinal ==
    ASSUME IInv, NEW p \in Pid, NEW s \in State, Tell(p, s), Alive(p), ~spoilt,
           s \in Terminated \/ proc[p].pc \in Coming, master # "down",
           NEW i \in Id, jobs[i] # NoJob, jobs[i].state \in Terminated
    PROVE  jobs'[i].state \in Terminated
<1> DEFINE j == proc[p].id
<1>1. CASE jobs' = jobs
  BY <1>1
<1>2. CASE jobs[j] # NoJob /\ jobs' = [jobs EXCEPT ![j].state = s]
  <2>1. jobs \in Table /\ j \in Id
    BY DEF IInv, TypeOK
  <2>2. CASE j # i
    BY <1>2, <2>1, <2>2 DEF Table
  <2>3. CASE j = i
    <3>1. s \in Terminated
      BY <2>3 DEF IInv, Bond, Known
    <3>2. jobs[i] \in Record
      BY <2>1 DEF Table
    <3>3. [jobs[i] EXCEPT !.state = s].state = s
      BY <3>2 DEF Record
    <3> QED
      BY <1>2, <2>1, <2>3, <3>1, <3>3 DEF Table
  <2> QED
    BY <2>2, <2>3
<1> QED
  BY <1>1, <1>2 DEF Tell, SetJobState

LEMMA JobStaysFinal ==
    ASSUME IInv, NEW p \in Pid, ~spoilt, master # "down",
           Job(p) \/ Periodic(p) \/ Finish(p) \/ AnswerDie(p) \/ Die(p),
           NEW i \in Id, jobs[i] # NoJob, jobs[i].state \in Terminated
    PROVE  jobs'[i].state \in Terminated
<1>1. CASE UNCHANGED jobs
  BY <1>1
<1>2. CASE Hello(p) \/ Beat(p)
  <2>1. proc[p].pc \in Coming /\ Alive(p) /\ Tell(p, "RUNNING")
    BY <1>2 DEF Hello, Beat, Coming, Alive
  <2> QED
    BY <2>1, StatesAre, TellStaysFinal
<1>3. CASE TellNoExec(p) \/ LastBeat(p) \/ Shutdown(p)
  <2>1. Alive(p) /\ \E s \in Terminated : Tell(p, s)
    BY <1>3, StatesAre DEF TellNoExec, LastBeat, Shutdown, Going, Alive
  <2> QED
    BY <2>1, StatesAre, TellStaysFinal
<1> QED
  BY <1>1, <1>2, <1>3
     DEF Job, Exec, Create, InitJob, Delete, Periodic, Finish, AnswerDie, Die

LEMMA MasterStaysFinal ==
    ASSUME IInv, master # "down", master' # "down",
           Start \/ Stop \/ Crash \/ Dump \/ Check \/ KillTimesOut \/
               \E k \in Id : User(k),
           NEW i \in Id, jobs[i] # NoJob, jobs[i].state \in Terminated
    PROVE  jobs'[i] = NoJob \/ jobs'[i].state \in Terminated
<1>1. jobs \in Table
  BY DEF IInv, TypeOK
<1>2. CASE Check
  BY <1>1, <1>2 DEF Check, Table
<1>3. CASE \E k \in Id : User(k)
  <2>1. PICK k \in Id : User(k)
    BY <1>3
  <2>2. CASE (\E p \in Pid : Add(k, p)) \/ AddFails(k)
    BY <1>1, <2>2 DEF Add, AddFails, Table
  <2>3. CASE Wipe(k)
    BY <1>1, <2>3 DEF Wipe, Table
  <2>4. CASE ForceKill(k) \/ Kill(k)
    BY <2>4 DEF ForceKill, Kill
  <2> QED
    BY <2>1, <2>2, <2>3, <2>4 DEF User
<1>4. CASE Start \/ Stop \/ Crash \/ Dump \/ KillTimesOut
  BY <1>4 DEF Start, Stop, Crash, Gone, Dump, KillTimesOut
<1> QED
  BY <1>2, <1>3, <1>4

LEMMA StaysFinal ==
    ASSUME IInv, [Next]_vars, NEW i \in Id, ~spoilt, master # "down",
           master' # "down", jobs[i] # NoJob, jobs[i].state \in Terminated
    PROVE  jobs'[i] = NoJob \/ jobs'[i].state \in Terminated
<1>1. CASE UNCHANGED vars
  BY <1>1 DEF vars
<1>2. CASE Next
  BY <1>2, MasterStaysFinal, JobStaysFinal DEF Next
<1> QED
  BY <1>1, <1>2

\* A state that says terminated is the last of its process: no heartbeat that
\* comes late takes it back.
THEOREM TerminatedStaysFinal == Spec => TerminatedIsFinal
<1> DEFINE Final ==
      \A i \in Id :
          (/\ ~spoilt /\ master # "down" /\ master' # "down"
           /\ jobs[i] # NoJob /\ jobs[i].state \in Terminated)
          => jobs'[i] = NoJob \/ jobs'[i].state \in Terminated
<1>1. IInv /\ [Next]_vars => [Final]_vars
  BY StaysFinal
<1>2. TerminatedIsFinal <=> [][Final]_vars
  BY DEF TerminatedIsFinal
<1> QED
  BY <1>1, <1>2, AlwaysIInv, PTL DEF Spec

-----------------------------------------------------------------------------
(* The registry.  A record is of the process that was started for it, in   *)
(* the table and in the dump alike, whatever has been spoilt.              *)

OwnRecords ==
    \A i \in Id : \A r \in {jobs[i], file[i]} :
        r # NoJob /\ r.pid \in Pid => proc[r.pid].id = i /\ proc[r.pid].pc # "none"

RInv == IInv /\ OwnRecords

LEMMA InitOwns == Init => OwnRecords
BY DEF Init, OwnRecords, Empty

\* Records stay or take over the pid of another for the same id, and the
\* processes that they are of stay what they are.
LEMMA RecordsStay ==
    ASSUME TypeOK, OwnRecords,
           \A i \in Id : \A r \in {jobs'[i], file'[i]} : r # NoJob =>
               \E old \in {jobs[i], file[i]} : old # NoJob /\ old.pid = r.pid,
           \A p \in Pid : /\ proc'[p].id = proc[p].id
                          /\ proc[p].pc # "none" => proc'[p].pc # "none"
    PROVE  OwnRecords'
<1> SUFFICES ASSUME NEW i \in Id, NEW r \in {jobs'[i], file'[i]},
                    r # NoJob, r.pid \in Pid
             PROVE  proc'[r.pid].id = i /\ proc'[r.pid].pc # "none"
  BY DEF OwnRecords
<1>1. PICK old \in {jobs[i], file[i]} : old # NoJob /\ old.pid = r.pid
  OBVIOUS
<1>2. proc[r.pid].id = i /\ proc[r.pid].pc # "none"
  BY <1>1 DEF OwnRecords
<1> QED
  BY <1>2

LEMMA TellKeepsPids ==
    ASSUME TypeOK, NEW p \in Pid, NEW s \in State, Tell(p, s), file' = file
    PROVE  \A i \in Id : \A r \in {jobs'[i], file'[i]} : r # NoJob =>
               \E old \in {jobs[i], file[i]} : old # NoJob /\ old.pid = r.pid
<1> DEFINE j == proc[p].id
<1>1. CASE jobs' = jobs
  BY <1>1
<1>2. CASE jobs[j] # NoJob /\ jobs' = [jobs EXCEPT ![j].state = s]
  <2>1. jobs \in Table /\ j \in Id /\ jobs[j] \in Record
    BY <1>2 DEF TypeOK, Table
  <2>2. [jobs[j] EXCEPT !.state = s].pid = jobs[j].pid
    BY <2>1 DEF Record
  <2>3. jobs'[j].pid = jobs[j].pid /\ \A i \in Id : i # j => jobs'[i] = jobs[i]
    BY <1>2, <2>1, <2>2 DEF Table
  <2> QED
    BY <1>2, <2>1, <2>3
<1> QED
  BY <1>1, <1>2 DEF Tell, SetJobState

LEMMA StepOwns == RInv /\ [Next]_vars => OwnRecords'
<1> SUFFICES ASSUME RInv, [Next]_vars PROVE OwnRecords'
  OBVIOUS
<1> USE DEF RInv
<1>1. TypeOK /\ OwnRecords /\ jobs \in Table /\ file \in Table
      /\ proc \in [Pid -> [id : Id, pc : Place]]
  BY DEF IInv, TypeOK
<1>2. "none" \notin Coming \cup Going \cup Dead /\ \A p \in Pid : AtExit(p) # "none"
  BY DEF Coming, Going, Dead, AtExit
<1>3. CASE UNCHANGED vars
  BY <1>1, <1>3, RecordsStay DEF vars
<1>4. CASE Start \/ Dump \/ KillTimesOut
  BY <1>1, <1>4, RecordsStay DEF Start, Dump, KillTimesOut
<1>5. CASE Stop \/ Crash
  <2>1. Gone /\ \A i \in Id : file'[i] \in {NoJob, jobs[i], file[i]}
    BY <1>1, <1>5 DEF Stop, Crash
  <2>2. \A p \in Pid : /\ proc'[p].id = proc[p].id
                       /\ proc[p].pc # "none" => proc'[p].pc # "none"
    BY <1>1, <2>1 DEF Gone
  <2>3. \A i \in Id : jobs'[i] = NoJob
    BY <2>1 DEF Gone, Empty
  <2> QED
    BY <1>1, <2>1, <2>2, <2>3, RecordsStay
<1>6. CASE Check
  <2>1. \A i \in Id : jobs'[i] # NoJob => jobs[i] # NoJob /\ jobs'[i].pid = jobs[i].pid
    <3> SUFFICES ASSUME NEW i \in Id, jobs'[i] # NoJob
                 PROVE  jobs[i] # NoJob /\ jobs'[i].pid = jobs[i].pid
      OBVIOUS
    <3>1. jobs'[i] \in {jobs[i], [jobs[i] EXCEPT !.state = "TERMINATED_UNSUCCESSFULLY"]}
          /\ (jobs[i] = NoJob => jobs'[i] = NoJob)
      BY <1>6 DEF Check
    <3>2. jobs[i] \in Record
      BY <1>1, <3>1 DEF Table
    <3> QED
      BY <3>1, <3>2 DEF Record
  <2>2. file' = file /\ proc' = proc
    BY <1>6 DEF Check
  <2> QED
    BY <1>1, <2>1, <2>2, RecordsStay
<1>7. ASSUME NEW i \in Id, User(i) PROVE OwnRecords'
  <2>1. ASSUME NEW p \in Pid, Add(i, p) PROVE OwnRecords'
    <3>1. \A k \in Id : \A r \in {jobs[k], file[k]} : r # NoJob => r.pid # p
      BY <2>1 DEF Add, OwnRecords
    <3>2. /\ proc'[p] = [id |-> i, pc |-> "forked"]
          /\ \A q \in Pid : q # p => proc'[q] = proc[q]
          /\ jobs'[i] = [pid |-> p, state |-> "NOT_STARTED"]
          /\ \A k \in Id : k # i => jobs'[k] = jobs[k]
          /\ file' = file
      BY <1>1, <2>1 DEF Add, Table
    <3> QED
      BY <1>1, <3>1, <3>2 DEF OwnRecords
  <2>2. CASE AddFails(i)
    <3>1. /\ jobs'[i].pid = NoPid /\ file' = file /\ proc' = proc
          /\ \A k \in Id : k # i => jobs'[k] = jobs[k]
      BY <1>1, <2>2 DEF AddFails, Table
    <3> QED
      BY <1>1, <3>1, NoPidAssumption DEF OwnRecords
  <2>3. CASE Wipe(i)
    <3>1. \A k \in Id : jobs'[k] \in {NoJob, jobs[k]}
      BY <1>1, <2>3 DEF Wipe, Table
    <3>2. file' = file
          /\ \A p \in Pid : /\ proc'[p].id = proc[p].id
                            /\ proc[p].pc # "none" => proc'[p].pc # "none"
      BY <1>1, <1>2, <2>3 DEF Wipe, WaitedFor, Zombies, Goto, TypeOK
    <3> QED
      BY <1>1, <3>1, <3>2, RecordsStay
  <2>4. CASE ForceKill(i) \/ Kill(i)
    <3>1. jobs' = jobs /\ file' = file
          /\ \A p \in Pid : /\ proc'[p].id = proc[p].id
                            /\ proc[p].pc # "none" => proc'[p].pc # "none"
      BY <1>1, <1>2, <2>4 DEF ForceKill, Kill
    <3> QED
      BY <1>1, <3>1, RecordsStay
  <2> QED
    BY <1>7, <2>1, <2>2, <2>3, <2>4 DEF User
<1>8. ASSUME NEW p \in Pid,
             Job(p) \/ Periodic(p) \/ Finish(p) \/ AnswerDie(p) \/ Die(p)
      PROVE  OwnRecords'
  <2>1. file' = file /\ (jobs' = jobs \/ \E s \in State : Tell(p, s))
    BY <1>8, StatesAre
       DEF Job, Exec, TellNoExec, Create, InitJob, Hello, Beat, LastBeat,
           Shutdown, Delete, Periodic, Finish, AnswerDie, Die, Rest
  <2>2. \A i \in Id : \A r \in {jobs'[i], file'[i]} : r # NoJob =>
            \E old \in {jobs[i], file[i]} : old # NoJob /\ old.pid = r.pid
    BY <1>1, <2>1, TellKeepsPids
  <2>3. \E x : Goto(p, x) /\ x # "none"
    BY <1>2, <1>8
       DEF Job, Exec, TellNoExec, Create, InitJob, Hello, Beat, LastBeat,
           Shutdown, Delete, Periodic, Finish, AnswerDie, Die
  <2>4. \A q \in Pid : /\ proc'[q].id = proc[q].id
                       /\ proc[q].pc # "none" => proc'[q].pc # "none"
    BY <1>1, <2>3 DEF Goto
  <2> QED
    BY <1>1, <2>2, <2>4, RecordsStay
<1> QED
  BY <1>3, <1>4, <1>5, <1>6, <1>7, <1>8 DEF Next

LEMMA AlwaysRInv == Spec => []RInv
<1>1. Init => RInv
  BY InitIsGood, InitOwns DEF RInv
<1>2. RInv /\ [Next]_vars => RInv'
  BY StepIsGood, StepOwns DEF RInv
<1> QED
  BY <1>1, <1>2, PTL DEF Spec

\* How a step looks in the registry: first where processes go on and jobs may
\* turn out to be over, the processes' phases being all that it needs to know.
LEMMA PhasesAre ==
    /\ \A p \in Pid : Phase(p) \in Registry!Phase
    /\ \A p \in Pid : Phase(p) = "up" <=> proc[p].pc \in Coming
    /\ \A p \in Pid : Phase(p) = "leaving" <=> proc[p].pc \in Going
    /\ TypeOK => \A p \in Pid : Phase(p) = "dead" <=> proc[p].pc \in Dead
    /\ \A p \in Pid : Phase(p) = "unborn" <=> proc[p].pc = "none"
<1>1. "none" \notin Coming \cup Going /\ Coming \cap Going = {}
  BY PlacesAreDisjoint
<1>2. ASSUME TypeOK, NEW p \in Pid
      PROVE  Phase(p) = "dead" <=> proc[p].pc \in Dead
  <2>1. proc[p].pc \in Place
    BY <1>2 DEF TypeOK
  <2> QED
    BY <2>1 DEF Phase, Place, Coming, Going, Dead
<1> QED
  BY <1>1, <1>2 DEF Phase, Registry!Phase

LEMMA PhasesWillBe ==
    ASSUME TypeOK'
    PROVE  \A p \in Pid : /\ Phase(p)' \in Registry!Phase
                          /\ Phase(p)' = "up" <=> proc'[p].pc \in Coming
                          /\ Phase(p)' = "leaving" <=> proc'[p].pc \in Going
                          /\ Phase(p)' = "dead" <=> proc'[p].pc \in Dead
                          /\ Phase(p)' = "unborn" <=> proc'[p].pc = "none"
<1>1. "none" \notin Coming \cup Going /\ Coming \cap Going = {}
  BY PlacesAreDisjoint
<1>2. ASSUME NEW p \in Pid PROVE Phase(p)' = "dead" <=> proc'[p].pc \in Dead
  <2>1. proc'[p].pc \in Place
    BY DEF TypeOK
  <2> QED
    BY <2>1 DEF Phase, Place, Coming, Going, Dead
<1> QED
  BY <1>1, <1>2 DEF Phase, Registry!Phase

LEMMA SeenAsGoingOn ==
    ASSUME RInv, TypeOK', spoilt' = spoilt, NEW over \in SUBSET Id,
           \A i \in over :
               /\ Known[i] # NoJob
               /\ \/ Known[i].pid = NoPid
                  \/ /\ Known[i].pid \in Pid
                     /\ proc[Known[i].pid].pc \in Going \cup Dead,
           \A i \in Id : Life(Known[i])' =
               IF i \in over THEN "over" ELSE Life(Known[i]),
           \A i \in Id : Serves(Known[i])' = Serves(Known[i]),
           \A p \in Pid : Registry!Onward(Phase(p), Phase(p)')
    PROVE  Registry!ProcessesGoOn(over)
<1>1. TypeOK /\ over \subseteq Id
  BY DEF RInv, IInv
<1>2. \A i \in over : Life(Known[i]) # "free" /\ Serves(Known[i]) = Known[i].pid
  BY DEF Life, Serves
<1>3. \A i \in over : Registry!IsOver(i)
  <2> SUFFICES ASSUME NEW i \in over PROVE Registry!IsOver(i)
    OBVIOUS
  <2>1. CASE Known[i].pid = NoPid
    BY <1>1, <1>2, <2>1 DEF Registry!IsOver
  <2>2. CASE Known[i].pid \in Pid /\ proc[Known[i].pid].pc \in Going \cup Dead
    <3>1. Phase(Known[i].pid) \in {"leaving", "dead"}
      BY <1>1, <2>2, PhasesAre
    <3> QED
      BY <1>1, <1>2, <2>2, <3>1 DEF Registry!IsOver
  <2> QED
    BY <2>1, <2>2
<1>4. [i \in Id |-> Life(Known[i])]' =
        [i \in Id |-> IF i \in over THEN "over" ELSE [k \in Id |-> Life(Known[k])][i]]
  OBVIOUS
<1>5. [i \in Id |-> Serves(Known[i])]' = [i \in Id |-> Serves(Known[i])]
  OBVIOUS
<1>6. [p \in Pid |-> Phase(p)]' \in [Pid -> Registry!Phase]
  BY PhasesWillBe
<1>7. \A p \in Pid : Registry!Onward([q \in Pid |-> Phase(q)][p], [q \in Pid |-> Phase(q)]'[p])
  OBVIOUS
<1> QED
  BY <1>3, <1>4, <1>5, <1>6, <1>7 DEF Registry!ProcessesGoOn

\* A step that the table does not show.
LEMMA SeenAsQuiet ==
    ASSUME RInv, TypeOK', spoilt' = spoilt, Known' = Known,
           \A p \in Pid : Registry!Onward(Phase(p), Phase(p)')
    PROVE  Registry!Next
<1>1. Registry!ProcessesGoOn({})
  BY SeenAsGoingOn DEF Life, Serves
<1> QED
  BY <1>1 DEF Registry!Next

\* Processes go on from coming to going to dead.
Moves(p) ==
    \/ proc'[p].pc = proc[p].pc
    \/ proc[p].pc \in Coming /\ proc'[p].pc \in Coming \cup Going \cup Dead
    \/ proc[p].pc \in Going  /\ proc'[p].pc \in Going \cup Dead
    \/ proc[p].pc \in Dead   /\ proc'[p].pc \in Dead

LEMMA MovesAreOnward ==
    ASSUME TypeOK, TypeOK', NEW p \in Pid, Moves(p)
    PROVE  Registry!Onward(Phase(p), Phase(p)')
<1>1. \A q \in Pid :
        /\ Phase(q)' = "up" <=> proc'[q].pc \in Coming
        /\ Phase(q)' = "leaving" <=> proc'[q].pc \in Going
        /\ Phase(q)' = "dead" <=> proc'[q].pc \in Dead
        /\ Phase(q)' = "unborn" <=> proc'[q].pc = "none"
  BY PhasesWillBe
<1>2. CASE proc'[p].pc = proc[p].pc
  BY <1>2 DEF Registry!Onward, Phase
<1>3. CASE proc[p].pc \in Coming /\ proc'[p].pc \in Coming \cup Going \cup Dead
  BY <1>1, <1>3, PhasesAre DEF Registry!Onward
<1>4. CASE proc[p].pc \in Going /\ proc'[p].pc \in Going \cup Dead
  BY <1>1, <1>4, PhasesAre DEF Registry!Onward
<1>5. CASE proc[p].pc \in Dead /\ proc'[p].pc \in Dead
  BY <1>1, <1>5, PhasesAre DEF Registry!Onward
<1> QED
  BY <1>2, <1>3, <1>4, <1>5 DEF Moves

\* A job of which the table has just been told that it runs.
LEMMA SeenAsReport ==
    ASSUME RInv, TypeOK', ~spoilt, spoilt' = spoilt, NEW p \in Pid,
           proc[p].pc \in Coming, proc'[p].pc \in Coming,
           \A q \in Pid : q # p => proc'[q] = proc[q],
           \A i \in Id : i # proc[p].id => Known'[i] = Known[i],
           Known'[proc[p].id] = [Known[proc[p].id] EXCEPT !.state = "RUNNING"]
    PROVE  Registry!Reports(proc[p].id)
<1>1. Known \in Table /\ proc[p].id \in Id
  BY DEF RInv, IInv, TypeOK, Known
<1> PICK i \in Id : i = proc[p].id
  BY <1>1
<1>2. Known[i] # NoJob /\ Known[i].pid = p /\ Known[i].state \notin Terminated
  BY DEF RInv, IInv, NoOrphans, Bond, Alive
<1>3. Known[i] \in Record
  BY <1>1, <1>2 DEF Table
<1>4. Life(Known[i]) \in {"starting", "running"} /\ Serves(Known[i]) = p
  BY <1>2, <1>3 DEF Life, Serves, Record, State
<1>5. /\ Known'[i] \in Record /\ Known'[i] # NoJob
      /\ Known'[i].state = "RUNNING" /\ Known'[i].pid = Known[i].pid
  BY <1>3, StatesAre, NoJobAssumption DEF Record
<1>6. Life(Known[i])' = "running" /\ Serves(Known[i])' = Serves(Known[i])
  BY <1>2, <1>5 DEF Life, Serves
<1>7. \A k \in Id : /\ Life(Known[k])' = IF k = i THEN "running" ELSE Life(Known[k])
                    /\ Serves(Known[k])' = Serves(Known[k])
  BY <1>6 DEF Life, Serves
<1>8. Phase(p) = "up" /\ \A q \in Pid : Phase(q)' = Phase(q)
  <2>1. Phase(p) = "up" /\ Phase(p)' = "up"
    BY PhasesAre, PhasesWillBe
  <2> QED
    BY <2>1 DEF Phase
<1>9. [k \in Id |-> Life(Known[k])]' =
        [[k \in Id |-> Life(Known[k])] EXCEPT ![i] = "running"]
  BY <1>1, <1>7
<1>10. [k \in Id |-> Serves(Known[k])]' = [k \in Id |-> Serves(Known[k])]
  BY <1>7
<1>11. [q \in Pid |-> Phase(q)]' = [q \in Pid |-> Phase(q)]
  BY <1>8
<1> QED
  BY <1>1, <1>4, <1>8, <1>9, <1>10, <1>11 DEF Registry!Reports

\* What a process says is seen as a report, as the end of its job, or not at all.
LEMMA SeenWhenTold ==
    ASSUME RInv, TypeOK', ~spoilt, spoilt' = spoilt, file' = file,
           NEW p \in Pid, Alive(p), NEW x \in Coming \cup Going \cup Dead,
           Goto(p, x), Moves(p), NEW s \in State, Tell(p, s),
           \/ s \in Terminated /\ proc[p].pc \in Going
           \/ s = "RUNNING" /\ proc[p].pc \in Coming /\ x \in Coming
    PROVE  Registry!Next
<1> PICK i \in Id : i = proc[p].id
  BY DEF RInv, IInv, TypeOK
<1>1. /\ TypeOK /\ Known \in Table
      /\ Known[i] # NoJob /\ Known[i].pid = p /\ Known[i] \in Record
  <2>1. Known \in Table /\ Known[i] # NoJob /\ Known[i].pid = p
    BY DEF RInv, IInv, TypeOK, Known, NoOrphans
  <2> QED
    BY <2>1 DEF Table, RInv, IInv
<1>2. /\ \A q \in Pid : q # p => proc'[q] = proc[q]
      /\ proc'[p].pc = x
  BY <1>1 DEF TypeOK, Goto
<1>3. \A q \in Pid : Registry!Onward(Phase(q), Phase(q)')
  <2> SUFFICES ASSUME NEW q \in Pid PROVE Registry!Onward(Phase(q), Phase(q)')
    OBVIOUS
  <2>1. Moves(q)
    BY <1>2 DEF Moves
  <2> QED
    BY <1>1, <2>1, MovesAreOnward
<1>4. CASE jobs' = jobs /\ master' = master
  BY <1>3, <1>4, SeenAsQuiet DEF Known
<1>5. CASE master = "idle" /\ SetJobState(i, s)
  <2>1. /\ Known' = [Known EXCEPT ![i].state = s]
    BY <1>1, <1>5 DEF SetJobState, Known
  <2>2. /\ Known'[i] = [Known[i] EXCEPT !.state = s]
        /\ \A k \in Id : k # i => Known'[k] = Known[k]
    BY <1>1, <2>1 DEF Table
  <2>3. CASE s = "RUNNING" /\ proc[p].pc \in Coming /\ x \in Coming
    <3>1. Registry!Reports(i)
      BY <1>2, <2>2, <2>3, SeenAsReport
    <3> QED
      BY <1>1, <3>1 DEF Registry!Next
  <2>4. CASE s \in Terminated /\ proc[p].pc \in Going
    <3>1. /\ Known'[i] # NoJob /\ Known'[i].state = s /\ Known'[i].pid = p
      BY <1>1, <2>2, NoJobAssumption DEF Record
    <3>2. Life(Known[i])' = "over" /\ Serves(Known[i])' = Serves(Known[i])
      BY <1>1, <2>4, <3>1 DEF Life, Serves, Terminated
    <3>3. \A k \in Id : /\ Life(Known[k])' = IF k \in {i} THEN "over" ELSE Life(Known[k])
                        /\ Serves(Known[k])' = Serves(Known[k])
      BY <2>2, <3>2 DEF Life, Serves
    <3>4. Registry!ProcessesGoOn({i})
      BY <1>1, <1>3, <2>4, <3>3, SeenAsGoingOn
    <3> QED
      BY <1>1, <3>4 DEF Registry!Next
  <2> QED
    BY <2>3, <2>4
<1> QED
  BY <1>4, <1>5 DEF Tell

LEMMA SeenWhenQuiet ==
    ASSUME RInv, TypeOK', spoilt' = spoilt, Known' = Known,
           \A p \in Pid : Moves(p)
    PROVE  Registry!Next
<1>1. TypeOK
  BY DEF RInv, IInv
<1> QED
  BY <1>1, MovesAreOnward, SeenAsQuiet

LEMMA MasterIsSeen ==
    ASSUME RInv, TypeOK', ~spoilt', Start \/ Stop \/ Crash \/ Dump \/ KillTimesOut
    PROVE  Registry!Next
<1>1. TypeOK /\ DumpIsCurrent
  BY DEF RInv, IInv
<1>2. CASE Start \/ Dump \/ KillTimesOut
  <2>1. Known' = Known /\ proc' = proc /\ spoilt' = spoilt
    BY <1>1, <1>2 DEF Known, Start, Dump, KillTimesOut, TypeOK
  <2> QED
    BY <2>1, SeenWhenQuiet DEF Moves
<1>3. CASE Stop \/ Crash
  <2>1. Gone /\ Known' = Known /\ spoilt' = spoilt
    BY <1>1, <1>3 DEF Known, Stop, Crash, Gone, DumpIsCurrent, TypeOK
  <2>2. ASSUME NEW p \in Pid PROVE Moves(p)
    BY <2>1 DEF Moves, Gone, Dead
  <2> QED
    BY <2>1, <2>2, SeenWhenQuiet
<1> QED
  BY <1>2, <1>3

\* Jobs whose process has vanished turn out to be over, any number at a time.
LEMMA CheckIsSeen == ASSUME RInv, TypeOK', ~spoilt', Check PROVE Registry!Next
<1> DEFINE over == {i \in Id : /\ jobs[i] # NoJob /\ jobs[i].state \notin Terminated
                               /\ jobs[i].pid \in Pid /\ proc[jobs[i].pid].pc = "gone"}
<1>1. TypeOK /\ jobs \in Table /\ Known = jobs /\ Known' = jobs'
      /\ proc' = proc /\ spoilt' = spoilt
  BY DEF RInv, IInv, TypeOK, Known, Check
<1>2. PICK lost \in SUBSET Id : lost = over
  OBVIOUS
<1>3. \A i \in lost : /\ Known[i] # NoJob /\ Known[i].pid \in Pid
                      /\ proc[Known[i].pid].pc \in Dead
  BY <1>1, <1>2 DEF Dead
<1>4. ASSUME NEW i \in Id
      PROVE  /\ Life(Known[i])' = IF i \in lost THEN "over" ELSE Life(Known[i])
             /\ Serves(Known[i])' = Serves(Known[i])
  <2>1. CASE i \notin lost
    <3>1. Known'[i] = Known[i]
      BY <1>1, <1>2, <2>1 DEF Check
    <3> QED
      BY <2>1, <3>1 DEF Life, Serves
  <2>2. CASE i \in lost
    <3>1. /\ Known[i] \in Record /\ Known[i] # NoJob
          /\ Known'[i] = [Known[i] EXCEPT !.state = "TERMINATED_UNSUCCESSFULLY"]
      BY <1>1, <1>2, <2>2 DEF Check, Table
    <3>2. /\ Known'[i] # NoJob /\ Known'[i].pid = Known[i].pid
          /\ Known'[i].state = "TERMINATED_UNSUCCESSFULLY"
      BY <3>1, StatesAre, NoJobAssumption DEF Record
    <3> QED
      BY <2>2, <3>1, <3>2 DEF Life, Serves
  <2> QED
    BY <2>1, <2>2
<1>5. \A p \in Pid : Registry!Onward(Phase(p), Phase(p)')
  BY <1>1, MovesAreOnward DEF Moves
<1>6. Registry!ProcessesGoOn(lost)
  BY <1>1, <1>3, <1>4, <1>5, SeenAsGoingOn
<1> QED
  BY <1>6 DEF Registry!Next

LEMMA AddIsSeen ==
    ASSUME RInv, TypeOK', ~spoilt', NEW i \in Id, NEW p \in Pid, Add(i, p)
    PROVE  Registry!Next
<1> DEFINE r == [pid |-> p, state |-> "NOT_STARTED"]
<1>1. TypeOK /\ jobs \in Table /\ Known = jobs /\ Known' = jobs' /\ spoilt' = spoilt
  BY DEF RInv, IInv, TypeOK, Known, Add
<1>2. /\ Known[i] = NoJob /\ Known'[i] = r
      /\ \A k \in Id : k # i => Known'[k] = Known[k]
  BY <1>1 DEF Add, Table
<1>3. r # NoJob
  BY NoJobAssumption DEF Record, State
<1>4. /\ Life(Known[i]) = "free" /\ Life(Known[i])' = "starting"
      /\ Serves(Known[i])' = p
  BY <1>2, <1>3 DEF Life, Serves
<1>5. \A k \in Id : k # i => /\ Life(Known[k])' = Life(Known[k])
                             /\ Serves(Known[k])' = Serves(Known[k])
  BY <1>2 DEF Life, Serves
<1>6. /\ proc[p].pc = "none" /\ proc'[p].pc = "forked"
      /\ \A q \in Pid : q # p => proc'[q] = proc[q]
  BY <1>1 DEF Add, TypeOK
<1>7. Phase(p) = "unborn" /\ Phase(p)' = "up"
      /\ \A q \in Pid : q # p => Phase(q)' = Phase(q)
  BY <1>6 DEF Phase, Coming
<1>8. [k \in Id |-> Life(Known[k])]' = [[k \in Id |-> Life(Known[k])] EXCEPT ![i] = "starting"]
  BY <1>4, <1>5
<1>9. [k \in Id |-> Serves(Known[k])]' = [[k \in Id |-> Serves(Known[k])] EXCEPT ![i] = p]
  BY <1>4, <1>5
<1>10. [q \in Pid |-> Phase(q)]' = [[q \in Pid |-> Phase(q)] EXCEPT ![p] = "up"]
  BY <1>7
<1>11. Registry!Register(i, p)
  BY <1>1, <1>4, <1>7, <1>8, <1>9, <1>10 DEF Registry!Register
<1> QED
  BY <1>11 DEF Registry!Next

LEMMA AddFailsIsSeen ==
    ASSUME RInv, TypeOK', ~spoilt', NEW i \in Id, AddFails(i)
    PROVE  Registry!Next
<1> DEFINE r == [pid |-> NoPid, state |-> "TERMINATED_UNSUCCESSFULLY"]
<1>1. TypeOK /\ jobs \in Table /\ Known = jobs /\ Known' = jobs'
      /\ spoilt' = spoilt /\ proc' = proc
  BY DEF RInv, IInv, TypeOK, Known, AddFails
<1>2. /\ Known[i] = NoJob /\ Known'[i] = r
      /\ \A k \in Id : k # i => Known'[k] = Known[k]
  BY <1>1 DEF AddFails, Table
<1>3. r # NoJob
  BY StatesAre, NoJobAssumption DEF Record
<1>4. /\ Life(Known[i]) = "free" /\ Life(Known[i])' = "over"
      /\ Serves(Known[i])' = NoPid /\ Serves(Known[i]) = NoPid
  BY <1>2, <1>3 DEF Life, Serves
<1>5. \A k \in Id : k # i => /\ Life(Known[k])' = Life(Known[k])
                             /\ Serves(Known[k])' = Serves(Known[k])
  BY <1>2 DEF Life, Serves
<1>6. [k \in Id |-> Life(Known[k])]' = [[k \in Id |-> Life(Known[k])] EXCEPT ![i] = "over"]
  BY <1>4, <1>5
<1>7. [k \in Id |-> Serves(Known[k])]' = [k \in Id |-> Serves(Known[k])]
  BY <1>4, <1>5
<1>8. [q \in Pid |-> Phase(q)]' = [q \in Pid |-> Phase(q)]
  BY <1>1 DEF Phase
<1>9. Registry!RegisterInVain(i)
  BY <1>1, <1>4, <1>6, <1>7, <1>8 DEF Registry!RegisterInVain
<1> QED
  BY <1>9 DEF Registry!Next

\* The process of the record is gone, since none with this id is alive.
LEMMA WipeIsSeen ==
    ASSUME RInv, TypeOK', ~spoilt', NEW i \in Id, Wipe(i)
    PROVE  Registry!Next
<1>1. TypeOK /\ jobs \in Table /\ Known = jobs /\ Known' = jobs'
      /\ spoilt' = spoilt /\ \A p \in Pid : proc[p].id = i => ~Alive(p)
  BY DEF RInv, IInv, TypeOK, Known, Wipe
<1>2. /\ Known[i] # NoJob /\ Known[i] \in Record /\ Known[i].state \in Terminated
      /\ Known'[i] = NoJob
      /\ \A k \in Id : k # i => Known'[k] = Known[k]
  BY <1>1 DEF Wipe, Table
<1>3. /\ Life(Known[i]) = "over" /\ Life(Known[i])' = "free"
      /\ Serves(Known[i])' = NoPid /\ Serves(Known[i]) = Known[i].pid
  BY <1>2 DEF Life, Serves, Terminated
<1>4. \A k \in Id : k # i => /\ Life(Known[k])' = Life(Known[k])
                             /\ Serves(Known[k])' = Serves(Known[k])
  BY <1>2 DEF Life, Serves
<1>5. Known[i].pid = NoPid \/ (Known[i].pid \in Pid /\ Phase(Known[i].pid) = "dead")
  <2>1. CASE Known[i].pid \in Pid
    <3>1. proc[Known[i].pid].id = i /\ proc[Known[i].pid].pc # "none"
      BY <1>1, <1>2, <2>1 DEF RInv, OwnRecords
    <3>2. ~Alive(Known[i].pid)
      BY <1>1, <2>1, <3>1
    <3> QED
      BY <2>1, <3>1, <3>2 DEF Phase, Alive
  <2> QED
    BY <1>2, <2>1 DEF Record
<1>6. \A q \in Pid : Phase(q)' = Phase(q)
  <2> SUFFICES ASSUME NEW q \in Pid PROVE Phase(q)' = Phase(q)
    OBVIOUS
  <2>1. proc'[q].pc = proc[q].pc \/ (proc[q].pc = "zombie" /\ proc'[q].pc = "gone")
    BY <1>1 DEF Wipe, WaitedFor, Zombies, Goto, TypeOK
  <2> QED
    BY <2>1 DEF Phase, Coming, Going
<1>7. [k \in Id |-> Life(Known[k])]' = [[k \in Id |-> Life(Known[k])] EXCEPT ![i] = "free"]
  BY <1>3, <1>4
<1>8. [k \in Id |-> Serves(Known[k])]' = [[k \in Id |-> Serves(Known[k])] EXCEPT ![i] = NoPid]
  BY <1>3, <1>4
<1>9. [q \in Pid |-> Phase(q)]' = [q \in Pid |-> Phase(q)]
  BY <1>6
<1>10. Registry!Forget(i)
  BY <1>1, <1>3, <1>5, <1>7, <1>8, <1>9 DEF Registry!Forget
<1> QED
  BY <1>10 DEF Registry!Next

LEMMA KillIsSeen ==
    ASSUME RInv, TypeOK', ~spoilt', NEW i \in Id, ForceKill(i) \/ Kill(i)
    PROVE  Registry!Next
<1>1. TypeOK /\ Known' = Known /\ spoilt' = spoilt
  BY DEF RInv, IInv, TypeOK, Known, ForceKill, Kill
<1>2. ASSUME NEW p \in Pid PROVE Moves(p)
  BY <1>1, AtExitIsDead DEF Moves, ForceKill, Kill, Alive, TypeOK
<1> QED
  BY <1>1, <1>2, SeenWhenQuiet

\* A process that goes on without a word.
LEMMA SilenceIsSeen ==
    ASSUME RInv, TypeOK', NEW p \in Pid, UNCHANGED spoilt,
           Known' = Known, \E x : Goto(p, x), Moves(p)
    PROVE  Registry!Next
<1>1. TypeOK /\ \A q \in Pid : q # p => proc'[q] = proc[q]
  BY DEF RInv, IInv, TypeOK, Goto
<1>2. \A q \in Pid : Moves(q)
  BY <1>1 DEF Moves
<1> QED
  BY <1>2, SeenWhenQuiet

LEMMA JobIsSeen ==
    ASSUME RInv, TypeOK', ~spoilt', NEW p \in Pid,
           Job(p) \/ Periodic(p) \/ Finish(p) \/ AnswerDie(p) \/ Die(p)
    PROVE  Registry!Next
<1> USE AtExitIsDead, StatesAre
<1>1. TypeOK /\ proc \in [Pid -> [id : Id, pc : Place]]
  BY DEF RInv, IInv, TypeOK
<1>2. CASE Exec(p) \/ Create(p) \/ InitJob(p) \/ Delete(p) \/ Periodic(p)
           \/ Finish(p) \/ AnswerDie(p) \/ Die(p)
  <2>1. Known' = Known /\ UNCHANGED spoilt
    BY <1>2 DEF Exec, Create, InitJob, Delete, Periodic, Finish, AnswerDie, Die,
                Known, Rest
  <2>2. \E x : Goto(p, x)
    BY <1>2 DEF Exec, Create, InitJob, Delete, Periodic, Finish, AnswerDie, Die
  <2>3. Moves(p)
    BY <1>1, <1>2 DEF Exec, Create, InitJob, Delete, Periodic, Finish, AnswerDie,
                      Die, Moves, Goto, Alive, Coming, Going
  <2> QED
    BY <2>1, <2>2, <2>3, SilenceIsSeen
<1>3. CASE Hello(p) \/ Beat(p)
  <2>1. /\ Alive(p) /\ Goto(p, "run") /\ Tell(p, "RUNNING")
        /\ proc[p].pc \in Coming /\ "run" \in Coming
        /\ UNCHANGED <<spoilt, file>>
    BY <1>3 DEF Hello, Beat, Alive, Coming, Rest
  <2>2. Moves(p)
    BY <1>1, <2>1 DEF Moves, Goto
  <2> QED
    BY <2>1, <2>2, SeenWhenTold
<1>4. CASE TellNoExec(p) \/ LastBeat(p) \/ Shutdown(p)
  <2>1. PICK x \in Going \cup Dead : Goto(p, x)
    BY <1>4 DEF TellNoExec, LastBeat, Shutdown, Going
  <2>2. PICK s \in Terminated : Tell(p, s)
    BY <1>4 DEF TellNoExec, LastBeat, Shutdown
  <2>3. proc[p].pc \in Going /\ Alive(p) /\ UNCHANGED <<spoilt, file>>
    BY <1>4 DEF TellNoExec, LastBeat, Shutdown, Going, Alive, Rest
  <2>4. Moves(p)
    BY <1>1, <2>1, <2>3 DEF Moves, Goto
  <2> QED
    BY <2>1, <2>2, <2>3, <2>4, SeenWhenTold
<1> QED
  BY <1>2, <1>3, <1>4 DEF Job

LEMMA StepIsSeen ==
    ASSUME RInv, RInv', [Next]_vars
    PROVE  [Registry!Next]_(Registry!registry)
<1>1. TypeOK'
  BY DEF RInv, IInv
<1>2. CASE spoilt'
  <2>1. Registry!NoMorePromises
    BY <1>2 DEF Registry!NoMorePromises
  <2> QED
    BY <2>1 DEF Registry!Next
<1>3. CASE ~spoilt' /\ Next
  BY <1>1, <1>3, MasterIsSeen, CheckIsSeen, AddIsSeen, AddFailsIsSeen, WipeIsSeen,
     KillIsSeen, JobIsSeen DEF Next, User
<1>4. CASE UNCHANGED vars
  BY <1>4 DEF vars, Registry!registry, Known, Phase
<1> QED
  BY <1>2, <1>3, <1>4

LEMMA InitIsSeen == Init => Registry!Init
BY DEF Init, Registry!Init, Known, Empty, Life, Serves, Phase

\* The master with its restarts, its dump, lost calls, late heartbeats and
\* processes that die implements the registry in which none of these is seen.
THEOREM MasterKeepsRegistry == Spec => KeepsRegistry
<1>1. RInv /\ RInv' /\ [Next]_vars => [Registry!Next]_(Registry!registry)
  BY StepIsSeen
<1> QED
  BY <1>1, InitIsSeen, AlwaysRInv, PTL DEF Spec, KeepsRegistry, Registry!Spec
=============================================================================
