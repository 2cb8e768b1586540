----------------------------- MODULE JobRegistry -----------------------------
(***************************************************************************)
(* What the master promises to those who use it: a registry of jobs that   *)
(* outlives the master.  There is no master in it, no dump, no message and *)
(* no segment: a restart of the master, a call that is lost and a heartbeat *)
(* that comes late are nothing that it would show.                         *)
(*                                                                         *)
(* An id is free, or its job is starting, running or over, in that order.  *)
(* It belongs to one process until it is free again, and is free again     *)
(* only when that process is gone.  A job is over only if its process has  *)
(* left its mainloop or never was.                                         *)
(***************************************************************************)
CONSTANTS Id, Pid, NoPid

VARIABLES life,      \* of each id: "free", "starting", "running" or "over"
          serves,    \* the process that is this job
          phase,     \* how far each process is
          trusted    \* does the registry still keep its promise?

registry == <<life, serves, phase, trusted>>

Phase == {"unborn", "up", "leaving", "dead"}

Init ==
    /\ life = [i \in Id |-> "free"]
    /\ serves = [i \in Id |-> NoPid]
    /\ phase = [p \in Pid |-> "unborn"]
    /\ trusted = TRUE

\* A process of its own for an id that is free.
Register(i, p) ==
    /\ life[i] = "free" /\ phase[p] = "unborn"
    /\ life' = [life EXCEPT ![i] = "starting"]
    /\ serves' = [serves EXCEPT ![i] = p]
    /\ phase' = [phase EXCEPT ![p] = "up"]
    /\ UNCHANGED trusted

\* No process could be made: the job is over before it began.
RegisterInVain(i) ==
    /\ life[i] = "free"
    /\ life' = [life EXCEPT ![i] = "over"]
    /\ UNCHANGED <<serves, phase, trusted>>

\* The first sign of life, or another.
Reports(i) ==
    /\ life[i] \in {"starting", "running"}
    /\ serves[i] \in Pid /\ phase[serves[i]] = "up"
    /\ life' = [life EXCEPT ![i] = "running"]
    /\ UNCHANGED <<serves, phase, trusted>>

\* A process may leave its mainloop, and may be gone, at any time.
Onward(old, new) == \/ new = old
                    \/ old = "up" /\ new \in {"leaving", "dead"}
                    \/ old = "leaving" /\ new = "dead"

\* Its job is over when it has left, said so, or was found out; that may be
\* the moment in which it goes.
IsOver(i) ==
    /\ life[i] # "free"
    /\ serves[i] = NoPid \/ phase[serves[i]] \in {"leaving", "dead"}

ProcessesGoOn(over) ==
    /\ \A i \in over : IsOver(i)
    /\ life' = [i \in Id |-> IF i \in over THEN "over" ELSE life[i]]
    /\ phase' \in [Pid -> Phase]
    /\ \A p \in Pid : Onward(phase[p], phase'[p])
    /\ UNCHANGED <<serves, trusted>>

\* A job that is over is forgotten, with a process that is gone.
Forget(i) ==
    /\ life[i] = "over"
    /\ serves[i] = NoPid \/ phase[serves[i]] = "dead"
    /\ life' = [life EXCEPT ![i] = "free"]
    /\ serves' = [serves EXCEPT ![i] = NoPid]
    /\ UNCHANGED <<phase, trusted>>

\* What the master does not promise: a dump that was cut short, a job that was
\* wiped with its last words still to come.
NoMorePromises == trusted' = FALSE

Next ==
    \/ \E i \in Id : \/ \E p \in Pid : Register(i, p)
                     \/ RegisterInVain(i) \/ Reports(i) \/ Forget(i)
    \/ \E over \in SUBSET Id : ProcessesGoOn(over)
    \/ NoMorePromises

Spec == Init /\ [][Next]_registry
=============================================================================
