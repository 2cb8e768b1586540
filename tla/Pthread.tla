------------------------------- MODULE Pthread -------------------------------
(***************************************************************************)
(* The part of POSIX threads the messenger relies on.  A mutex is a        *)
(* variable that names its owner.  A condition variable is the set of the  *)
(* threads asleep on it: each waiting thread has a wait state, and a       *)
(* thread that left the wait set still has to get the mutex back before    *)
(* pthread_cond_timedwait returns.                                         *)
(***************************************************************************)

\* awake:     not in pthread_cond_timedwait
\* asleep:    in the wait set, mutex released
\* signalled: woken (or spuriously awake), wants the mutex back
\* expired:   the deadline has passed, wants the mutex back; the call will
\*            return ETIMEDOUT even if a signal arrived meanwhile
WaitState == {"awake", "asleep", "signalled", "expired"}

\* The thread has left the wait set and competes for the mutex.
Returning(s) == s \in {"signalled", "expired"}

\* What pthread_cond_signal does to the only thread that waits.
Signalled(s) == IF s = "asleep" THEN "signalled" ELSE s

\* pthread_cond_signal on a condition several threads may wait on: it wakes
\* one of them, and which one is not specified.
CondSignal(waits) ==
    LET asleep == {t \in DOMAIN waits : waits[t] = "asleep"}
    IN  IF asleep = {} THEN {waits}
        ELSE {[waits EXCEPT ![t] = "signalled"] : t \in asleep}

\* pthread_cond_broadcast wakes all of them.
CondBroadcast(waits) == [t \in DOMAIN waits |-> Signalled(waits[t])]
=============================================================================
