------------------------------- MODULE IpcCall -------------------------------
(***************************************************************************)
(* What the messenger promises to those who call it, without locks, parts  *)
(* or waits: "a single client has exclusive ownership of the server" while *)
(* a request is processed (ipc_msg.h).  A call that owns the server is     *)
(* carried out at most once, and only while it owns it; it succeeds only   *)
(* if it was carried out, and then with its own answer; it may fail at any *)
(* time, and a caller that was told so will not see its request carried    *)
(* out later.                                                              *)
(***************************************************************************)
EXTENDS Integers

CONSTANTS Client, MaxCalls

VARIABLES call,       \* calls made by each client
          outcome,    \* how its last call stands
          owner,      \* the client whose request is being processed
          executed    \* how often each request was carried out

Id == Client \X (1..MaxCalls)

Init ==
    /\ call = [c \in Client |-> 0]
    /\ outcome = [c \in Client |-> "none"]
    /\ owner = "none"
    /\ executed = [i \in Id |-> 0]

Issue(c) ==
    /\ outcome[c] # "pending"
    /\ call[c] < MaxCalls
    /\ call' = [call EXCEPT ![c] = @ + 1]
    /\ outcome' = [outcome EXCEPT ![c] = "pending"]
    /\ UNCHANGED <<owner, executed>>

Acquire(c) ==
    /\ owner = "none" /\ outcome[c] = "pending"
    /\ owner' = c
    /\ UNCHANGED <<call, outcome, executed>>

Execute(c) ==
    /\ owner = c
    /\ executed[<<c, call[c]>>] = 0
    /\ executed' = [executed EXCEPT ![<<c, call[c]>>] = 1]
    /\ UNCHANGED <<call, outcome, owner>>

Succeed(c) ==
    /\ owner = c
    /\ executed[<<c, call[c]>>] = 1
    /\ outcome' = [outcome EXCEPT ![c] = "ok"]
    /\ owner' = "none"
    /\ UNCHANGED <<call, executed>>

Fail(c) ==
    /\ outcome[c] = "pending"
    /\ outcome' = [outcome EXCEPT ![c] = "failed"]
    /\ owner' = IF owner = c THEN "none" ELSE owner
    /\ UNCHANGED <<call, executed>>

Next == \E c \in Client : \/ Issue(c) \/ Acquire(c) \/ Execute(c)
                          \/ Succeed(c) \/ Fail(c)

Spec == Init /\ [][Next]_<<call, outcome, owner, executed>>
=============================================================================
