-------------------------- MODULE RenderEnvironments -------------------------
(***************************************************************************)
(* The frame buffers of a GL job, least recently used last, and what a     *)
(* snapshot does with them.                                                *)
(***************************************************************************)
EXTENDS Naturals, Sequences, SequencesExt, Functions, FiniteSetsExt

CONSTANTS Samples,          \* per pixel; more than 1 needs a second buffer
          MaxEnvironments   \* 10 in the code

ASSUME EnvironmentsAssumption == MaxEnvironments \in Nat \ {0} /\ Samples \in Nat

VARIABLES environments,     \* m_environments
          target            \* those that the last snapshot was rendered with
job == <<environments, target>>

\* Width and height are bumped up to a power of two.
PowerOfTwo(n) == CHOOSE p \in {1, 2, 4, 8, 16} : p >= n /\ (p = 1 \/ p \div 2 < n)
Key(size, samples) == <<PowerOfTwo(size), samples>>

\* The first one that fits is moved to the front.
Found(key, list) ==
    LET at == CHOOSE i \in DOMAIN list :
                /\ list[i] = key
                /\ \A j \in DOMAIN list : list[j] = key => i <= j
    IN  <<key>> \o RemoveAt(list, at)

\* MUTANT of Shortened: the list is cut at the front.
ShortenedAtFront(list) ==
    SubSeq(list, Len(list) - Min({Len(list), MaxEnvironments}) + 1, Len(list))

\* What is left after the least recently used have been deleted, which comes
\* before the new one is made: one more than the limit can be there in the end.
Shortened(list) == SubSeq(list, 1, Min({Len(list), MaxEnvironments}))

RenderEnvironment(key, list) ==
    IF key \in Range(list) THEN Found(key, list) ELSE <<key>> \o Shortened(list)

\* onGetSnapshot.  With several samples the picture is copied to a second
\* environment, whose creation must not delete the first.
First(size) == RenderEnvironment(Key(size, Samples), environments)
Render(size) ==
    LET key == Key(size, Samples)  copy == Key(size, 1)
    IN  IF Samples > 1
        THEN /\ environments' = RenderEnvironment(copy, First(size))
             /\ target' = {key, copy}
        ELSE environments' = First(size) /\ target' = {key}

\* One of the two cannot be made; the list has been shortened all the same.
RenderFails(size) ==
    /\ target' = {}
    /\ \/ /\ Key(size, Samples) \notin Range(environments)
          /\ environments' = Shortened(environments)
       \/ /\ Samples > 1 /\ Key(size, 1) \notin Range(First(size))
          /\ environments' = Shortened(First(size))

EnvironmentsInit == environments = <<>> /\ target = {}

-----------------------------------------------------------------------------

\* The buffers that a snapshot was drawn into and is read from are still there,
\* no buffer is in the list twice, and the list does not grow.
RendersIntoLive ==
    /\ target \subseteq Range(environments)
    /\ IsInjective(environments)
    /\ Len(environments) <= MaxEnvironments + 1
=============================================================================
