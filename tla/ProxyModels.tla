----------------------------- MODULE ProxyModels -----------------------------
(***************************************************************************)
(* The proxy models of a canvas: a snapshot and its depth buffer become    *)
(* two textures that are drawn, from another direction, until newer ones   *)
(* have come.  The two images of a model load in any order, and one model  *)
(* is loaded at a time; a coverage strategy decides which models are kept. *)
(*                                                                         *)
(* What a texture shows is the revision of its snapshot, 0 is no texture;  *)
(* of a model in use only whether its two textures go together.            *)
(* Directions and distances are not modelled: wherever the code compares   *)
(* them, either outcome is possible.  The locks for debugging are left out.*)
(***************************************************************************)
EXTENDS Naturals, Functions

CONSTANT RingSize   \* 5 or 2 in the code; 0 is the strategy without a ring

ASSUME RingSizeAssumption == RingSize \in Nat

VARIABLES
    being,      \* _proxyModelBeingProcessed
    loads,      \* the images that are being decoded for it
    ring,       \* proxyModelRing
    cursor,     \* _depthRingCursor
    recent,     \* mostRecentModel
    algorithm   \* ap_autoProxyAlgo

proxies == <<being, loads, ring, cursor, recent, algorithm>>

RingSlot  == 0 .. RingSize - 1
Algorithm == {"AngleCoverage", "ReplOldestWhnDiff", "ReplaceOldest"}

\* state 0: not in use, 1: loading, 2: complete.
NewModel == [state |-> 0, rgb |-> 0, depth |-> 0]
Load(part, r) == [part |-> part, rev |-> r]

\* A model as a strategy keeps it.
Unused == "unused"
Kept(m) == IF m.rgb = m.depth THEN "whole" ELSE "torn"

\* _initProxyCoverage: a new coverage object.
NewCoverage(a) ==
    /\ algorithm' = a
    /\ ring' = [i \in RingSlot |-> Unused]
    /\ cursor' = 0
    /\ recent' = Unused

ProxyInit ==
    /\ being = NewModel /\ loads = {}
    /\ algorithm = "AngleCoverage" /\ cursor = 0
    /\ ring = [i \in RingSlot |-> Unused] /\ recent = Unused

-----------------------------------------------------------------------------

\* MUTANT of SetDepthData: the newer snapshot takes the place of the older.
SetDepthDataAlways(r, hasDepth) ==
    IF hasDepth
    THEN /\ being' = [being EXCEPT !.state = 1]
         /\ loads' = loads \cup {Load("depth", r), Load("rgb", r)}
         /\ UNCHANGED <<ring, cursor, recent, algorithm>>
    ELSE UNCHANGED proxies

\* ProxyModel.setAll: a snapshot without a depth buffer is not for us.
SetAll(r, hasDepth) ==
    IF hasDepth
    THEN /\ being' = [being EXCEPT !.state = 1]
         /\ loads' = {Load("depth", r), Load("rgb", r)}
         /\ UNCHANGED <<ring, cursor, recent, algorithm>>
    ELSE UNCHANGED proxies

\* ProxyRenderer.setDepthData: one at a time, others are dropped.
SetDepthData(r, hasDepth) ==
    IF being.state = 0 THEN SetAll(r, hasDepth) ELSE UNCHANGED proxies

\* The onload of one of the two images; the second completes the model.
ImageLoaded(l) ==
    /\ l \in loads
    /\ loads' = loads \ {l}
    /\ LET m == [being EXCEPT ![l.part] = l.rev]
       IN  being' = IF m.rgb # 0 /\ m.depth # 0 THEN [m EXCEPT !.state = 2] ELSE m
    /\ UNCHANGED <<ring, cursor, recent, algorithm>>

\* There is no onerror: the model stays in state 1.
ImageFails(l) ==
    /\ l \in loads
    /\ loads' = loads \ {l}
    /\ UNCHANGED <<being, ring, cursor, recent, algorithm>>

-----------------------------------------------------------------------------
(* The coverage strategies.                                                *)

NextSlot == (cursor + 1) % RingSize
PutAt(i, m) == cursor' = i /\ ring' = [ring EXCEPT ![i] = m]

\* An empty slot is used, unless the cursor has passed it; otherwise the slot
\* whose replacement covers more directions, or is a closer look, if any is.
OptimizeCoverage(m) ==
    /\ recent' = m
    /\ IF RingSize = 0 THEN UNCHANGED <<ring, cursor>>
       ELSE IF ring[NextSlot] = Unused THEN PutAt(NextSlot, m)
       ELSE \/ cursor' = NextSlot /\ UNCHANGED ring
            \/ \E i \in RingSlot : PutAt(i, m)

ReplaceOldestWhenDifferent(m) ==
    /\ \/ PutAt(NextSlot, m)
       \/ ring[cursor] # Unused /\ UNCHANGED <<ring, cursor>>
    /\ UNCHANGED recent

ReplaceOldest(m) == PutAt(NextSlot, m) /\ UNCHANGED recent

ProcessDepthData(m) ==
    CASE algorithm = "AngleCoverage"     -> OptimizeCoverage(m)
      [] algorithm = "ReplOldestWhnDiff" -> ReplaceOldestWhenDifferent(m)
      [] algorithm = "ReplaceOldest"     -> ReplaceOldest(m)

\* MUTANT of InsertModel: the renderer goes on with the object it has inserted.
InsertModelKeeps ==
    /\ being.state = 2
    /\ ProcessDepthData(Kept(being))
    /\ UNCHANGED <<being, loads, algorithm>>

\* renderMain, the part that looks at the model being processed.
InsertModel ==
    /\ being.state = 2
    /\ ProcessDepthData(Kept(being))
    /\ being' = NewModel
    /\ UNCHANGED <<loads, algorithm>>

\* renderMain, ap_invalidateAllModels: not the most recent, nor the one that
\* is still loading.
InvalidateAllModels ==
    /\ ring' = [i \in RingSlot |-> Unused]
    /\ UNCHANGED <<being, loads, cursor, recent, algorithm>>

-----------------------------------------------------------------------------

ProxyType(R) ==
    /\ being \in [state : 0 .. 2, rgb : R, depth : R]
    /\ loads \subseteq [part : {"rgb", "depth"}, rev : R]
    /\ ring \in [RingSlot -> {Unused, "whole", "torn"}]
    /\ recent \in {Unused, "whole", "torn"}
    /\ cursor \in RingSlot \cup {0} /\ algorithm \in Algorithm

\* The colours and the depths of what is drawn are of the same snapshot: no later
\* one has overwritten half of it.
ProxiesAreWhole == "torn" \notin Range(ring) \cup {recent}
=============================================================================
