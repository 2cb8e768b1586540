-------------------------- MODULE RenderList_proofs --------------------------
(***************************************************************************)
(* That neither client draws what the database does not have, and that     *)
(* both draw all of its order.  The properties speak of a client that has  *)
(* reached a revision; the invariant says of every item what a client at   *)
(* its revision, and every answer that is on its way to a browser, has     *)
(* made or will make of it.                                                *)
(***************************************************************************)
EXTENDS RenderList, FiniteSetTheorems, TLAPS

Linked == {a \in Actions : Kind[a] \in {"SetShader", "SetUniforms"}}
HasItsShader(a) == a \in HasShader => rev[ShaderOf[a]] > 0

\* The database.
Counts ==
    /\ nextId \in Nat /\ current \in Nat /\ processRev \in Nat /\ drawOrderRev \in Nat
    /\ processRev <= current /\ drawOrderRev <= current
    /\ rev \in [Id -> Nat] /\ val \in [Id -> Nat]
    /\ order \in Seq(Actions) /\ missed \subseteq Actions
Items ==
    \A i \in Id : /\ rev[i] <= current /\ val[i] <= rev[i]
                  /\ rev[i] > 0 => val[i] > 0 /\ i < nextId
Order == \A j \in DOMAIN order : rev[order[j]] > 0
Processed ==
    Fresh => /\ \A a \in Actions : rev[a] > 0 /\ a \notin missed => ~Due(a)
             /\ \A j \in DOMAIN order : HasItsShader(order[j])

\* What a client has made is made of what the database has, if the client has
\* reached the revisions of both, ...
IsMade(made, n) ==
    \A a \in Linked :
        /\ 0 < rev[a] /\ rev[a] <= n /\ a \notin missed
        /\ 0 < rev[ShaderOf[a]] /\ rev[ShaderOf[a]] <= n
        => a \in made
\* ... and so are the buffers that its actions use ready.
IsReady(ready, n) ==
    \A a \in Actions :
        /\ 0 < rev[a] /\ rev[a] <= n /\ a \notin missed /\ HasItsShader(a)
        /\ \A b \in BuffersOf[a] : 0 < rev[b] /\ rev[b] <= n
        => BuffersOf[a] \subseteq ready

\* The renderer.
Native ==
    /\ native.rev \in Nat /\ native.rev <= current
    /\ native.item \in [Id -> Nat] /\ native.order \in Seq(Actions)
    /\ \A i \in Id : 0 < rev[i] /\ rev[i] <= native.rev => native.item[i] = val[i]
    /\ IsMade(native.made, native.rev)
    /\ drawOrderRev <= native.rev => IsPartOf(order, native.order)

\* A browser.
WebType ==
    /\ web.rev \in Nat /\ web.rev <= current
    /\ web.item \in [Id -> Nat] /\ web.order \in Seq(Actions)
    /\ web.code.rev \in Nat /\ web.code.rev <= current
    /\ web.code.order \in Seq(Actions)
Unknown(x) == x \notin Actions /\ rev[x] > 0 /\ web.item[x] = 0
WebItems ==
    /\ \A i \in Id : rev[i] > 0 /\ val[i] <= web.rev /\ HasItsShader(i)
                     => web.item[i] = val[i]
    /\ \A x \in Id : Unknown(x) =>
          \A j \in Id : x <= j /\ rev[j] > 0 => web.rev < val[j]
WebMade == IsMade(web.made, web.rev) /\ IsReady(web.ready, web.rev)
WebOrder ==
    /\ drawOrderRev <= web.rev =>
          /\ IsPartOf(order, web.order)
          /\ \A j \in DOMAIN order : web.item[order[j]] > 0
    /\ drawOrderRev <= web.code.rev => IsPartOf(order, web.code.order)

\* An answer, as it is when it comes ...
AnswerType(e) ==
    /\ e.from \in Nat /\ e.to \in Nat /\ e.from <= e.to /\ e.to <= current
    /\ e.from <= web.rev
    /\ DOMAIN e.items \subseteq {i \in Id : i < nextId}
    /\ \A i \in DOMAIN e.items : e.items[i] \in Nat /\ 0 < e.items[i] /\ e.items[i] <= e.to
    /\ e.newOrder \in BOOLEAN /\ e.order \in Seq(Actions)
AnswerItems(e) ==
    \A i \in Id : rev[i] > 0 =>
        /\ i \in DOMAIN e.items =>
              e.from < rev[i] /\ (val[i] <= e.to => e.items[i] = val[i])
        /\ i \notin DOMAIN e.items /\ val[i] <= e.to => val[i] <= e.from
AnswerMade(e) ==
    \A a \in Actions :
        /\ a \notin DOMAIN e.items /\ 0 < rev[a] /\ rev[a] <= e.to /\ a \notin missed
        /\ \A x \in RefreshedBy(a) : 0 < rev[x] /\ rev[x] <= e.to
        => /\ rev[a] <= e.from
           /\ \A x \in RefreshedBy(a) : rev[x] <= e.from /\ x \notin DOMAIN e.items
AnswerOrder(e) ==
    drawOrderRev <= e.to =>
        IF e.newOrder THEN IsPartOf(order, e.order) ELSE drawOrderRev <= e.from

\* ... to a browser that is still where it asked from.
Comes(e, x) == x \in DOMAIN e.items \/ web.item[x] > 0
AnswerComplete(e) ==
    e.from = web.rev =>
        /\ \A x \in Id : Unknown(x) /\ x \notin DOMAIN e.items =>
              \A j \in Id : x <= j =>
                  j \notin DOMAIN e.items /\ (rev[j] > 0 => e.to < val[j])
        /\ drawOrderRev <= e.to =>
              \A j \in DOMAIN order :
                  IF order[j] \in DOMAIN e.items
                  THEN order[j] \in HasShader => Comes(e, ShaderOf[order[j]])
                  ELSE web.item[order[j]] > 0

Answer(e) ==
    /\ AnswerType(e) /\ AnswerItems(e) /\ AnswerMade(e) /\ AnswerOrder(e)
    /\ AnswerComplete(e)
Message(m) ==
    \/ m = Idle
    \/ /\ m.kind = "request" /\ m = [kind |-> "request", from |-> m.from]
       /\ m.from \in Nat /\ m.from <= web.rev
    \/ m.kind = "answer" /\ m = [kind |-> "answer", it |-> m.it] /\ Answer(m.it)
Net == DOMAIN net = Slot /\ \A s \in Slot : Message(net[s])

DInv == Counts /\ Items /\ Order /\ Processed
WInv == ~overtaken => WebType /\ WebItems /\ WebMade /\ WebOrder /\ Net
LInv == DInv /\ Native /\ WInv
-----------------------------------------------------------------------------
(* What is kept of a sequence.                                             *)

\* The rank of a place is within the number of places, and grows with it.
LEMMA RankGrows ==
    ASSUME NEW S \in SUBSET Nat, IsFiniteSet(S), NEW j \in S
    PROVE  /\ Cardinality(S) \in Nat /\ RankIn(S, j) \in 1 .. Cardinality(S)
           /\ \A k \in S : j < k => RankIn(S, j) < RankIn(S, k)
           /\ RankIn(S, j) = Cardinality(S) => \A k \in S : k <= j
<1> DEFINE UpTo(k) == {i \in S : i <= k}
<1>1. Cardinality(S) \in Nat
  BY FS_CardinalityType
<1>2. \A k \in S : /\ IsFiniteSet(UpTo(k)) /\ Cardinality(UpTo(k)) \in Nat
                   /\ Cardinality(UpTo(k)) <= Cardinality(S)
                   /\ Cardinality(UpTo(k)) = Cardinality(S) => UpTo(k) = S
  BY FS_Subset, FS_CardinalityType
<1>3. Cardinality(UpTo(j)) # 0
  BY <1>2, FS_EmptySet
<1>4. ASSUME NEW k \in S, j < k
      PROVE  Cardinality(UpTo(j)) < Cardinality(UpTo(k))
  <2>1. UpTo(j) \subseteq UpTo(k)
    <3> SUFFICES ASSUME NEW i \in S, i <= j
                 PROVE  i <= k
      OBVIOUS
    <3> QED BY <1>4
  <2>2. UpTo(j) # UpTo(k)
    BY <1>4
  <2>3. /\ Cardinality(UpTo(j)) <= Cardinality(UpTo(k))
        /\ Cardinality(UpTo(k)) = Cardinality(UpTo(j)) => UpTo(k) = UpTo(j)
    <3> HIDE DEF UpTo
    <3> QED BY <2>1, <1>2, FS_Subset
  <2> HIDE DEF UpTo
  <2> QED BY <1>2, <2>2, <2>3
<1>5. Cardinality(UpTo(j)) = Cardinality(S) => \A k \in S : k <= j
  BY <1>2
<1>6. \A k \in S : RankIn(S, k) = Cardinality(UpTo(k))
  BY DEF RankIn
<1> HIDE DEF UpTo
<1> QED BY <1>1, <1>2, <1>3, <1>4, <1>5, <1>6

\* Every rank is that of some place, and of no other.
LEMMA RankIsReached ==
    ASSUME NEW S \in SUBSET Nat, IsFiniteSet(S), NEW n \in 1 .. Cardinality(S)
    PROVE  \E j \in S : RankIn(S, j) = n
<1> DEFINE f == [j \in S |-> RankIn(S, j)]
           N == Cardinality(S)
<1>1. N \in Nat /\ IsFiniteSet(1 .. N) /\ Cardinality(1 .. N) = N
  BY FS_CardinalityType, FS_Interval
<1>2. \A j \in S : RankIn(S, j) \in 1 .. N
  BY RankGrows
<1>3. ASSUME NEW j \in S, NEW k \in S, RankIn(S, j) = RankIn(S, k)
      PROVE  j = k
  <2>1. j < k => RankIn(S, j) < RankIn(S, k)
    BY RankGrows
  <2>2. k < j => RankIn(S, k) < RankIn(S, j)
    BY RankGrows
  <2> QED BY <1>2, <1>3, <2>1, <2>2, <1>1
<1>4. f \in Injection(S, 1 .. N)
  BY <1>2, <1>3 DEF Injection, IsInjective
<1>5. f \in Surjection(S, 1 .. N)
  <2> HIDE DEF f
  <2> QED BY <1>1, <1>4, FS_Injection
<1> QED BY <1>5 DEF Surjection

\* A finite set of numbers with something in it has a largest.
LEMMA MaxIsLargest ==
    ASSUME NEW S \in SUBSET Nat, IsFiniteSet(S), S # {}
    PROVE  Max(S) \in S /\ \A x \in S : x <= Max(S)
<1>1. Cardinality(S) \in Nat /\ Cardinality(S) # 0
  BY FS_CardinalityType, FS_EmptySet
<1>2. PICK j \in S : RankIn(S, j) = Cardinality(S)
  BY <1>1, RankIsReached
<1>3. \A x \in S : x <= j
  BY <1>2, RankGrows
<1>4. \E m \in S : \A x \in S : m >= x
  BY <1>3
<1> QED BY <1>4 DEF Max

\* Places of a sequence are finitely many numbers.
LEMMA PlacesAreFinite ==
    ASSUME NEW A, NEW s \in Seq(A), NEW S \in SUBSET DOMAIN s
    PROVE  IsFiniteSet(S) /\ Cardinality(S) \in Nat /\ S \in SUBSET Nat
<1>1. Len(s) \in Nat /\ DOMAIN s = 1 .. Len(s)
  OBVIOUS
<1>2. IsFiniteSet(1 .. Len(s))
  BY <1>1, FS_Interval
<1>3. S \in SUBSET (1 .. Len(s))
  BY <1>1
<1>4. IsFiniteSet(S)
  BY <1>2, <1>3, FS_Subset
<1>5. S \in SUBSET Nat
  BY <1>3, <1>1
<1> QED BY <1>4, <1>5, FS_CardinalityType

\* A sequence of which some places are kept has the same things in it, in order.
LEMMA KeptIsPart ==
    ASSUME NEW A, NEW s \in Seq(A), NEW S \in SUBSET DOMAIN s
    PROVE  /\ Kept(s, S) \in Seq(A) /\ IsPartOf(Kept(s, S), s)
           /\ \A n \in DOMAIN Kept(s, S) : \E j \in S : Kept(s, S)[n] = s[j]
<1> DEFINE At(n) == CHOOSE j \in S : RankIn(S, j) = n
           at == [n \in 1 .. Cardinality(S) |-> At(n)]
<1>1. IsFiniteSet(S) /\ Cardinality(S) \in Nat /\ S \in SUBSET Nat
  BY PlacesAreFinite
<1>2. \A n \in 1 .. Cardinality(S) : At(n) \in S /\ RankIn(S, At(n)) = n
  BY <1>1, RankIsReached
<1>3. Kept(s, S) = [n \in 1 .. Cardinality(S) |-> s[At(n)]]
  BY DEF Kept
<1>4. ASSUME NEW m \in 1 .. Cardinality(S), NEW n \in 1 .. Cardinality(S), m < n
      PROVE  At(m) < At(n)
  <2>1. At(m) \in S /\ At(n) \in S /\ RankIn(S, At(m)) = m /\ RankIn(S, At(n)) = n
    BY <1>2
  <2> HIDE DEF At
  <2>2. At(n) < At(m) => RankIn(S, At(n)) < RankIn(S, At(m))
    BY <1>1, <2>1, RankGrows
  <2>3. At(n) # At(m)
    BY <2>1, <1>4
  <2> QED BY <2>1, <2>2, <2>3, <1>1, <1>4
<1> HIDE DEF At
<1>5. \A n \in 1 .. Cardinality(S) : s[At(n)] \in A
  BY <1>2
<1>6. Kept(s, S) \in Seq(A) /\ DOMAIN Kept(s, S) = 1 .. Cardinality(S)
  BY <1>1, <1>3, <1>5
<1>7. at \in [DOMAIN Kept(s, S) -> DOMAIN s]
  BY <1>2, <1>6
<1>8. \A n \in DOMAIN Kept(s, S) : Kept(s, S)[n] = s[at[n]]
  BY <1>3, <1>6
<1>9. \A m, n \in DOMAIN Kept(s, S) : m < n => at[m] < at[n]
  BY <1>4, <1>6
<1>10. IsPartOf(Kept(s, S), s)
  <2> HIDE DEF at
  <2> QED BY <1>7, <1>8, <1>9 DEF IsPartOf
<1> QED BY <1>2, <1>3, <1>6, <1>10

\* What is part of a sequence, at places that are kept, is part of what is kept.
LEMMA PartIsKept ==
    ASSUME NEW A, NEW s \in Seq(A), NEW S \in SUBSET DOMAIN s, NEW t \in Seq(A),
           NEW at \in [DOMAIN t -> S],
           \A j \in DOMAIN t : t[j] = s[at[j]],
           \A j, k \in DOMAIN t : j < k => at[j] < at[k]
    PROVE  IsPartOf(t, Kept(s, S))
<1> DEFINE to == [j \in DOMAIN t |-> RankIn(S, at[j])]
           At(n) == CHOOSE j \in S : RankIn(S, j) = n
<1>1. IsFiniteSet(S) /\ Cardinality(S) \in Nat /\ S \in SUBSET Nat
  BY PlacesAreFinite
<1>2. Kept(s, S) = [n \in 1 .. Cardinality(S) |-> s[At(n)]]
  BY DEF Kept
<1>3. \A j \in S : RankIn(S, j) \in 1 .. Cardinality(S) /\ At(RankIn(S, j)) = j
  <2> SUFFICES ASSUME NEW j \in S
               PROVE  RankIn(S, j) \in 1 .. Cardinality(S) /\ At(RankIn(S, j)) = j
    OBVIOUS
  <2>1. RankIn(S, j) \in 1 .. Cardinality(S)
    BY <1>1, RankGrows
  <2>2. At(RankIn(S, j)) \in S /\ RankIn(S, At(RankIn(S, j))) = RankIn(S, j)
    OBVIOUS
  <2>3. \A k \in S : (j < k => RankIn(S, j) < RankIn(S, k)) /\
                     (k < j => RankIn(S, k) < RankIn(S, j))
    BY <1>1, RankGrows
  <2> HIDE DEF At
  <2> QED BY <1>1, <2>1, <2>2, <2>3
<1> HIDE DEF At
<1>4. DOMAIN Kept(s, S) = 1 .. Cardinality(S)
  BY <1>2
<1>5. to \in [DOMAIN t -> DOMAIN Kept(s, S)]
  BY <1>3, <1>4
<1>6. \A j \in DOMAIN t : t[j] = Kept(s, S)[to[j]]
  BY <1>2, <1>3
<1>7. \A j, k \in DOMAIN t : j < k => to[j] < to[k]
  BY <1>1, RankGrows
<1> HIDE DEF to
<1> QED BY <1>5, <1>6, <1>7 DEF IsPartOf

\* Every sequence is part of itself, ...
LEMMA WholeIsPart ==
    ASSUME NEW A, NEW s \in Seq(A)
    PROVE  IsPartOf(s, s)
<1> DEFINE at == [j \in DOMAIN s |-> j]
<1>1. at \in [DOMAIN s -> DOMAIN s] /\ \A j \in DOMAIN s : at[j] = j
  OBVIOUS
<1> HIDE DEF at
<1> QED BY <1>1 DEF IsPartOf

\* ... and a part of a part is a part.
LEMMA PartOfPart ==
    ASSUME NEW A, NEW s \in Seq(A), NEW t \in Seq(A), NEW u \in Seq(A),
           IsPartOf(s, t), IsPartOf(t, u)
    PROVE  IsPartOf(s, u)
<1>1. PICK f \in [DOMAIN s -> DOMAIN t] :
          /\ \A j \in DOMAIN s : s[j] = t[f[j]]
          /\ \A j, k \in DOMAIN s : j < k => f[j] < f[k]
  BY DEF IsPartOf
<1>2. PICK g \in [DOMAIN t -> DOMAIN u] :
          /\ \A j \in DOMAIN t : t[j] = u[g[j]]
          /\ \A j, k \in DOMAIN t : j < k => g[j] < g[k]
  BY DEF IsPartOf
<1> DEFINE h == [j \in DOMAIN s |-> g[f[j]]]
<1>3. /\ h \in [DOMAIN s -> DOMAIN u]
      /\ \A j \in DOMAIN s : s[j] = u[h[j]]
      /\ \A j, k \in DOMAIN s : j < k => h[j] < h[k]
  BY <1>1, <1>2
<1> HIDE DEF h
<1> QED BY <1>3 DEF IsPartOf

-----------------------------------------------------------------------------
(* The database.                                                           *)

\* What an action uses is never an action.
LEMMA References ==
    /\ Actions \subseteq Id /\ Id \subseteq Nat /\ Linked \subseteq HasShader
    /\ HasShader \subseteq Actions
    /\ \A a \in HasShader :
          ShaderOf[a] \in Id /\ ShaderOf[a] \notin Actions /\ ShaderOf[a] < a
    /\ \A a \in Actions :
          /\ \A b \in BuffersOf[a] : b \in Id /\ b \notin Actions /\ b < a
          /\ \A x \in RefreshedBy(a) : x \in Id /\ x \notin Actions /\ x < a
          /\ BuffersOf[a] # {} => RefreshedBy(a) = BuffersOf[a]
    /\ \A a \in Linked : RefreshedBy(a) = {ShaderOf[a]}
<1> USE DEF Actions, Buffers, Shaders, Linked, HasShader
<1>1. /\ Actions \subseteq Id /\ Id \subseteq Nat /\ Linked \subseteq HasShader
      /\ HasShader \subseteq Actions
  BY IdAssumption
<1>2. \A a \in HasShader :
          ShaderOf[a] \in Id /\ ShaderOf[a] \notin Actions /\ ShaderOf[a] < a
  BY ReferencesAssumption DEF DependsOn
<1>3. \A a \in Actions : \A b \in BuffersOf[a] : b \in Id /\ b \notin Actions /\ b < a
  BY ReferencesAssumption DEF DependsOn
<1>4. \A a \in Linked : RefreshedBy(a) = {ShaderOf[a]}
  BY DEF RefreshedBy
<1>5. \A a \in Actions \ Linked : RefreshedBy(a) = BuffersOf[a]
  BY DEF RefreshedBy
<1>6. \A a \in Actions : BuffersOf[a] # {} => a \notin Linked
  BY ReferencesAssumption
<1> HIDE DEF Actions, Buffers, Shaders, Linked, HasShader
<1>7. ASSUME NEW a \in Actions, NEW x \in RefreshedBy(a)
      PROVE  x \in Id /\ x \notin Actions /\ x < a
  <2>1. CASE a \in Linked
    <3>1. x = ShaderOf[a] /\ a \in HasShader
      BY <1>1, <1>4, <2>1
    <3> QED BY <1>2, <3>1
  <2>2. CASE a \notin Linked
    <3>1. x \in BuffersOf[a]
      BY <1>5, <2>2
    <3> QED BY <1>3, <3>1
  <2> QED BY <2>1, <2>2
<1>8. \A a \in Actions : BuffersOf[a] # {} => RefreshedBy(a) = BuffersOf[a]
  BY <1>5, <1>6
<1>9. \A a \in Actions :
          /\ \A b \in BuffersOf[a] : b \in Id /\ b \notin Actions /\ b < a
          /\ \A x \in RefreshedBy(a) : x \in Id /\ x \notin Actions /\ x < a
          /\ BuffersOf[a] # {} => RefreshedBy(a) = BuffersOf[a]
  BY <1>3, <1>7, <1>8
<1> QED BY <1>1, <1>2, <1>4, <1>9

LEMMA OrderHas ==
    Counts => \A j \in DOMAIN order : order[j] \in Actions /\ order[j] \in Id
<1> SUFFICES ASSUME Counts, NEW j \in DOMAIN order
             PROVE  order[j] \in Actions
  BY References
<1>1. order \in Seq(Actions)
  BY DEF Counts
<1> QED BY <1>1

\* An action that passes the checks has its shader.
LEMMA ReachedHasShader ==
    ASSUME Counts, NEW j \in DOMAIN order, Reached(j)
    PROVE  HasItsShader(order[j])
<1> DEFINE a == order[j]
           setters == {k \in 1 .. j - 1 : /\ Kind[order[k]] = "SetShader"
                                          /\ rev[ShaderOf[order[k]]] > 0}
<1> SUFFICES ASSUME a \in HasShader
             PROVE  rev[ShaderOf[a]] > 0
  BY DEF HasItsShader
<1>1. Kind[a] \in {"SetShader", "SetUniforms", "SetInputs"}
  BY DEF HasShader
<1>2. CASE Kind[a] = "SetShader"
  BY <1>2 DEF Reached
<1>3. CASE Kind[a] = "SetUniforms"
  BY <1>3 DEF Reached
<1>4. CASE Kind[a] = "SetInputs"
  <2>1. ShaderAt(j) = {ShaderOf[a]}
    BY <1>4 DEF Reached
  <2>2. setters # {} /\ ShaderOf[order[Max(setters)]] = ShaderOf[a]
    BY <2>1 DEF ShaderAt
  <2>3. j \in Nat /\ setters \in SUBSET (1 .. j - 1) /\ j - 1 \in Int
    BY DEF Counts
  <2>4. setters \in SUBSET Nat
    <3> HIDE DEF setters
    <3> QED BY <2>3
  <2>5. IsFiniteSet(setters)
    <3> HIDE DEF setters
    <3>1. IsFiniteSet(1 .. j - 1)
      BY <2>3, FS_Interval
    <3> QED BY <2>3, <3>1, FS_Subset
  <2>6. Max(setters) \in setters
    <3> HIDE DEF setters
    <3> QED BY <2>2, <2>4, <2>5, MaxIsLargest
  <2>7. rev[ShaderOf[order[Max(setters)]]] > 0
    BY <2>6
  <2> HIDE DEF setters
  <2> QED BY <2>2, <2>7
<1> QED BY <1>1, <1>2, <1>3, <1>4

\* What process() makes of a revision.
LEMMA RefreshedIs ==
    ASSUME Counts, Items, NEW a \in Actions
    PROVE  /\ Refreshed(a) \in Nat /\ rev[a] <= Refreshed(a) /\ Refreshed(a) <= current
           /\ ~Looked(a) => Refreshed(a) = rev[a]
           /\ Looked(a) => \A x \in RefreshedBy(a) : rev[x] <= Refreshed(a)
           /\ \/ Refreshed(a) = rev[a]
              \/ \E x \in RefreshedBy(a) : Refreshed(a) = rev[x]
<1> DEFINE S == {rev[a]} \cup {rev[x] : x \in RefreshedBy(a)}
<1>1. \A i \in Id : rev[i] \in Nat /\ rev[i] <= current
  BY DEF Counts, Items
<1>2. a \in Id /\ \A x \in RefreshedBy(a) : x \in Id
  BY References
<1>3. S \in SUBSET Nat /\ S # {} /\ \A n \in S : n <= current
  BY <1>1, <1>2
<1>4. IsFiniteSet(S)
  <2> HIDE DEF S
  <2> QED BY <1>3, FS_BoundedSetOfNaturals DEF Counts
<1>5. Max(S) \in S /\ \A n \in S : n <= Max(S)
  <2> HIDE DEF S
  <2> QED BY <1>3, <1>4, MaxIsLargest
<1>6. Refreshed(a) = IF Looked(a) THEN Max(S) ELSE rev[a]
  BY DEF Refreshed
<1>7. rev[a] <= Max(S) /\ \A x \in RefreshedBy(a) : rev[x] <= Max(S)
  BY <1>5
<1>8. Max(S) = rev[a] \/ \E x \in RefreshedBy(a) : Max(S) = rev[x]
  BY <1>5
<1> HIDE DEF S
<1> QED BY <1>1, <1>2, <1>3, <1>5, <1>6, <1>7, <1>8

\* Places in the order that process() leaves were places before.
LEMMA ProcessKeeps ==
    ASSUME Counts, Process
    PROVE  /\ order' \in Seq(Actions) /\ IsPartOf(order', order)
           /\ \A n \in DOMAIN order' : \E j \in DOMAIN order :
                 Reached(j) /\ order'[n] = order[j]
<1> DEFINE S == {j \in DOMAIN order : Stays(j)}
<1>1. order \in Seq(Actions) /\ S \in SUBSET DOMAIN order /\ order' = Kept(order, S)
  BY DEF Counts, Process
<1>2. \A j \in S : Reached(j)
  BY DEF Stays
<1> HIDE DEF S
<1>3. /\ Kept(order, S) \in Seq(Actions) /\ IsPartOf(Kept(order, S), order)
      /\ \A n \in DOMAIN Kept(order, S) : \E j \in S : Kept(order, S)[n] = order[j]
  BY <1>1, KeptIsPart
<1> QED BY <1>1, <1>2, <1>3

LEMMA DatabaseInit ==
    Init => DInv
<1> SUFFICES ASSUME Init PROVE DInv
  OBVIOUS
<1>1. FirstItems \in Nat /\ Len(FirstOrder) \in Nat /\ FirstOrder \in Seq(Actions)
  BY FirstAssumption
<1>2. \A j \in DOMAIN FirstOrder : FirstOrder[j] \in Actions /\ FirstOrder[j] < FirstItems
  BY FirstAssumption
<1>3. \A i \in Id : i \in Nat /\ rev[i] = IF i < FirstItems THEN i + 1 ELSE 0
  BY References DEF Init
<1>4. Counts
  BY <1>1, References DEF Counts, Init
<1>5. Items
  BY <1>1, <1>3 DEF Items, Init
<1>6. \A j \in DOMAIN order : order[j] \in Actions /\ order[j] < FirstItems
  BY <1>2 DEF Init
<1>7. Order
  <2> SUFFICES ASSUME NEW j \in DOMAIN order
               PROVE  rev[order[j]] > 0
    BY DEF Order
  <2>1. PICK i \in Id : i = order[j] /\ i < FirstItems
    BY <1>6, References
  <2> QED BY <1>3, <2>1
<1>8. ASSUME NEW a \in Actions, rev[a] > 0, NEW x \in RefreshedBy(a)
      PROVE  ~(rev[a] < rev[x])
  <2>1. a \in Id /\ x \in Id /\ x < a
    BY References
  <2> QED BY <1>1, <1>3, <1>8, <2>1
<1>9. ASSUME NEW j \in DOMAIN order, order[j] \in HasShader
      PROVE  rev[ShaderOf[order[j]]] > 0
  <2>1. ShaderOf[order[j]] \in Id /\ ShaderOf[order[j]] < order[j] /\ order[j] \in Id
    BY <1>9, References
  <2> QED BY <1>1, <1>3, <1>6, <2>1
<1>10. Processed
  BY <1>8, <1>9 DEF Processed, Due, HasItsShader
<1> QED BY <1>4, <1>5, <1>7, <1>10 DEF DInv

\* An item is set now.
LEMMA DatabaseTaint ==
    ASSUME DInv, NEW i \in Id, nextId' \in Nat, nextId <= nextId', i < nextId',
           current' = current + 1, drawOrderRev' \in {drawOrderRev, current + 1},
           rev' = [rev EXCEPT ![i] = current + 1],
           val' = [val EXCEPT ![i] = current + 1],
           missed' = missed \ {i}, UNCHANGED <<processRev, order>>
    PROVE  DInv'
<1>1. Counts'
  BY DEF DInv, Counts
<1>2. current' \in Nat /\ current < current' /\ current \in Nat /\ nextId \in Nat
  BY DEF DInv, Counts
<1>3. \A k \in Id : k \in Nat /\ (k # i => rev'[k] = rev[k] /\ val'[k] = val[k])
  BY References DEF DInv, Counts
<1>4. rev'[i] = current' /\ val'[i] = current'
  BY DEF DInv, Counts
<1>5. Items'
  BY <1>2, <1>3, <1>4 DEF DInv, Items, Counts
<1>6. Order'
  BY <1>2, <1>3, <1>4, References DEF DInv, Order, Counts
<1>7. ~Fresh'
  BY <1>2 DEF DInv, Counts, Fresh
<1> QED BY <1>1, <1>5, <1>6, <1>7 DEF DInv, Processed

LEMMA DatabaseDelete ==
    ASSUME DInv, NEW i \in Id, Delete(i)
    PROVE  DInv'
<1> USE DEF Delete
<1>1. Counts'
  BY DEF DInv, Counts
<1>2. \A k \in Id : /\ k # i => rev'[k] = rev[k] /\ val'[k] = val[k]
                    /\ k = i => rev'[k] = 0 /\ val'[k] = 0
  BY DEF DInv, Counts
<1>3. Items'
  BY <1>2 DEF DInv, Items, Counts
<1>4. \A j \in DOMAIN order : order[j] # i /\ order[j] \in Id
  BY OrderHas DEF DInv, InOrder
<1>5. Order'
  BY <1>2, <1>4 DEF DInv, Order
<1>6. ~Fresh'
  BY DEF DInv, Counts, Fresh
<1> QED BY <1>1, <1>3, <1>5, <1>6 DEF DInv, Processed

LEMMA DatabaseOrder ==
    ASSUME DInv, DrawOrderClear \/ \E a \in Actions : DrawOrderAdd(a)
    PROVE  DInv'
<1>1. /\ UNCHANGED <<nextId, rev, val, processRev, missed>>
      /\ current' = current + 1 /\ drawOrderRev' = current + 1
  BY DEF DrawOrderClear, DrawOrderAdd
<1>2. /\ order' \in Seq(Actions)
      /\ \A j \in DOMAIN order' : rev[order'[j]] > 0
  <2>1. CASE DrawOrderClear
    BY <2>1 DEF DrawOrderClear
  <2>2. ASSUME NEW a \in Actions, DrawOrderAdd(a)
        PROVE  /\ order' \in Seq(Actions)
               /\ \A j \in DOMAIN order' : rev[order'[j]] > 0
    BY <2>2 DEF DrawOrderAdd, DInv, Counts, Order
  <2> QED BY <2>1, <2>2
<1>3. Counts'
  BY <1>1, <1>2 DEF DInv, Counts
<1>4. Items'
  BY <1>1 DEF DInv, Items, Counts
<1>5. Order'
  BY <1>1, <1>2 DEF Order
<1>6. ~Fresh'
  BY <1>1 DEF DInv, Counts, Fresh
<1> QED BY <1>3, <1>4, <1>5, <1>6 DEF DInv, Processed

LEMMA DatabaseProcess ==
    ASSUME DInv, Process
    PROVE  DInv'
<1>0. Counts /\ Items
  BY DEF DInv
<1>1. /\ processRev' = current /\ UNCHANGED <<nextId, val, current, drawOrderRev>>
      /\ missed' = missed \cup {a \in Actions : rev[a] > 0 /\ Due(a) /\ ~Looked(a)}
  BY DEF Process
<1>2. \A a \in Actions : a \in Id /\ rev'[a] = Refreshed(a)
  BY References DEF Process
<1>3. \A x \in Id : x \notin Actions => rev'[x] = rev[x]
  BY DEF Process
<1>4. \A i \in Id : /\ rev'[i] \in Nat /\ rev[i] <= rev'[i] /\ rev'[i] <= current
                    /\ rev[i] \in Nat
  BY <1>0, <1>2, <1>3, RefreshedIs DEF Counts, Items
<1>5. rev' \in [Id -> Nat]
  <2>1. \E f : rev' = [i \in Id |-> f[i]]
    <3>1. rev' = [i \in Id |-> rev'[i]]
      BY DEF Process
    <3> QED BY <3>1
  <2> QED BY <1>4, <2>1
<1>6. Counts'
  <2>1. order' \in Seq(Actions) /\ missed' \subseteq Actions
    BY <1>0, <1>1, ProcessKeeps DEF Counts
  <2> QED BY <1>0, <1>1, <1>5, <2>1 DEF Counts
<1>7. \A a \in Actions : rev'[a] > 0 => rev[a] > 0
  <2> SUFFICES ASSUME NEW a \in Actions, rev[a] = 0
               PROVE  rev'[a] = 0
    BY <1>2, <1>4
  <2>1. ~Looked(a)
    BY DEF Looked, DInv, Order
  <2> QED BY <1>0, <1>2, <2>1, RefreshedIs
<1>8. Items'
  BY <1>0, <1>1, <1>3, <1>4, <1>7 DEF Items, Counts
<1>9. \A n \in DOMAIN order' : \E j \in DOMAIN order : Reached(j) /\ order'[n] = order[j]
  BY <1>0, ProcessKeeps
<1>10. Order'
  <2> SUFFICES ASSUME NEW n \in DOMAIN order'
               PROVE  rev'[order'[n]] > 0
    BY DEF Order
  <2>1. PICK j \in DOMAIN order : Reached(j) /\ order'[n] = order[j]
    BY <1>9
  <2>2. rev[order[j]] > 0 /\ order[j] \in Id
    BY OrderHas DEF DInv, Order
  <2> QED BY <1>4, <2>1, <2>2
<1>11. ASSUME NEW a \in Actions, rev'[a] > 0, a \notin missed', NEW x \in RefreshedBy(a)
       PROVE  ~(rev'[a] < rev'[x])
  <2>1. x \in Id /\ rev'[x] = rev[x] /\ rev[x] \in Nat /\ rev'[a] \in Nat /\ rev[a] \in Nat
    BY <1>2, <1>3, <1>4, References
  <2>2. CASE Looked(a)
    BY <1>0, <1>2, <2>1, <2>2, RefreshedIs
  <2>3. CASE ~Looked(a)
    <3>1. rev[a] > 0 /\ ~Due(a) /\ rev'[a] = rev[a]
      BY <1>0, <1>1, <1>2, <1>7, <1>11, <2>3, RefreshedIs
    <3> QED BY <2>1, <3>1 DEF Due
  <2> QED BY <2>2, <2>3
<1>12. ASSUME NEW n \in DOMAIN order', order'[n] \in HasShader
       PROVE  rev'[ShaderOf[order'[n]]] > 0
  <2>1. PICK j \in DOMAIN order : Reached(j) /\ order'[n] = order[j]
    BY <1>9
  <2>2. HasItsShader(order[j])
    BY <1>0, <2>1, ReachedHasShader
  <2> QED BY <1>3, <1>12, <2>1, <2>2, References DEF HasItsShader
<1>13. Processed'
  BY <1>11, <1>12 DEF Processed, Due, HasItsShader
<1> QED BY <1>6, <1>8, <1>10, <1>13 DEF DInv

LEMMA DatabaseStep ==
    ASSUME DInv, [Next]_vars
    PROVE  DInv'
<1>1. ASSUME UNCHANGED <<db, missed>>
      PROVE  DInv'
  <2> QED BY <1>1 DEF db, DInv, Counts, Items, Order, Processed, Fresh, Due, HasItsShader
<1>2. CASE Create
  <2>1. nextId \in Id /\ nextId' = nextId + 1 /\ Taint(nextId, TRUE)
    BY <1>2 DEF Create
  <2>2. nextId \in Nat
    BY References, <2>1
  <2>3. PICK i \in Id : i = nextId
    BY <2>1
  <2>4. /\ current' = current + 1 /\ drawOrderRev' \in {drawOrderRev, current + 1}
        /\ rev' = [rev EXCEPT ![i] = current + 1]
        /\ val' = [val EXCEPT ![i] = current + 1]
        /\ missed' = missed \ {i} /\ UNCHANGED <<processRev, order>>
    BY <2>1, <2>3 DEF Taint
  <2>5. nextId' \in Nat /\ nextId <= nextId' /\ i < nextId'
    BY <2>1, <2>2, <2>3
  <2> QED BY <2>4, <2>5, DatabaseTaint
<1>3. ASSUME NEW i \in Id, Set(i)
      PROVE  DInv'
  <2> PICK rethink \in BOOLEAN : SetItem(i, rethink)
    BY <1>3 DEF Set, BufferSet, StageSet, ShaderSet, InputSet, DrawSet, UniformSet,
           OrientationSet
  <2>1. Taint(i, rethink) /\ nextId' = nextId /\ rev[i] > 0
    BY DEF SetItem
  <2>2. nextId \in Nat /\ i < nextId
    BY <2>1 DEF DInv, Counts, Items
  <2>3. /\ current' = current + 1 /\ drawOrderRev' \in {drawOrderRev, current + 1}
        /\ rev' = [rev EXCEPT ![i] = current + 1]
        /\ val' = [val EXCEPT ![i] = current + 1]
        /\ missed' = missed \ {i} /\ UNCHANGED <<processRev, order>>
    BY <2>1 DEF Taint
  <2>4. nextId' \in Nat /\ nextId <= nextId' /\ i < nextId'
    BY <2>1, <2>2
  <2> QED BY <2>3, <2>4, DatabaseTaint
<1>4. CASE Pull \/ Render \/ \E s \in Slot : Ask(s) \/ Serve(s) \/ Parse(s) \/ Lose(s)
  BY <1>1, <1>4 DEF Pull, Render, Ask, Serve, Parse, Lose
<1>5. CASE UNCHANGED vars
  BY <1>1, <1>5 DEF vars
<1> QED BY <1>2, <1>3, <1>4, <1>5, DatabaseDelete, DatabaseOrder, DatabaseProcess
        DEF Next, Application

-----------------------------------------------------------------------------
(* A step of the application, as a client meets it.                        *)

Anew(i) == rev'[i] = current + 1 /\ val'[i] = current + 1
Gone(i) == rev'[i] = 0
Same(i) == /\ 0 < rev[i] /\ rev[i] <= rev'[i] /\ val'[i] = val[i]
           /\ i \notin missed' => i \notin missed
           /\ \/ rev'[i] = rev[i]
              \/ i \in Actions /\ \E x \in RefreshedBy(i) : rev'[i] = rev[x]
Changed ==
    /\ current <= current' /\ nextId <= nextId'
    /\ \A i \in Id : Anew(i) \/ Gone(i) \/ Same(i)
    /\ \A i \in Id : rev[i] = 0 /\ rev'[i] > 0 => nextId <= i
    /\ \/ /\ drawOrderRev' = drawOrderRev /\ IsPartOf(order', order)
          /\ \A n \in DOMAIN order' : \E j \in DOMAIN order : order'[n] = order[j]
       \/ drawOrderRev' = current + 1
    /\ UNCHANGED Clients

LEMMA TaintChanges ==
    ASSUME DInv, NEW i \in Id, nextId' \in Nat, nextId <= nextId',
           rev[i] = 0 => nextId <= i, current' = current + 1,
           rev' = [rev EXCEPT ![i] = current + 1],
           val' = [val EXCEPT ![i] = current + 1],
           drawOrderRev' = drawOrderRev \/ drawOrderRev' = current + 1,
           missed' = missed \ {i}, UNCHANGED <<order, Clients>>
    PROVE  Changed
<1>1. Counts /\ Items
  BY DEF DInv
<1>2. Anew(i)
  BY <1>1 DEF Counts, Anew
<1>3. \A k \in Id : /\ rev[k] \in Nat /\ val[k] \in Nat
                    /\ k # i => rev'[k] = rev[k] /\ val'[k] = val[k]
  BY <1>1 DEF Counts
<1>4. \A k \in Id : k # i => Gone(k) \/ Same(k)
  BY <1>3 DEF Gone, Same
<1>5. \A k \in Id : rev[k] = 0 /\ rev'[k] > 0 => nextId <= k
  BY <1>3
<1>6. order \in Seq(Actions) /\ current \in Nat
  BY <1>1 DEF Counts
<1>7. IsPartOf(order', order)
  BY <1>6, WholeIsPart
<1> QED BY <1>2, <1>4, <1>5, <1>6, <1>7 DEF Changed

LEMMA OrderChanges ==
    ASSUME DInv, DrawOrderClear \/ \E a \in Actions : DrawOrderAdd(a)
    PROVE  Changed
<1>1. /\ UNCHANGED <<nextId, rev, val, missed>> /\ UNCHANGED Clients
      /\ current' = current + 1 /\ drawOrderRev' = current + 1
  BY DEF DrawOrderClear, DrawOrderAdd, Clients
<1>2. \A i \in Id : Gone(i) \/ Same(i)
  BY <1>1 DEF DInv, Counts, Gone, Same
<1> QED BY <1>1, <1>2 DEF Changed, DInv, Counts

LEMMA DeleteChanges ==
    ASSUME DInv, NEW i \in Id, Delete(i)
    PROVE  Changed
<1>1. Counts
  BY DEF DInv
<1>2. \A k \in Id : /\ rev[k] \in Nat /\ val[k] \in Nat
                    /\ k # i => rev'[k] = rev[k] /\ val'[k] = val[k]
  BY <1>1 DEF Counts, Delete
<1>3. rev'[i] = 0
  BY <1>1 DEF Counts, Delete
<1>4. \A k \in Id : Gone(k) \/ Same(k)
  BY <1>2, <1>3 DEF Gone, Same, Delete
<1>5. order \in Seq(Actions) /\ order' = order
  BY <1>1 DEF Counts, Delete
<1>6. IsPartOf(order', order)
  BY <1>5, WholeIsPart
<1>7. /\ current \in Nat /\ current' = current + 1 /\ nextId' = nextId /\ nextId \in Nat
      /\ drawOrderRev' = drawOrderRev /\ UNCHANGED Clients
  BY <1>1 DEF Delete, Counts
<1> QED BY <1>2, <1>3, <1>4, <1>5, <1>6, <1>7 DEF Changed

LEMMA ProcessChanges ==
    ASSUME DInv, Process
    PROVE  Changed
<1>1. Counts /\ Items
  BY DEF DInv
<1>2. /\ UNCHANGED <<nextId, val, current, drawOrderRev>> /\ UNCHANGED Clients
      /\ missed \subseteq missed'
  BY DEF Process, Clients
<1>3. \A a \in Actions : rev'[a] = Refreshed(a) /\ a \in Id
  BY References DEF Process
<1>4. \A x \in Id : /\ rev[x] \in Nat /\ val[x] \in Nat
                    /\ x \notin Actions => rev'[x] = rev[x]
  BY <1>1 DEF Process, Counts
<1>5. \A a \in Actions : rev[a] = 0 => rev'[a] = 0
  <2> SUFFICES ASSUME NEW a \in Actions, rev[a] = 0
               PROVE  rev'[a] = 0
    OBVIOUS
  <2>1. ~Looked(a)
    BY DEF Looked, DInv, Order
  <2> QED BY <1>1, <1>3, <2>1, RefreshedIs
<1>6. ASSUME NEW i \in Id
      PROVE  Gone(i) \/ Same(i)
  <2>1. CASE i \notin Actions
    BY <1>2, <1>4, <2>1 DEF Gone, Same
  <2>2. CASE i \in Actions /\ rev[i] = 0
    BY <1>5, <2>2 DEF Gone
  <2>3. CASE i \in Actions /\ rev[i] # 0
    BY <1>1, <1>2, <1>3, <1>4, <2>3, RefreshedIs DEF Same
  <2> QED BY <2>1, <2>2, <2>3
<1>7. IsPartOf(order', order) /\
      \A n \in DOMAIN order' : \E j \in DOMAIN order : order'[n] = order[j]
  BY <1>1, ProcessKeeps
<1>8. current \in Nat /\ nextId \in Nat
  BY <1>1 DEF Counts
<1> QED BY <1>2, <1>4, <1>5, <1>6, <1>7, <1>8 DEF Changed

LEMMA ApplicationChanges ==
    ASSUME DInv, Application
    PROVE  Changed
<1>1. CASE Create
  <2>1. nextId \in Id /\ nextId' = nextId + 1 /\ Taint(nextId, TRUE)
    BY <1>1 DEF Create
  <2>2. nextId \in Nat
    BY References, <2>1
  <2>3. PICK i \in Id : i = nextId
    BY <2>1
  <2>4. /\ current' = current + 1 /\ drawOrderRev' = current + 1
        /\ rev' = [rev EXCEPT ![i] = current + 1]
        /\ val' = [val EXCEPT ![i] = current + 1]
        /\ missed' = missed \ {i} /\ UNCHANGED <<order, Clients>>
    BY <2>1, <2>3 DEF Taint
  <2>5. nextId' \in Nat /\ nextId <= nextId' /\ nextId <= i
    BY <2>1, <2>2, <2>3
  <2> QED BY <2>4, <2>5, TaintChanges
<1>2. ASSUME NEW i \in Id, Set(i)
      PROVE  Changed
  <2> PICK rethink \in BOOLEAN : SetItem(i, rethink)
    BY <1>2 DEF Set, BufferSet, StageSet, ShaderSet, InputSet, DrawSet, UniformSet,
           OrientationSet
  <2>1. Taint(i, rethink) /\ nextId' = nextId /\ rev[i] > 0
    BY DEF SetItem
  <2>2. /\ current' = current + 1
        /\ drawOrderRev' = drawOrderRev \/ drawOrderRev' = current + 1
        /\ rev' = [rev EXCEPT ![i] = current + 1]
        /\ val' = [val EXCEPT ![i] = current + 1]
        /\ missed' = missed \ {i} /\ UNCHANGED <<order, Clients>>
    BY <2>1 DEF Taint
  <2>3. nextId' \in Nat /\ nextId <= nextId' /\ rev[i] # 0
    BY <2>1 DEF DInv, Counts
  <2> QED BY <2>2, <2>3, TaintChanges
<1> QED BY <1>1, <1>2, OrderChanges, DeleteChanges, ProcessChanges DEF Application

\* What a revision that a client has reached says of an item, it said before.
LEMMA StillThere ==
    ASSUME DInv, Changed, NEW i \in Id, NEW n \in Nat, n <= current,
           0 < rev'[i], rev'[i] <= n
    PROVE  /\ 0 < rev[i] /\ rev[i] <= n /\ val'[i] = val[i]
           /\ i \notin Actions => rev'[i] = rev[i]
           /\ i \notin missed' => i \notin missed
<1>1. current \in Nat /\ rev[i] \in Nat
  BY DEF DInv, Counts
<1>2. ~Anew(i) /\ ~Gone(i)
  BY <1>1 DEF Anew, Gone
<1>3. Same(i)
  BY <1>2 DEF Changed
<1>4. rev'[i] = rev[i] \/ \E x \in RefreshedBy(i) : rev'[i] = rev[x]
  BY <1>3 DEF Same
<1>5. rev'[i] \in Nat
  <2>1. i \in Actions => \A x \in RefreshedBy(i) : x \in Id
    BY References
  <2> QED BY <1>1, <1>3, <2>1 DEF Same, DInv, Counts
<1> QED BY <1>1, <1>3, <1>5 DEF Same

LEMMA StillHeld ==
    ASSUME DInv, DInv', Changed, NEW i \in Id, NEW n \in Nat, n <= current,
           0 < rev'[i], val'[i] <= n
    PROVE  0 < rev[i] /\ val'[i] = val[i] /\ rev[i] <= rev'[i]
<1>1. current \in Nat
  BY DEF DInv, Counts
<1>2. ~Anew(i) /\ ~Gone(i)
  BY <1>1 DEF Anew, Gone
<1> QED BY <1>2 DEF Same, Changed

\* An item that was there had its shader, if it has it now.
LEMMA ShaderWasThere ==
    ASSUME DInv, DInv', Changed, NEW i \in Id, 0 < rev[i], HasItsShader(i)'
    PROVE  HasItsShader(i)
<1> SUFFICES ASSUME i \in HasShader
             PROVE  rev[ShaderOf[i]] > 0
  BY DEF HasItsShader
<1>1. ShaderOf[i] \in Id /\ ShaderOf[i] < i /\ i \in Nat /\ ShaderOf[i] \in Nat
  BY References
<1>2. i < nextId /\ nextId \in Nat /\ rev[ShaderOf[i]] \in Nat
  BY <1>1 DEF DInv, Counts, Items
<1>3. rev'[ShaderOf[i]] > 0
  BY DEF HasItsShader
<1> QED BY <1>1, <1>2, <1>3 DEF Changed

-----------------------------------------------------------------------------
(* The renderer.                                                           *)

\* The draw order, if it has not become newer than a client, is part of what it was.
LEMMA OrderWas ==
    ASSUME DInv, DInv', Changed, NEW n \in Nat, n <= current, drawOrderRev' <= n
    PROVE  /\ drawOrderRev' = drawOrderRev /\ IsPartOf(order', order)
           /\ \A k \in DOMAIN order' : \E j \in DOMAIN order : order'[k] = order[j]
<1>1. current \in Nat
  BY DEF DInv, Counts
<1>2. drawOrderRev' # current + 1
  BY <1>1
<1> QED BY <1>2 DEF Changed

LEMMA StillPartOf ==
    ASSUME DInv, DInv', Changed, NEW n \in Nat, n <= current, drawOrderRev' <= n,
           NEW t \in Seq(Actions), IsPartOf(order, t)
    PROVE  IsPartOf(order', t)
<1>1. IsPartOf(order', order)
  BY OrderWas
<1>2. order' \in Seq(Actions) /\ order \in Seq(Actions)
  BY DEF DInv, Counts
<1> QED BY <1>1, <1>2, PartOfPart

LEMMA StaysMade ==
    ASSUME DInv, DInv', Changed, NEW n \in Nat, n <= current, NEW made, IsMade(made, n)
    PROVE  IsMade(made, n)'
<1> SUFFICES ASSUME NEW a \in Linked, 0 < rev'[a], rev'[a] <= n, a \notin missed',
                    0 < rev'[ShaderOf[a]], rev'[ShaderOf[a]] <= n
             PROVE  a \in made
  BY DEF IsMade
<1>1. a \in Id /\ ShaderOf[a] \in Id
  BY References
<1>2. 0 < rev[a] /\ rev[a] <= n /\ a \notin missed
  BY <1>1, StillThere
<1>3. 0 < rev[ShaderOf[a]] /\ rev[ShaderOf[a]] <= n
  BY <1>1, StillThere
<1> QED BY <1>2, <1>3 DEF IsMade

LEMMA StaysReady ==
    ASSUME DInv, DInv', Changed, NEW n \in Nat, n <= current, NEW ready, IsReady(ready, n)
    PROVE  IsReady(ready, n)'
<1> SUFFICES ASSUME NEW a \in Actions, 0 < rev'[a], rev'[a] <= n, a \notin missed',
                    HasItsShader(a)',
                    \A b \in BuffersOf[a] : 0 < rev'[b] /\ rev'[b] <= n
             PROVE  BuffersOf[a] \subseteq ready
  BY DEF IsReady
<1>1. a \in Id /\ \A b \in BuffersOf[a] : b \in Id
  BY References
<1>2. 0 < rev[a] /\ rev[a] <= n /\ a \notin missed
  BY <1>1, StillThere
<1>3. \A b \in BuffersOf[a] : 0 < rev[b] /\ rev[b] <= n
  BY <1>1, StillThere
<1>4. HasItsShader(a)
  BY <1>1, <1>2, ShaderWasThere
<1> QED BY <1>2, <1>3, <1>4 DEF IsReady

LEMMA NativeChanged ==
    ASSUME DInv, DInv', Native, Changed
    PROVE  Native'
<1>1. native' = native
  BY DEF Changed, Clients
<1>2. PICK n \in Nat : n = native.rev /\ n <= current
  BY DEF Native
<1>3. current \in Nat /\ current' \in Nat /\ n <= current'
  BY <1>2 DEF DInv, Counts, Changed
<1>4. ASSUME NEW i \in Id, 0 < rev'[i], rev'[i] <= n
      PROVE  native.item[i] = val'[i]
  <2>1. 0 < rev[i] /\ rev[i] <= n /\ val'[i] = val[i]
    BY <1>2, <1>4, StillThere
  <2> QED BY <1>2, <2>1 DEF Native
<1>5. PICK made : made = native.made
  OBVIOUS
<1>6. IsMade(made, n)
  BY <1>2, <1>5 DEF Native
<1>7. IsMade(made, n)'
  BY <1>2, <1>6, StaysMade
<1>8. PICK t \in Seq(Actions) : t = native.order
  BY DEF Native
<1>9. drawOrderRev' <= n => IsPartOf(order', t)
  <2> SUFFICES ASSUME drawOrderRev' <= n
               PROVE  IsPartOf(order', t)
    OBVIOUS
  <2>1. drawOrderRev' = drawOrderRev
    BY <1>2, OrderWas
  <2>2. IsPartOf(order, t)
    BY <1>2, <1>8, <2>1 DEF Native
  <2> QED BY <1>2, <2>2, StillPartOf
<1>10. native'.rev = n /\ native'.made = made /\ native'.order = t /\
       native'.item = native.item
  BY <1>1, <1>2, <1>5, <1>8
<1>11. \A a \in Linked :
          /\ 0 < rev'[a] /\ rev'[a] <= n /\ a \notin missed'
          /\ 0 < rev'[ShaderOf[a]] /\ rev'[ShaderOf[a]] <= n
          => a \in made
  BY <1>7 DEF IsMade
<1>12. native.item \in [Id -> Nat]
  BY DEF Native
<1> QED BY <1>3, <1>4, <1>8, <1>9, <1>10, <1>11, <1>12 DEF Native, IsMade

\* changes(), for what it is worth.
LEMMA Exported ==
    ASSUME NEW has
    PROVE  LET e == Export(has) IN
           /\ e.from = has /\ e.to = current /\ e.newOrder = (has < drawOrderRev)
           /\ DOMAIN e.items = {i \in Id : has < rev[i]}
           /\ \A i \in DOMAIN e.items : e.items[i] = val[i]
           /\ e.order = IF has < drawOrderRev THEN order ELSE <<>>
BY DEF Export, Modified

\* A sequence of things that are all there is kept whole.
LEMMA AllPresent ==
    ASSUME NEW A, NEW s \in Seq(A), NEW item, \A j \in DOMAIN s : item[s[j]] > 0
    PROVE  IsPartOf(s, Present(s, item)) /\ Present(s, item) \in Seq(A)
<1>1. Present(s, item) = Kept(s, DOMAIN s)
  BY DEF Present
<1> DEFINE at == [j \in DOMAIN s |-> j]
<1>2. /\ at \in [DOMAIN s -> DOMAIN s] /\ \A j \in DOMAIN s : s[j] = s[at[j]]
      /\ \A j, k \in DOMAIN s : j < k => at[j] < at[k]
  OBVIOUS
<1> HIDE DEF at
<1>3. IsPartOf(s, Kept(s, DOMAIN s))
  BY <1>2, PartIsKept
<1>4. Kept(s, DOMAIN s) \in Seq(A)
  BY KeptIsPart
<1> QED BY <1>1, <1>3, <1>4

LEMMA NativePull ==
    ASSUME DInv, Native, Pull
    PROVE  Native'
<1>1. /\ processRev = current /\ UNCHANGED <<db, missed>>
      /\ native' = Pulled(Export(native.rev))
  BY DEF Pull
<1>2. Counts /\ Items /\ Order /\ Processed /\ Fresh
  BY <1>1 DEF DInv, Fresh
<1>3. PICK e : e = Export(native.rev)
  OBVIOUS
<1>4. /\ e.from = native.rev /\ e.to = current
      /\ e.newOrder = (native.rev < drawOrderRev)
      /\ DOMAIN e.items = {i \in Id : native.rev < rev[i]}
      /\ \A i \in DOMAIN e.items : e.items[i] = val[i]
      /\ e.newOrder => e.order = order
  BY <1>3, Exported
<1> DEFINE item == Merge(native.item, e.items)
<1>5. /\ native'.rev = current /\ native'.item = item
      /\ native'.made = {a \in native.made : ~Updates(e, a) /\ ~NewProgram(e, a)} \cup
                        {a \in Actions : Updates(e, a) /\ Finds(a, item)}
      /\ native'.order = NewOrder(e, native, item)
  BY <1>1, <1>3, <1>4 DEF Pulled
<1>6. \A i \in Id : /\ rev[i] \in Nat /\ val[i] \in Nat /\ native.item[i] \in Nat
                    /\ native.rev \in Nat /\ native.rev <= current /\ current \in Nat
                    /\ rev[i] <= current /\ (rev[i] > 0 => val[i] > 0)
  BY <1>2 DEF Counts, Items, Native
<1>7. item \in [Id -> Nat]
  BY <1>4, <1>6 DEF Merge
<1>8. \A i \in Id : 0 < rev[i] => item[i] = val[i]
  BY <1>4, <1>6 DEF Merge, Native
<1> HIDE DEF item
<1>9. ASSUME NEW a \in Linked, 0 < rev[a], a \notin missed, 0 < rev[ShaderOf[a]]
      PROVE  a \in native'.made
  <2>1. /\ a \in Id /\ a \in Actions /\ a \in HasShader
        /\ ShaderOf[a] \in Id /\ RefreshedBy(a) = {ShaderOf[a]}
    BY References
  <2>2. ~(rev[a] < rev[ShaderOf[a]])
    BY <1>2, <1>9, <2>1 DEF Processed, Due
  <2>3. CASE native.rev < rev[a]
    <3>1. item[ShaderOf[a]] > 0
      BY <1>6, <1>8, <1>9, <2>1
    <3>2. Finds(a, item)
      <4>1. Kind[a] = "SetShader" \/ Kind[a] = "SetUniforms"
        BY DEF Linked
      <4> QED BY <3>1, <4>1 DEF Finds, FindsShader, FindsUniforms
    <3> QED BY <1>4, <1>5, <2>1, <2>3, <3>2 DEF Updates
  <2>4. CASE ~(native.rev < rev[a])
    <3>1. rev[a] <= native.rev /\ rev[ShaderOf[a]] <= native.rev
      BY <1>6, <2>1, <2>2, <2>4
    <3>2. a \in native.made
      BY <1>9, <3>1 DEF Native, IsMade
    <3>3. ~Updates(e, a) /\ ~NewProgram(e, a)
      BY <1>4, <1>6, <2>1, <3>1 DEF Updates, NewProgram
    <3> QED BY <1>5, <3>2, <3>3
  <2> QED BY <2>3, <2>4
<1>10. native'.order \in Seq(Actions) /\ IsPartOf(order, native'.order)
  <2>1. order \in Seq(Actions) /\ \A j \in DOMAIN order : item[order[j]] > 0
    BY <1>2, <1>6, <1>8, OrderHas DEF Counts, Order
  <2>2. CASE native.rev < drawOrderRev
    <3>1. native'.order = Present(order, item)
      BY <1>4, <1>5, <2>2 DEF NewOrder
    <3> QED BY <2>1, <3>1, AllPresent
  <2>3. CASE ~(native.rev < drawOrderRev)
    <3>1. drawOrderRev <= native.rev
      BY <1>2, <2>3 DEF Counts, Native
    <3>2. native'.order = native.order
      BY <1>4, <1>5, <2>3 DEF NewOrder
    <3> QED BY <3>1, <3>2 DEF Native
  <2> QED BY <2>2, <2>3
<1>11. /\ current' = current /\ rev' = rev /\ val' = val /\ missed' = missed
       /\ order' = order /\ drawOrderRev' = drawOrderRev /\ current \in Nat
  BY <1>1, <1>2 DEF db, Counts
<1>12. native'.rev \in Nat /\ native'.rev <= current'
  BY <1>5, <1>11
<1>13. \A i \in Id : 0 < rev'[i] /\ rev'[i] <= native'.rev => native'.item[i] = val'[i]
  BY <1>5, <1>8, <1>11
<1>14. IsMade(native.made, native.rev)'
  BY <1>9, <1>11 DEF IsMade
<1> QED BY <1>5, <1>7, <1>10, <1>11, <1>12, <1>13, <1>14 DEF Native

LEMMA NativeStep ==
    ASSUME DInv, DInv', Native, [Next]_vars
    PROVE  Native'
<1>1. CASE Application
  BY <1>1, ApplicationChanges, NativeChanged
<1>2. CASE Pull
  BY <1>2, NativePull
<1>3. CASE UNCHANGED <<db, native, missed>>
  BY <1>3 DEF db, Native, IsMade
<1>4. CASE Render \/ \E s \in Slot : Ask(s) \/ Serve(s) \/ Parse(s) \/ Lose(s)
  BY <1>3, <1>4 DEF Render, Ask, Serve, Parse, Lose
<1>5. CASE UNCHANGED vars
  BY <1>3, <1>5 DEF vars
<1> QED BY <1>1, <1>2, <1>4, <1>5 DEF Next

-----------------------------------------------------------------------------
(* A browser, and the answers on their way to it, when the database moves. *)

LEMMA WebItemsChanged ==
    ASSUME DInv, DInv', WebType, WebItems, Changed
    PROVE  WebItems'
<1>1. web' = web
  BY DEF Changed, Clients
<1>2. PICK n \in Nat : n = web.rev /\ n <= current
  BY DEF WebType
<1>3. ASSUME NEW i \in Id, rev'[i] > 0, val'[i] <= n, HasItsShader(i)'
      PROVE  web.item[i] = val'[i]
  <2>1. 0 < rev[i] /\ val'[i] = val[i]
    BY <1>2, <1>3, StillHeld
  <2>2. HasItsShader(i)
    BY <1>3, <2>1, ShaderWasThere
  <2> QED BY <1>2, <1>3, <2>1, <2>2 DEF WebItems
<1>4. ASSUME NEW x \in Id, x \notin Actions, rev'[x] > 0, web.item[x] = 0,
             NEW j \in Id, x <= j, rev'[j] > 0
      PROVE  n < val'[j]
  <2> SUFFICES ASSUME val'[j] <= n
               PROVE  FALSE
    BY DEF DInv, Counts
  <2>1. 0 < rev[j] /\ val'[j] = val[j]
    BY <1>2, <1>4, StillHeld
  <2>2. j < nextId /\ j \in Nat /\ x \in Nat /\ nextId \in Nat /\ rev[x] \in Nat
        /\ val[j] \in Nat
    BY <2>1, References DEF DInv, Items, Counts
  <2>3. rev[x] > 0
    BY <1>4, <2>2 DEF Changed
  <2>4. n < val[j]
    BY <1>2, <1>4, <2>1, <2>3 DEF WebItems, Unknown
  <2> QED BY <2>1, <2>2, <2>4
<1> QED BY <1>1, <1>2, <1>3, <1>4 DEF WebItems, Unknown

LEMMA WebMadeChanged ==
    ASSUME DInv, DInv', WebType, WebMade, Changed
    PROVE  WebMade'
<1>1. web' = web
  BY DEF Changed, Clients
<1>2. PICK n \in Nat : n = web.rev /\ n <= current
  BY DEF WebType
<1>3. PICK made, ready : made = web.made /\ ready = web.ready
  OBVIOUS
<1>4. IsMade(made, n) /\ IsReady(ready, n)
  BY <1>2, <1>3 DEF WebMade
<1>5. IsMade(made, n)'
  BY <1>2, <1>4, StaysMade
<1>6. IsReady(ready, n)'
  BY <1>2, <1>4, StaysReady
<1>7. web'.made = made /\ web'.ready = ready /\ web'.rev = n
  BY <1>1, <1>2, <1>3
<1>8. IsMade(web.made, web.rev)'
  BY <1>5, <1>7 DEF IsMade
<1>9. IsReady(web.ready, web.rev)'
  BY <1>6, <1>7 DEF IsReady
<1> QED BY <1>8, <1>9 DEF WebMade

LEMMA WebOrderChanged ==
    ASSUME DInv, DInv', WebType, WebOrder, Changed
    PROVE  WebOrder'
<1>1. web' = web
  BY DEF Changed, Clients
<1>2. PICK n \in Nat : n = web.rev /\ n <= current
  BY DEF WebType
<1>3. PICK c \in Nat : c = web.code.rev /\ c <= current
  BY DEF WebType
<1>4. PICK s \in Seq(Actions) : s = web.order
  BY DEF WebType
<1>5. PICK t \in Seq(Actions) : t = web.code.order
  BY DEF WebType
<1>6. ASSUME drawOrderRev' <= n
      PROVE  IsPartOf(order', s) /\ \A j \in DOMAIN order' : web.item[order'[j]] > 0
  <2>1. /\ drawOrderRev' = drawOrderRev
        /\ \A k \in DOMAIN order' : \E j \in DOMAIN order : order'[k] = order[j]
    BY <1>2, <1>6, OrderWas
  <2>2. IsPartOf(order, s) /\ \A j \in DOMAIN order : web.item[order[j]] > 0
    BY <1>2, <1>4, <1>6, <2>1 DEF WebOrder
  <2>3. IsPartOf(order', s)
    BY <1>2, <1>6, <2>2, StillPartOf
  <2> QED BY <2>1, <2>2, <2>3
<1>7. ASSUME drawOrderRev' <= c
      PROVE  IsPartOf(order', t)
  <2>1. drawOrderRev' = drawOrderRev
    BY <1>3, <1>7, OrderWas
  <2>2. IsPartOf(order, t)
    BY <1>3, <1>5, <1>7, <2>1 DEF WebOrder
  <2> QED BY <1>3, <1>7, <2>2, StillPartOf
<1>8. web'.rev = n /\ web'.code.rev = c /\ web'.order = s /\ web'.code.order = t
      /\ web'.item = web.item
  BY <1>1, <1>2, <1>3, <1>4, <1>5
<1> QED BY <1>6, <1>7, <1>8 DEF WebOrder

LEMMA AnswerItemsChanged ==
    ASSUME DInv, DInv', Changed, NEW e, AnswerType(e), AnswerItems(e), AnswerMade(e)
    PROVE  AnswerItems(e)' /\ AnswerMade(e)'
<1>1. e.from \in Nat /\ e.to \in Nat /\ e.from <= e.to /\ e.to <= current
      /\ current \in Nat
  BY DEF AnswerType, DInv, Counts
<1>2. ASSUME NEW i \in Id, rev'[i] > 0
      PROVE  /\ i \in DOMAIN e.items =>
                   e.from < rev'[i] /\ (val'[i] <= e.to => e.items[i] = val'[i])
             /\ i \notin DOMAIN e.items /\ val'[i] <= e.to => val'[i] <= e.from
  <2>1. rev[i] \in Nat /\ val[i] \in Nat /\ rev'[i] \in Nat /\ val'[i] \in Nat
    BY DEF DInv, Counts
  <2>2. CASE Anew(i)
    BY <1>1, <2>2 DEF Anew
  <2>3. CASE Same(i)
    BY <1>1, <2>1, <2>3 DEF Same, AnswerItems
  <2> QED BY <1>2, <2>2, <2>3 DEF Changed, Gone
<1>3. ASSUME NEW a \in Actions, a \notin DOMAIN e.items, 0 < rev'[a], rev'[a] <= e.to,
             a \notin missed', \A x \in RefreshedBy(a) : 0 < rev'[x] /\ rev'[x] <= e.to
      PROVE  /\ rev'[a] <= e.from
             /\ \A x \in RefreshedBy(a) : rev'[x] <= e.from /\ x \notin DOMAIN e.items
  <2>1. a \in Id /\ \A x \in RefreshedBy(a) : x \in Id /\ x \notin Actions
    BY References
  <2>2. PICK n \in Nat : n = e.to /\ n <= current
    BY <1>1
  <2>3. 0 < rev[a] /\ rev[a] <= n /\ a \notin missed
    BY <1>3, <2>1, <2>2, StillThere
  <2>4. \A x \in RefreshedBy(a) : 0 < rev[x] /\ rev[x] <= n /\ rev'[x] = rev[x]
    BY <1>3, <2>1, <2>2, StillThere
  <2>5. /\ rev[a] <= e.from
        /\ \A x \in RefreshedBy(a) : rev[x] <= e.from /\ x \notin DOMAIN e.items
    BY <1>3, <2>2, <2>3, <2>4 DEF AnswerMade
  <2>6. rev'[a] = rev[a] \/ \E x \in RefreshedBy(a) : rev'[a] = rev[x]
    BY <1>1, <1>3, <2>1 DEF Changed, Anew, Gone, Same
  <2> QED BY <2>4, <2>5, <2>6
<1> QED BY <1>2, <1>3 DEF AnswerItems, AnswerMade

LEMMA AnswerOrderChanged ==
    ASSUME DInv, DInv', Changed, NEW e, AnswerType(e), AnswerOrder(e), AnswerComplete(e)
    PROVE  AnswerOrder(e)' /\ AnswerComplete(e)'
<1>1. PICK n \in Nat : n = e.to /\ n <= current
  BY DEF AnswerType
<1>2. web' = web
  BY DEF Changed, Clients
<1>3. e.newOrder => e.order \in Seq(Actions)
  BY DEF AnswerType
<1>4. ASSUME drawOrderRev' <= n
      PROVE  /\ drawOrderRev' = drawOrderRev
             /\ \A k \in DOMAIN order' : \E j \in DOMAIN order : order'[k] = order[j]
             /\ IF e.newOrder THEN IsPartOf(order', e.order) ELSE drawOrderRev' <= e.from
  <2>1. /\ drawOrderRev' = drawOrderRev
        /\ \A k \in DOMAIN order' : \E j \in DOMAIN order : order'[k] = order[j]
    BY <1>1, <1>4, OrderWas
  <2>2. IF e.newOrder THEN IsPartOf(order, e.order) ELSE drawOrderRev <= e.from
    BY <1>1, <1>4, <2>1 DEF AnswerOrder
  <2>3. e.newOrder => IsPartOf(order', e.order)
    BY <1>1, <1>3, <1>4, <2>2, StillPartOf
  <2> QED BY <2>1, <2>2, <2>3
<1>5. AnswerOrder(e)'
  BY <1>1, <1>4 DEF AnswerOrder
<1>6. ASSUME e.from = web.rev, NEW x \in Id, x \notin Actions, rev'[x] > 0,
             web.item[x] = 0, x \notin DOMAIN e.items, NEW j \in Id, x <= j
      PROVE  j \notin DOMAIN e.items /\ (rev'[j] > 0 => n < val'[j])
  <2>1. /\ j \in Nat /\ x \in Nat /\ nextId \in Nat /\ rev[x] \in Nat /\ rev[j] \in Nat
        /\ val'[j] \in Nat
    BY References DEF DInv, Counts
  <2>2. rev'[j] > 0 /\ val'[j] <= n => 0 < rev[j] /\ val'[j] = val[j]
    BY <1>1, StillHeld
  <2>3. CASE rev[x] = 0
    <3>1. nextId <= x
      BY <1>6, <2>3 DEF Changed
    <3>2. j \notin DOMAIN e.items
      BY <1>6, <2>1, <3>1 DEF AnswerType
    <3>3. ~(rev[j] > 0)
      BY <1>6, <2>1, <3>1 DEF DInv, Items
    <3> QED BY <2>1, <2>2, <3>2, <3>3
  <2>4. CASE rev[x] # 0
    <3>1. Unknown(x)
      BY <1>6, <2>1, <2>4 DEF Unknown
    <3>2. j \notin DOMAIN e.items /\ (rev[j] > 0 => n < val[j])
      BY <1>1, <1>6, <3>1 DEF AnswerComplete
    <3> QED BY <2>1, <2>2, <3>2
  <2> QED BY <2>3, <2>4
<1>7. ASSUME e.from = web.rev, drawOrderRev' <= n, NEW k \in DOMAIN order'
      PROVE  IF order'[k] \in DOMAIN e.items
             THEN order'[k] \in HasShader => Comes(e, ShaderOf[order'[k]])
             ELSE web.item[order'[k]] > 0
  <2>1. PICK j \in DOMAIN order : order'[k] = order[j]
    BY <1>4, <1>7
  <2> QED BY <1>1, <1>4, <1>7, <2>1 DEF AnswerComplete
<1>8. AnswerComplete(e)'
  BY <1>1, <1>2, <1>6, <1>7 DEF AnswerComplete, Unknown, Comes
<1> QED BY <1>5, <1>8

LEMMA MessageChanged ==
    ASSUME DInv, DInv', Changed, NEW m, Message(m)
    PROVE  Message(m)'
<1>1. web' = web
  BY DEF Changed, Clients
<1>2. ASSUME NEW e, Answer(e)
      PROVE  Answer(e)'
  <2>1. AnswerType(e)'
    <3>1. /\ current <= current' /\ nextId <= nextId'
          /\ current \in Nat /\ nextId \in Nat /\ current' \in Nat /\ nextId' \in Nat
      BY DEF Changed, DInv, Counts
    <3>2. \A i \in Id : i \in Nat
      BY References
    <3>3. AnswerType(e)
      BY <1>2 DEF Answer
    <3> QED BY <1>1, <3>1, <3>2, <3>3 DEF AnswerType
  <2> QED BY <1>2, <2>1, AnswerItemsChanged, AnswerOrderChanged DEF Answer
<1>3. CASE m.kind = "answer" /\ Answer(m.it)
  BY <1>2, <1>3 DEF Message
<1>4. CASE ~(m.kind = "answer" /\ Answer(m.it))
  BY <1>1, <1>4 DEF Message
<1> QED BY <1>3, <1>4

LEMMA WebChanged ==
    ASSUME DInv, DInv', WInv, Changed
    PROVE  WInv'
<1>1. web' = web /\ net' = net /\ overtaken' = overtaken
  BY DEF Changed, Clients
<1> SUFFICES ASSUME ~overtaken
             PROVE  (WebType /\ WebItems /\ WebMade /\ WebOrder /\ Net)'
  BY <1>1 DEF WInv
<1>2. WebType /\ WebItems /\ WebMade /\ WebOrder /\ Net
  BY DEF WInv
<1>3. WebType'
  BY <1>1, <1>2 DEF WebType, Changed, DInv, Counts
<1>4. ASSUME NEW s \in Slot
      PROVE  Message(net[s])'
  <2>1. PICK m : m = net[s]
    OBVIOUS
  <2>2. Message(m)
    BY <1>2, <2>1 DEF Net
  <2>3. Message(m)'
    BY <2>2, MessageChanged
  <2>4. net'[s] = m
    BY <1>1, <2>1
  <2> QED BY <2>3, <2>4 DEF Message
<1>5. Net'
  BY <1>1, <1>2, <1>4 DEF Net
<1> QED BY <1>2, <1>3, <1>5, WebItemsChanged, WebMadeChanged, WebOrderChanged

-----------------------------------------------------------------------------
(* The steps of a browser.                                                 *)

LEMMA WebSame ==
    ASSUME UNCHANGED <<db, missed, web>>, WebType, WebItems, WebMade, WebOrder
    PROVE  (WebType /\ WebItems /\ WebMade /\ WebOrder)'
BY DEF db, WebType, WebItems, WebMade, WebOrder, IsMade, IsReady, Unknown, HasItsShader

LEMMA MessageSame ==
    ASSUME UNCHANGED <<db, missed, web>>, NEW m, Message(m)
    PROVE  Message(m)'
BY DEF db, Message, Answer, AnswerType, AnswerItems, AnswerMade, AnswerOrder,
       AnswerComplete, Unknown, Comes

\* One slot gets another message.
LEMMA NetSame ==
    ASSUME UNCHANGED <<db, missed, web, overtaken>>, WInv, NEW s \in Slot, NEW m,
           ~overtaken => Message(m), net' = [net EXCEPT ![s] = m]
    PROVE  WInv'
<1> SUFFICES ASSUME ~overtaken
             PROVE  (WebType /\ WebItems /\ WebMade /\ WebOrder /\ Net)'
  BY DEF WInv
<1>1. WebType /\ WebItems /\ WebMade /\ WebOrder /\ Net
  BY DEF WInv
<1>2. ASSUME NEW r \in Slot
      PROVE  Message(net[r])'
  <2>1. PICK k : k = IF r = s THEN m ELSE net[r]
    OBVIOUS
  <2>2. Message(k)
    BY <1>1, <2>1 DEF Net
  <2>3. Message(k)'
    BY <2>2, MessageSame
  <2>4. net'[r] = k
    BY <1>1, <2>1 DEF Net
  <2> QED BY <2>3, <2>4 DEF Message
<1>3. Net'
  BY <1>1, <1>2 DEF Net
<1> QED BY <1>1, <1>3, WebSame

\* The answer to a request, when it is made.
LEMMA AnswerIsRight ==
    ASSUME DInv, Fresh, WebType, WebItems, WebMade, WebOrder,
           NEW has \in Nat, has <= web.rev
    PROVE  Answer(Export(has))
<1>1. PICK e : e = Export(has)
  OBVIOUS
<1>2. /\ e.from = has /\ e.to = current /\ e.newOrder = (has < drawOrderRev)
      /\ DOMAIN e.items = {i \in Id : has < rev[i]}
      /\ \A i \in DOMAIN e.items : e.items[i] = val[i]
      /\ e.order = IF has < drawOrderRev THEN order ELSE <<>>
  BY <1>1, Exported
<1>3. Counts /\ Items /\ Order /\ Processed
  BY DEF DInv
<1>4. /\ current \in Nat /\ web.rev \in Nat /\ web.rev <= current /\ nextId \in Nat
      /\ drawOrderRev \in Nat /\ drawOrderRev <= current
  BY <1>3 DEF WebType, Counts
<1>5. \A i \in Id : /\ rev[i] \in Nat /\ val[i] \in Nat /\ rev[i] <= current
                    /\ val[i] <= rev[i] /\ (rev[i] > 0 => val[i] > 0 /\ i < nextId)
                    /\ web.item[i] \in Nat /\ i \in Nat
  BY <1>3, References DEF Counts, Items, WebType
<1>6. AnswerType(e)
  <2>1. e.order \in Seq(Actions) /\ e.newOrder \in BOOLEAN
    BY <1>2, <1>3 DEF Counts
  <2> QED BY <1>2, <1>4, <1>5, <2>1 DEF AnswerType
<1>7. AnswerItems(e)
  BY <1>2, <1>4, <1>5 DEF AnswerItems
<1>8. AnswerMade(e)
  <2> SUFFICES ASSUME NEW a \in Actions, a \notin DOMAIN e.items, 0 < rev[a],
                      a \notin missed
               PROVE  /\ rev[a] <= e.from
                      /\ \A x \in RefreshedBy(a) :
                            rev[x] <= e.from /\ x \notin DOMAIN e.items
    BY DEF AnswerMade
  <2>1. a \in Id /\ \A x \in RefreshedBy(a) : x \in Id
    BY References
  <2>2. rev[a] <= has
    BY <1>2, <1>5, <2>1
  <2>3. \A x \in RefreshedBy(a) : ~(rev[a] < rev[x])
    BY <1>3 DEF Processed, Due
  <2> QED BY <1>2, <1>5, <2>1, <2>2, <2>3
<1>9. AnswerOrder(e)
  <2>1. IsPartOf(order, order)
    BY <1>3, WholeIsPart DEF Counts
  <2>2. CASE has < drawOrderRev
    <3>1. e.newOrder /\ e.order = order
      BY <1>2, <2>2
    <3>2. IsPartOf(order, e.order)
      BY <2>1, <3>1
    <3> QED BY <3>1, <3>2 DEF AnswerOrder
  <2>3. CASE ~(has < drawOrderRev)
    <3>1. ~e.newOrder
      BY <1>2, <2>3, Zenon
    <3>2. drawOrderRev <= e.from
      BY <1>2, <1>4, <2>3
    <3> QED BY <3>1, <3>2 DEF AnswerOrder
  <2> QED BY <2>2, <2>3
<1>10. ASSUME has = web.rev, NEW x \in Id, x \notin Actions, rev[x] > 0
       PROVE  x \in DOMAIN e.items \/ web.item[x] > 0
  <2> SUFFICES ASSUME web.item[x] = 0
               PROVE  x \in DOMAIN e.items
    BY <1>5
  <2>1. web.rev < val[x]
    BY <1>5, <1>10 DEF WebItems, Unknown
  <2> QED BY <1>2, <1>4, <1>5, <1>10, <2>1
<1>11. ASSUME has = web.rev, NEW j \in DOMAIN order
       PROVE  IF order[j] \in DOMAIN e.items
              THEN order[j] \in HasShader => Comes(e, ShaderOf[order[j]])
              ELSE web.item[order[j]] > 0
  <2>1. /\ order[j] \in Id /\ order[j] \in Actions /\ rev[order[j]] > 0
        /\ HasItsShader(order[j])
    BY <1>3, OrderHas DEF Order, Processed
  <2>2. CASE order[j] \in DOMAIN e.items
    <3> SUFFICES ASSUME order[j] \in HasShader
                 PROVE  Comes(e, ShaderOf[order[j]])
      BY <2>2
    <3>1. /\ ShaderOf[order[j]] \in Id /\ ShaderOf[order[j]] \notin Actions
          /\ rev[ShaderOf[order[j]]] > 0
      BY <2>1, References DEF HasItsShader
    <3> QED BY <1>10, <1>11, <3>1 DEF Comes
  <2>3. CASE order[j] \notin DOMAIN e.items
    <3>1. val[order[j]] <= web.rev
      BY <1>2, <1>4, <1>5, <1>11, <2>1, <2>3
    <3>2. web.item[order[j]] = val[order[j]]
      BY <2>1, <3>1 DEF WebItems
    <3> QED BY <1>5, <2>1, <2>3, <3>2
  <2> QED BY <2>2, <2>3
<1>12. AnswerComplete(e)
  BY <1>2, <1>5, <1>10, <1>11 DEF AnswerComplete, Unknown
<1> QED BY <1>1, <1>6, <1>7, <1>8, <1>9, <1>12 DEF Answer

LEMMA RequestStep ==
    ASSUME DInv, WInv, NEW s \in Slot, Ask(s) \/ Serve(s) \/ Lose(s)
    PROVE  WInv'
<1>1. CASE Ask(s)
  <2>1. PICK m : m = [kind |-> "request", from |-> web.rev]
    OBVIOUS
  <2>2. ~overtaken => Message(m)
    BY <2>1 DEF Message, WInv, WebType
  <2> QED BY <1>1, <2>1, <2>2, NetSame DEF Ask
<1>2. CASE Lose(s)
  <2>1. Message(Idle)
    BY DEF Message
  <2> QED BY <1>2, <2>1, NetSame DEF Lose
<1>3. CASE Serve(s)
  <2>1. PICK m : m = [kind |-> "answer", it |-> Export(net[s].from)]
    OBVIOUS
  <2>2. ASSUME ~overtaken
        PROVE  Message(m)
    <3>1. WebType /\ WebItems /\ WebMade /\ WebOrder /\ Message(net[s])
      BY <2>2 DEF WInv, Net
    <3>2. net[s].from \in Nat /\ net[s].from <= web.rev
      <4>1. net[s].kind = "request"
        BY <1>3 DEF Serve
      <4> QED BY <3>1, <4>1 DEF Message, Idle
    <3>3. Fresh
      BY <1>3 DEF Serve, Fresh
    <3>4. Answer(Export(net[s].from))
      BY <3>1, <3>2, <3>3, AnswerIsRight
    <3> QED BY <2>1, <3>4 DEF Message
  <2> QED BY <1>3, <2>1, <2>2, NetSame DEF Serve
<1> QED BY <1>1, <1>2, <1>3

\* What parse() makes of the store.
Through(e) ==
    LET item == Merge(web.item, Sources(e))
    IN  {a \in Actions : Updates(e, a) /\ Throws(a, item)} = {}

LEMMA ParsedIs ==
    ASSUME WebType, NEW e, AnswerType(e), NEW early
    PROVE  LET w == Parsed(e, early) IN
           /\ w.item \in [Id -> Nat] /\ w.code = web.code
           /\ \A i \in Id : i \notin DOMAIN e.items => w.item[i] = web.item[i]
           /\ \A i \in DOMAIN e.items : w.item[i] \in {web.item[i], e.items[i]}
           /\ \A i \in DOMAIN e.items : i \notin Actions => w.item[i] = e.items[i]
           /\ w.rev = IF Through(e) THEN e.to ELSE web.rev
           /\ w.order = IF Through(e) /\ e.newOrder THEN e.order ELSE web.order
           /\ Through(e) => \A a \in Actions \cap DOMAIN e.items :
                 (a \in HasShader => Comes(e, ShaderOf[a])) =>
                     /\ w.item[a] = e.items[a] /\ a \in w.made
                     /\ BuffersOf[a] \subseteq w.ready
           /\ \A a \in web.made :
                 a \notin DOMAIN e.items /\ ~NewProgram(e, a) => a \in w.made
           /\ \A b \in web.ready : b \notin DOMAIN e.items => b \in w.ready
<1> DEFINE item == Merge(web.item, Sources(e))
           asked == {a \in Actions : Updates(e, a)}
           throws == {a \in asked : Throws(a, item)}
           stored == {a \in asked : ~Dropped(a, item) /\ \A t \in throws : Before(a, t)}
           halfway == {t \in throws : Kind[t] = "SetInputs" /\ \A u \in throws : ~Before(u, t)}
           all == Merge(item, [a \in stored \cup halfway |-> e.items[a]])
           w == Parsed(e, early)
<1>1. /\ w.item = all
      /\ w.made = {a \in web.made : a \notin halfway /\ ~NewProgram(e, a)} \cup stored
      /\ w.ready = {b \in web.ready : ~Updates(e, b)} \cup UNION {BuffersOf[a] : a \in stored}
                   \cup (early \cap UNION {BuffersOf[a] : a \in halfway})
      /\ w.rev = IF throws = {} THEN e.to ELSE web.rev
      /\ w.order = IF throws = {} /\ e.newOrder THEN e.order ELSE web.order
      /\ w.code = web.code
  BY DEF Parsed
<1>2. Through(e) <=> throws = {}
  BY DEF Through
<1>3. /\ DOMAIN e.items \subseteq Id /\ web.item \in [Id -> Nat] /\ Actions \subseteq Id
      /\ \A i \in DOMAIN e.items : e.items[i] \in Nat /\ e.items[i] > 0
  BY References DEF AnswerType, WebType
<1>4. \A i \in Id : item[i] = IF i \in DOMAIN e.items \ Actions THEN e.items[i] ELSE web.item[i]
  BY DEF Merge, Sources
<1>5. asked = Actions \cap DOMAIN e.items
  BY DEF Updates
<1>6. stored \subseteq asked /\ halfway \subseteq asked
  OBVIOUS
<1>7. \A i \in Id : all[i] = IF i \in stored \cup halfway THEN e.items[i] ELSE item[i]
  BY DEF Merge
<1>8. DOMAIN all = Id /\ \E f : all = [i \in Id |-> f[i]]
  <2>1. DOMAIN all = Id /\ all = [i \in Id |-> all[i]]
    BY DEF Merge
  <2> HIDE DEF all
  <2> QED BY <2>1
<1>9. ASSUME NEW a \in asked, throws = {}, a \in HasShader => Comes(e, ShaderOf[a])
      PROVE  a \in stored
  <2>1. a \in HasShader => ShaderOf[a] \in Id /\ ShaderOf[a] \notin Actions
    BY References
  <2>2. a \in HasShader => item[ShaderOf[a]] # 0
    <3> HIDE DEF item
    <3> QED BY <1>3, <1>4, <1>9, <2>1 DEF Comes
  <2>3. ~Dropped(a, item)
    <3> HIDE DEF item
    <3> QED BY <2>2 DEF Dropped
  <2> QED BY <1>9, <2>3
<1>10. \A a \in stored : BuffersOf[a] \subseteq w.ready /\ a \in w.made
  <2> HIDE DEF stored, halfway, w
  <2> QED BY <1>1
<1>11. \A b \in web.ready : b \notin DOMAIN e.items => b \in w.ready
  <2> HIDE DEF stored, halfway, w
  <2> QED BY <1>1 DEF Updates
<1>12. \A a \in web.made : a \notin DOMAIN e.items /\ ~NewProgram(e, a) => a \in w.made
  <2> HIDE DEF stored, halfway, w
  <2> QED BY <1>1, <1>5, <1>6
<1> HIDE DEF item, asked, throws, stored, halfway, all, w
<1>13. w.item \in [Id -> Nat]
  BY <1>1, <1>3, <1>4, <1>5, <1>6, <1>7, <1>8
<1>14. \A i \in Id : i \notin DOMAIN e.items => w.item[i] = web.item[i]
  BY <1>1, <1>4, <1>5, <1>6, <1>7
<1>15. \A i \in DOMAIN e.items : w.item[i] \in {web.item[i], e.items[i]}
  BY <1>1, <1>3, <1>4, <1>7
<1>16. \A i \in DOMAIN e.items : i \notin Actions => w.item[i] = e.items[i]
  BY <1>1, <1>3, <1>4, <1>7
<1>17. throws = {} => \A a \in Actions \cap DOMAIN e.items :
          (a \in HasShader => Comes(e, ShaderOf[a])) =>
              /\ w.item[a] = e.items[a] /\ a \in w.made
              /\ BuffersOf[a] \subseteq w.ready
  BY <1>1, <1>3, <1>5, <1>7, <1>9, <1>10
<1>18. /\ w.rev = IF Through(e) THEN e.to ELSE web.rev
       /\ w.order = IF Through(e) /\ e.newOrder THEN e.order ELSE web.order
       /\ w.code = web.code
  BY <1>1, <1>2
<1>19. Parsed(e, early) = w
  BY DEF w
<1> QED BY <1>2, <1>11, <1>12, <1>13, <1>14, <1>15, <1>16, <1>17, <1>18, <1>19

\* A message in another slot is as good after the answer as before it.
LEMMA MessageBeside ==
    ASSUME DInv, UNCHANGED <<db, missed>>, NEW m, Message(m),
           web.rev \in Nat, web'.rev \in Nat, web.rev <= web'.rev,
           \A i \in Id : web.item[i] \in Nat /\ web'.item[i] \in Nat
                         /\ (web.item[i] > 0 => web'.item[i] > 0)
    PROVE  Message(m)'
<1>1. ASSUME NEW e, Answer(e)
      PROVE  Answer(e)'
  <2>1. AnswerType(e) /\ AnswerItems(e) /\ AnswerMade(e) /\ AnswerOrder(e)
    BY <1>1 DEF Answer
  <2>2. AnswerType(e)'
    BY <2>1 DEF db, AnswerType
  <2>3. AnswerItems(e)' /\ AnswerMade(e)' /\ AnswerOrder(e)'
    BY <2>1 DEF db, AnswerItems, AnswerMade, AnswerOrder
  <2>4. ASSUME e.from = web'.rev
        PROVE  e.from = web.rev
    BY <2>1, <2>4 DEF AnswerType
  <2>5. ASSUME NEW x \in Id, Unknown(x)'
        PROVE  Unknown(x)
    BY <2>5 DEF db, Unknown
  <2>6. ASSUME NEW a \in HasShader, Comes(e, ShaderOf[a])
        PROVE  Comes(e, ShaderOf[a])'
    BY <2>6, References DEF Comes
  <2>7. ASSUME NEW j \in DOMAIN order, web.item[order[j]] > 0
        PROVE  web'.item[order[j]] > 0
    <3>1. order[j] \in Id
      BY OrderHas DEF DInv
    <3> QED BY <2>7, <3>1
  <2>8. AnswerComplete(e)'
    BY <1>1, <2>4, <2>5, <2>6, <2>7 DEF db, Answer, AnswerComplete
  <2> QED BY <2>2, <2>3, <2>8 DEF Answer
<1>2. CASE m.kind = "answer" /\ Answer(m.it)
  BY <1>1, <1>2 DEF Message
<1>3. CASE ~(m.kind = "answer" /\ Answer(m.it))
  BY <1>3 DEF Message
<1> QED BY <1>2, <1>3

LEMMA ParseStep ==
    ASSUME DInv, WInv, NEW s \in Slot, Parse(s)
    PROVE  WInv'
<1> SUFFICES ASSUME ~overtaken'
             PROVE  (WebType /\ WebItems /\ WebMade /\ WebOrder /\ Net)'
  BY DEF WInv
<1>1. /\ net[s].kind = "answer" /\ net' = [net EXCEPT ![s] = Idle]
      /\ ~overtaken /\ net[s].it.from = web.rev /\ UNCHANGED <<db, missed>>
  BY DEF Parse
<1>2. WebType /\ WebItems /\ WebMade /\ WebOrder /\ Net
  BY <1>1 DEF WInv
<1>3. PICK e : e = net[s].it
  OBVIOUS
<1>4. Answer(e) /\ e.from = web.rev
  BY <1>1, <1>2, <1>3 DEF Net, Message, Idle
<1>5. AnswerType(e) /\ AnswerItems(e) /\ AnswerMade(e) /\ AnswerOrder(e) /\ AnswerComplete(e)
  BY <1>4 DEF Answer
<1>6. PICK early : web' = Parsed(e, early)
  BY <1>3 DEF Parse
<1>7. PICK w : w = Parsed(e, early)
  OBVIOUS
<1>8. /\ w.item \in [Id -> Nat] /\ w.code = web.code
      /\ \A i \in Id : i \notin DOMAIN e.items => w.item[i] = web.item[i]
      /\ \A i \in DOMAIN e.items : w.item[i] \in {web.item[i], e.items[i]}
      /\ \A i \in DOMAIN e.items : i \notin Actions => w.item[i] = e.items[i]
  BY <1>2, <1>5, <1>7, ParsedIs
<1>9. /\ w.rev = IF Through(e) THEN e.to ELSE web.rev
      /\ w.order = IF Through(e) /\ e.newOrder THEN e.order ELSE web.order
  BY <1>2, <1>5, <1>7, ParsedIs
<1>10. Through(e) => \A a \in Actions \cap DOMAIN e.items :
          (a \in HasShader => Comes(e, ShaderOf[a])) =>
              /\ w.item[a] = e.items[a] /\ a \in w.made
              /\ BuffersOf[a] \subseteq w.ready
  BY <1>2, <1>5, <1>7, ParsedIs
<1>11. /\ \A a \in web.made :
             a \notin DOMAIN e.items /\ ~NewProgram(e, a) => a \in w.made
       /\ \A b \in web.ready : b \notin DOMAIN e.items => b \in w.ready
  BY <1>2, <1>5, <1>7, ParsedIs
<1>12. /\ e.from \in Nat /\ e.to \in Nat /\ e.from <= e.to /\ e.to <= current
       /\ current \in Nat /\ web.rev = e.from /\ w.rev \in Nat
       /\ e.from <= w.rev /\ w.rev <= e.to
  BY <1>4, <1>5, <1>9 DEF AnswerType, DInv, Counts
<1>13. \A i \in Id : /\ i \in Nat /\ rev[i] \in Nat /\ val[i] \in Nat /\ web.item[i] \in Nat
                     /\ w.item[i] \in Nat /\ val[i] <= rev[i]
                     /\ i \in DOMAIN e.items => e.items[i] \in Nat /\ e.items[i] > 0
                     /\ web.item[i] > 0 => w.item[i] > 0
  BY <1>2, <1>5, <1>8, References DEF AnswerType, WebType, DInv, Counts, Items
<1>14. /\ web' = w /\ current' = current /\ rev' = rev /\ val' = val /\ missed' = missed
       /\ order' = order /\ drawOrderRev' = drawOrderRev
  BY <1>1, <1>6, <1>7 DEF db
<1>15. ASSUME NEW a \in HasShader, a \in DOMAIN e.items, rev[ShaderOf[a]] > 0
       PROVE  Comes(e, ShaderOf[a])
  <2>1. /\ ShaderOf[a] \in Id /\ ShaderOf[a] \notin Actions /\ a \in Id
        /\ ShaderOf[a] <= a
    BY References
  <2>2. SUFFICES ASSUME ShaderOf[a] \notin DOMAIN e.items, web.item[ShaderOf[a]] = 0
                 PROVE  FALSE
    BY <1>13, <2>1 DEF Comes
  <2>3. Unknown(ShaderOf[a])
    BY <1>15, <2>1, <2>2 DEF Unknown
  <2> QED BY <1>4, <1>5, <1>15, <2>1, <2>2, <2>3 DEF AnswerComplete
<1>16. WebType'
  <2>1. e.order \in Seq(Actions)
    BY <1>5 DEF AnswerType
  <2> QED BY <1>2, <1>8, <1>9, <1>12, <1>14, <2>1 DEF WebType
<1>17. ASSUME NEW i \in Id, rev[i] > 0, val[i] <= w.rev, HasItsShader(i)
       PROVE  w.item[i] = val[i]
  <2>1. CASE i \notin DOMAIN e.items
    <3>1. val[i] <= web.rev
      BY <1>5, <1>12, <1>13, <1>17, <2>1 DEF AnswerItems
    <3> QED BY <1>2, <1>8, <1>17, <2>1, <3>1 DEF WebItems
  <2>2. CASE i \in DOMAIN e.items
    <3>1. e.items[i] = val[i]
      BY <1>5, <1>12, <1>13, <1>17, <2>2 DEF AnswerItems
    <3>2. CASE ~Through(e)
      <4>1. web.item[i] = val[i]
        BY <1>2, <1>9, <1>17, <3>2 DEF WebItems
      <4> QED BY <1>8, <2>2, <3>1, <4>1
    <3>3. CASE Through(e) /\ i \in Actions
      <4>1. i \in HasShader => Comes(e, ShaderOf[i])
        BY <1>15, <1>17, <2>2 DEF HasItsShader
      <4> QED BY <1>10, <2>2, <3>1, <3>3, <4>1
    <3>4. CASE i \notin Actions
      BY <1>8, <2>2, <3>1, <3>4
    <3> QED BY <3>2, <3>3, <3>4
  <2> QED BY <2>1, <2>2
<1>18. ASSUME NEW x \in Id, x \notin Actions, rev[x] > 0, w.item[x] = 0,
              NEW j \in Id, x <= j, rev[j] > 0
       PROVE  w.rev < val[j]
  <2>1. x \notin DOMAIN e.items
    BY <1>8, <1>13, <1>18
  <2>2. Unknown(x)
    BY <1>8, <1>18, <2>1 DEF Unknown
  <2>3. e.to < val[j]
    BY <1>4, <1>5, <1>18, <2>1, <2>2 DEF AnswerComplete
  <2> QED BY <1>12, <1>13, <2>3
<1>19. WebItems'
  BY <1>14, <1>17, <1>18 DEF WebItems, Unknown, HasItsShader
<1>20. ASSUME NEW a \in Actions, 0 < rev[a], rev[a] <= w.rev, a \notin missed,
              \A x \in RefreshedBy(a) : 0 < rev[x] /\ rev[x] <= w.rev
       PROVE  \/ Through(e) /\ a \in DOMAIN e.items
              \/ /\ a \notin DOMAIN e.items /\ rev[a] <= web.rev
                 /\ \A x \in RefreshedBy(a) : rev[x] <= web.rev /\ x \notin DOMAIN e.items
  <2>1. a \in Id /\ \A x \in RefreshedBy(a) : x \in Id
    BY References
  <2>2. CASE ~Through(e)
    <3>1. rev[a] <= e.from /\ \A x \in RefreshedBy(a) : rev[x] <= e.from
      BY <1>4, <1>9, <1>20, <2>2
    <3> QED BY <1>5, <1>12, <1>13, <1>20, <2>1, <3>1 DEF AnswerItems
  <2>3. CASE Through(e) /\ a \notin DOMAIN e.items
    <3>1. rev[a] <= e.to /\ \A x \in RefreshedBy(a) : rev[x] <= e.to
      BY <1>9, <1>20, <2>3
    <3> QED BY <1>5, <1>12, <1>20, <2>3, <3>1 DEF AnswerMade
  <2> QED BY <2>2, <2>3
<1>21. ASSUME NEW a \in Linked, 0 < rev[a], rev[a] <= w.rev, a \notin missed,
              0 < rev[ShaderOf[a]], rev[ShaderOf[a]] <= w.rev
       PROVE  a \in w.made
  <2>1. a \in Actions /\ a \in HasShader /\ RefreshedBy(a) = {ShaderOf[a]}
    BY References
  <2>2. CASE Through(e) /\ a \in DOMAIN e.items
    BY <1>10, <1>15, <1>21, <2>1, <2>2
  <2>3. CASE /\ a \notin DOMAIN e.items /\ rev[a] <= web.rev
             /\ rev[ShaderOf[a]] <= web.rev /\ ShaderOf[a] \notin DOMAIN e.items
    <3>1. a \in web.made
      BY <1>2, <1>21, <2>3 DEF WebMade, IsMade
    <3> QED BY <1>11, <2>3, <3>1 DEF NewProgram, Updates
  <2> QED BY <1>20, <1>21, <2>1, <2>2, <2>3
<1>22. ASSUME NEW a \in Actions, 0 < rev[a], rev[a] <= w.rev, a \notin missed,
              HasItsShader(a), \A b \in BuffersOf[a] : 0 < rev[b] /\ rev[b] <= w.rev,
              NEW c \in BuffersOf[a]
       PROVE  c \in w.ready
  <2>1. RefreshedBy(a) = BuffersOf[a]
    BY References
  <2>2. CASE Through(e) /\ a \in DOMAIN e.items
    <3>1. a \in HasShader => Comes(e, ShaderOf[a])
      BY <1>15, <1>22, <2>2 DEF HasItsShader
    <3> QED BY <1>10, <2>2, <3>1
  <2>3. CASE /\ a \notin DOMAIN e.items /\ rev[a] <= web.rev
             /\ \A x \in BuffersOf[a] : rev[x] <= web.rev /\ x \notin DOMAIN e.items
    <3>1. c \in web.ready
      BY <1>2, <1>22, <2>3 DEF WebMade, IsReady
    <3> QED BY <1>11, <2>3, <3>1
  <2> QED BY <1>20, <1>22, <2>1, <2>2, <2>3
<1>23. WebMade'
  BY <1>14, <1>21, <1>22 DEF WebMade, IsMade, IsReady, HasItsShader
<1>24. ASSUME drawOrderRev <= w.rev
       PROVE  IsPartOf(order, w.order)
  <2>1. CASE Through(e) /\ e.newOrder
    <3>1. IsPartOf(order, e.order)
      BY <1>5, <1>9, <1>24, <2>1 DEF AnswerOrder
    <3> QED BY <1>9, <2>1, <3>1
  <2>2. CASE ~(Through(e) /\ e.newOrder)
    <3>1. drawOrderRev <= web.rev
      BY <1>4, <1>5, <1>9, <1>24, <2>2 DEF AnswerOrder
    <3>2. w.order = web.order
      BY <1>9, <2>2
    <3> QED BY <1>2, <3>1, <3>2 DEF WebOrder
  <2> QED BY <2>1, <2>2
<1>25. ASSUME drawOrderRev <= w.rev, NEW j \in DOMAIN order
       PROVE  w.item[order[j]] > 0
  <2>1. order[j] \in Actions /\ order[j] \in Id
    BY OrderHas DEF DInv
  <2>2. CASE ~Through(e) \/ order[j] \notin DOMAIN e.items
    <3>1. web.item[order[j]] > 0
      <4>1. CASE ~Through(e)
        BY <1>2, <1>9, <1>25, <4>1 DEF WebOrder
      <4>2. CASE Through(e) /\ order[j] \notin DOMAIN e.items
        BY <1>4, <1>5, <1>9, <1>25, <4>2 DEF AnswerComplete
      <4> QED BY <2>2, <4>1, <4>2
    <3> QED BY <1>13, <2>1, <3>1
  <2>3. CASE Through(e) /\ order[j] \in DOMAIN e.items
    <3>1. order[j] \in HasShader => Comes(e, ShaderOf[order[j]])
      BY <1>4, <1>5, <1>9, <1>25, <2>3 DEF AnswerComplete
    <3>2. w.item[order[j]] = e.items[order[j]]
      BY <1>10, <2>1, <2>3, <3>1
    <3> QED BY <1>13, <2>1, <2>3, <3>2
  <2> QED BY <2>2, <2>3
<1>26. WebOrder'
  BY <1>2, <1>8, <1>14, <1>24, <1>25 DEF WebOrder
<1>27. ASSUME NEW r \in Slot
       PROVE  Message(net[r])'
  <2>1. PICK k : k = net[r]
    OBVIOUS
  <2>2. Message(k)
    BY <1>2, <2>1 DEF Net
  <2>3. Message(k)'
    BY <1>1, <1>12, <1>13, <1>14, <2>2, MessageBeside
  <2>4. CASE r = s
    BY <1>1, <1>2, <2>4 DEF Net, Message
  <2>5. CASE r # s
    <3>1. net'[r] = k
      BY <1>1, <1>2, <2>1, <2>5 DEF Net
    <3> QED BY <2>3, <3>1 DEF Message
  <2> QED BY <2>4, <2>5
<1>28. Net'
  BY <1>1, <1>2, <1>27 DEF Net
<1> QED BY <1>16, <1>19, <1>23, <1>26, <1>28

LEMMA RenderStep ==
    ASSUME DInv, WInv, Render
    PROVE  WInv'
<1>1. /\ UNCHANGED <<db, missed, net, overtaken>>
      /\ web' = [web EXCEPT !.code = [rev |-> web.rev,
                                      order |-> Present(web.order, web.item)]]
  BY DEF Render
<1> SUFFICES ASSUME ~overtaken
             PROVE  (WebType /\ WebItems /\ WebMade /\ WebOrder /\ Net)'
  BY <1>1 DEF WInv
<1>2. WebType /\ WebItems /\ WebMade /\ WebOrder /\ Net
  BY DEF WInv
<1>3. PICK s \in Seq(Actions) : s = web.order
  BY <1>2 DEF WebType
<1> DEFINE S == {j \in DOMAIN s : web.item[s[j]] > 0}
<1>4. Present(web.order, web.item) = Kept(s, S) /\ S \in SUBSET DOMAIN s
  BY <1>3 DEF Present
<1>5. Kept(s, S) \in Seq(Actions)
  <2> HIDE DEF S
  <2> QED BY <1>4, KeptIsPart
<1>6. ASSUME drawOrderRev <= web.rev
      PROVE  IsPartOf(order, Kept(s, S))
  <2>1. PICK at \in [DOMAIN order -> DOMAIN s] :
           /\ \A j \in DOMAIN order : order[j] = s[at[j]]
           /\ \A j, k \in DOMAIN order : j < k => at[j] < at[k]
    BY <1>2, <1>3, <1>6 DEF WebOrder, IsPartOf
  <2>2. \A j \in DOMAIN order : web.item[order[j]] > 0
    BY <1>2, <1>6 DEF WebOrder
  <2>3. \A j \in DOMAIN order : at[j] \in S
    BY <2>1, <2>2
  <2> HIDE DEF S
  <2>4. at \in [DOMAIN order -> S]
    BY <2>1, <2>3
  <2>5. order \in Seq(Actions)
    BY DEF DInv, Counts
  <2> QED BY <1>4, <2>1, <2>4, <2>5, PartIsKept
<1> HIDE DEF S
<1>7. PICK w : w = web'
  OBVIOUS
<1>8. /\ w.item = web.item /\ w.rev = web.rev /\ w.made = web.made
      /\ w.ready = web.ready /\ w.order = web.order
      /\ w.code = [rev |-> web.rev, order |-> Kept(s, S)]
  <2>1. web' = [web EXCEPT !.code = [rev |-> web.rev, order |-> Kept(s, S)]]
    BY <1>1, <1>4
  <2> QED BY <1>7, <2>1
<1>9. /\ web' = w /\ current' = current /\ rev' = rev /\ val' = val /\ missed' = missed
      /\ order' = order /\ drawOrderRev' = drawOrderRev /\ net' = net
  BY <1>1, <1>7 DEF db
<1>10. WebType'
  BY <1>2, <1>5, <1>8, <1>9 DEF WebType
<1>11. WebItems' /\ WebMade'
  BY <1>2, <1>8, <1>9
     DEF WebItems, WebMade, IsMade, IsReady, Unknown, HasItsShader
<1>12. WebOrder'
  BY <1>2, <1>6, <1>8, <1>9 DEF WebOrder
<1>13. ASSUME NEW r \in Slot
       PROVE  Message(net[r])'
  <2>1. PICK k : k = net[r]
    OBVIOUS
  <2>2. Message(k)
    BY <1>2, <2>1 DEF Net
  <2>3. /\ web.rev \in Nat /\ web'.rev \in Nat /\ web.rev <= web'.rev
        /\ \A i \in Id : web.item[i] \in Nat /\ web'.item[i] \in Nat
                         /\ (web.item[i] > 0 => web'.item[i] > 0)
    BY <1>2, <1>8, <1>9 DEF WebType
  <2>4. Message(k)'
    BY <1>1, <2>2, <2>3, MessageBeside
  <2>5. net'[r] = k
    BY <1>9, <2>1
  <2> QED BY <2>4, <2>5 DEF Message
<1>14. Net'
  BY <1>2, <1>9, <1>13 DEF Net
<1> QED BY <1>10, <1>11, <1>12, <1>14

LEMMA WebStep ==
    ASSUME DInv, DInv', WInv, [Next]_vars
    PROVE  WInv'
<1>1. CASE Application
  BY <1>1, ApplicationChanges, WebChanged
<1>2. ASSUME UNCHANGED <<db, web, net, missed, overtaken>>
      PROVE  WInv'
  <2> SUFFICES ASSUME ~overtaken
               PROVE  (WebType /\ WebItems /\ WebMade /\ WebOrder /\ Net)'
    BY <1>2 DEF WInv
  <2>1. WebType /\ WebItems /\ WebMade /\ WebOrder /\ Net
    BY DEF WInv
  <2>2. ASSUME NEW r \in Slot
        PROVE  Message(net[r])'
    <3>1. PICK k : k = net[r]
      OBVIOUS
    <3>2. Message(k)'
      BY <1>2, <2>1, <3>1, MessageSame DEF Net
    <3>3. net'[r] = k
      BY <1>2, <3>1
    <3> QED BY <3>2, <3>3 DEF Message
  <2>3. Net'
    BY <1>2, <2>1, <2>2 DEF Net
  <2> QED BY <1>2, <2>1, <2>3, WebSame
<1>3. CASE Pull
  BY <1>2, <1>3 DEF Pull
<1>4. CASE UNCHANGED vars
  BY <1>2, <1>4 DEF vars
<1> QED BY <1>1, <1>3, <1>4, RequestStep, ParseStep, RenderStep DEF Next

-----------------------------------------------------------------------------
(* The theorems.                                                           *)

LEMMA ClientsInit ==
    Init => Native /\ WInv
<1> SUFFICES ASSUME Init PROVE Native /\ WInv
  OBVIOUS
<1>1. DInv
  BY DatabaseInit
<1>2. Counts /\ Items
  BY <1>1 DEF DInv
<1>3. PICK nothing : nothing = [i \in Id |-> 0]
  OBVIOUS
<1>4. /\ native = [rev |-> 0, item |-> nothing, made |-> {}, order |-> <<>>]
      /\ web = [rev |-> 0, item |-> nothing, made |-> {}, ready |-> {},
                order |-> <<>>, code |-> [rev |-> 0, order |-> <<>>]]
      /\ net = [s \in Slot |-> Idle] /\ drawOrderRev = current
  BY <1>3 DEF Init
<1>5. \A i \in Id : rev[i] \in Nat /\ val[i] \in Nat /\ (rev[i] > 0 => val[i] > 0)
  BY <1>2 DEF Counts, Items
<1>6. nothing \in [Id -> Nat] /\ <<>> \in Seq(Actions) /\ current \in Nat
      /\ \A i \in Id : nothing[i] = 0
  BY <1>2, <1>3 DEF Counts
<1>7. \A a \in Actions : a \in Id
  BY References
<1>8. \A a \in Linked : a \in Id
  BY <1>7, References
<1>9. IsMade({}, 0) /\ IsReady({}, 0)
  BY <1>5, <1>7, <1>8 DEF IsMade, IsReady
<1>10. drawOrderRev <= 0 => order = <<>>
  <2>1. FirstItems \in Nat /\ Len(FirstOrder) \in Nat /\ FirstOrder \in Seq(Actions)
    BY FirstAssumption
  <2>2. drawOrderRev = FirstItems + Len(FirstOrder) /\ order = FirstOrder
    BY DEF Init
  <2> QED BY <2>1, <2>2
<1>11. IsPartOf(<<>>, <<>>)
  BY <1>6, WholeIsPart
<1>12. drawOrderRev <= 0 =>
          IsPartOf(order, <<>>) /\ \A j \in DOMAIN order : nothing[order[j]] > 0
  <2>1. DOMAIN << >> = {}
    OBVIOUS
  <2> QED BY <1>10, <1>11, <2>1
<1>13. Native
  BY <1>4, <1>5, <1>6, <1>9, <1>12 DEF Native
<1>14. WebType /\ WebItems /\ WebMade /\ WebOrder
  <2>1. /\ web.rev = 0 /\ web.item = nothing /\ web.made = {} /\ web.ready = {}
        /\ web.order = <<>> /\ web.code.rev = 0 /\ web.code.order = <<>>
    BY <1>4
  <2>2. WebType
    BY <1>6, <2>1 DEF WebType
  <2>3. WebItems
    BY <1>5, <1>6, <2>1 DEF WebItems
  <2>4. WebMade
    BY <1>9, <2>1 DEF WebMade
  <2>5. WebOrder
    BY <1>12, <2>1 DEF WebOrder
  <2> QED BY <2>2, <2>3, <2>4, <2>5
<1>15. Net
  BY <1>4 DEF Net, Message
<1> QED BY <1>13, <1>14, <1>15 DEF WInv

\* The invariant, for every list, every application and any number of requests.
THEOREM ClientsKeepUp == Spec => []LInv
<1>1. Init => LInv
  BY DatabaseInit, ClientsInit DEF LInv
<1>2. LInv /\ [Next]_vars => LInv'
  BY DatabaseStep, NativeStep, WebStep DEF LInv
<1> QED BY <1>1, <1>2, PTL DEF Spec

\* Neither the renderer nor a browser draws what the database does not have: at a
\* revision, each has what every sound item was last set to by then, its programs
\* are of the shaders that are there now, and its buffers are on the card.
THEOREM HonestClients == Spec => []ClientsAreHonest
<1>1. LInv => ClientsAreHonest
  <2> SUFFICES ASSUME LInv, Fresh
               PROVE  ClientsAreHonest
    BY DEF ClientsAreHonest, NativeIsHonest, WebIsHonest
  <2>1. DInv /\ Counts /\ Items /\ Processed /\ Native
    BY DEF LInv, DInv
  <2>2. \A i \in Id : /\ rev[i] \in Nat /\ val[i] \in Nat /\ val[i] <= rev[i]
    BY <2>1 DEF Counts, Items
  <2>3. ASSUME NEW i \in Id, Sound(i)
        PROVE  rev[i] > 0 /\ HasItsShader(i)
    BY <2>3 DEF Sound, HasItsShader, DependsOn, HasShader
  <2>4. ASSUME NEW n \in Nat, NEW a \in Actions, Sound(a), rev[a] <= n, a \notin missed
        PROVE  \A x \in RefreshedBy(a) : 0 < rev[x] /\ rev[x] <= n
    <3> SUFFICES ASSUME NEW x \in RefreshedBy(a)
                 PROVE  0 < rev[x] /\ rev[x] <= n
      OBVIOUS
    <3>1. a \in Id /\ x \in Id /\ rev[a] > 0
      BY <2>4, References DEF Sound
    <3>2. ~(rev[a] < rev[x])
      BY <2>1, <2>4, <3>1 DEF Processed, Due
    <3>3. x \in DependsOn(a)
      <4>1. CASE a \in Linked
        BY <4>1, References DEF DependsOn
      <4>2. CASE a \notin Linked
        BY <4>2 DEF Linked, RefreshedBy, DependsOn
      <4> QED BY <4>1, <4>2
    <3>4. rev[x] > 0
      BY <2>4, <3>3 DEF Sound
    <3> QED BY <2>2, <2>4, <3>1, <3>2, <3>4
  <2>5. ASSUME NEW a \in Actions, Kind[a] \in {"SetShader", "SetUniforms"}
        PROVE  a \in Linked /\ RefreshedBy(a) = {ShaderOf[a]}
    BY <2>5, References DEF Linked
  <2>6. NativeIsHonest
    <3>1. native.rev \in Nat
      BY <2>1 DEF Native
    <3>2. \A i \in Known(native) : native.item[i] = val[i]
      BY <2>1, <2>3 DEF Known, Native
    <3>3. ASSUME NEW a \in InStep(native), Kind[a] \in {"SetShader", "SetUniforms"}
          PROVE  a \in native.made
      <4>1. a \in Actions /\ Sound(a) /\ rev[a] <= native.rev /\ a \notin missed
        BY DEF InStep, Known
      <4>2. a \in Linked /\ RefreshedBy(a) = {ShaderOf[a]}
        BY <2>5, <3>3, <4>1
      <4>3. 0 < rev[ShaderOf[a]] /\ rev[ShaderOf[a]] <= native.rev
        BY <2>4, <3>1, <4>1, <4>2
      <4>4. IsMade(native.made, native.rev)
        BY <2>1 DEF Native
      <4> QED BY <4>1, <4>2, <4>3, <4>4 DEF IsMade, Sound
    <3> QED BY <3>2, <3>3 DEF NativeIsHonest
  <2>7. ASSUME ~overtaken
        PROVE  WebIsHonest
    <3>1. WebItems /\ WebMade /\ web.rev \in Nat
      BY <2>7 DEF LInv, WInv, WebType
    <3>2. ASSUME NEW i \in Known(web)
          PROVE  web.item[i] = val[i]
      <4>1. i \in Id /\ rev[i] > 0 /\ HasItsShader(i) /\ rev[i] <= web.rev
        BY <2>3 DEF Known
      <4> QED BY <2>2, <3>1, <4>1 DEF WebItems
    <3>3. ASSUME NEW a \in InStep(web)
          PROVE  /\ Kind[a] \in {"SetShader", "SetUniforms"} => a \in web.made
                 /\ BuffersOf[a] \subseteq web.ready
      <4>1. /\ a \in Actions /\ a \in Id /\ Sound(a) /\ rev[a] <= web.rev
            /\ a \notin missed
        BY References DEF InStep, Known
      <4>2. \A x \in RefreshedBy(a) : 0 < rev[x] /\ rev[x] <= web.rev
        BY <2>4, <3>1, <4>1
      <4>3. Kind[a] \in {"SetShader", "SetUniforms"} => a \in web.made
        BY <2>5, <3>1, <4>1, <4>2 DEF WebMade, IsMade, Sound
      <4>4. ASSUME BuffersOf[a] # {}
            PROVE  BuffersOf[a] \subseteq web.ready
        <5>1. RefreshedBy(a) = BuffersOf[a]
          BY <4>1, <4>4, References
        <5> QED BY <2>3, <3>1, <4>1, <4>2, <5>1 DEF WebMade, IsReady
      <4> QED BY <4>3, <4>4
    <3> QED BY <3>2, <3>3 DEF WebIsHonest
  <2> QED BY <2>6, <2>7 DEF ClientsAreHonest, WebIsHonest
<1> QED BY <1>1, ClientsKeepUp, PTL

\* Both clients draw what the database does, in its order, once they have reached
\* the revision that the order was last changed at.
THEOREM CoveredOrder == Spec => []OrderIsCovered
<1>1. LInv => OrderIsCovered
  BY DEF LInv, Native, WInv, WebOrder, OrderIsCovered
<1> QED BY <1>1, ClientsKeepUp, PTL
=============================================================================
