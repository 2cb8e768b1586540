------------------------------ MODULE RenderList -----------------------------
(***************************************************************************)
(* The render list: a database of buffers, shaders and actions in the job, *)
(* a renderer in the same process and a store in a browser.  Both ask for  *)
(* what has changed since a revision, and make objects of the graphics     *)
(* library out of it that must be made again when what they were made from *)
(* is.  process() sees to that by raising the revisions of the actions in  *)
(* the draw order that use something newer.                                *)
(*                                                                         *)
(* What an item holds is the revision it was set at.  The application is   *)
(* one message handler at a time, which ends with process(): nothing is    *)
(* exported in between.  Deleting an action in the draw order is left out: *)
(* the list keeps the pointer.                                             *)
(***************************************************************************)
EXTENDS Naturals, Sequences, FiniteSets, FiniteSetsExt

CONSTANTS
    Id,         \* of items: 0, 1, ..., never used twice
    Kind,       \* what each of them is
    ShaderOf,   \* for SetShader, SetUniforms and SetInputs, the shader's id
    BuffersOf,  \* for SetInputs the inputs, for Draw the indices: sets of ids
    FirstItems, \* the number of items, and ...
    FirstOrder, \* ... the draw order, that the job starts with
    MaxRevision, MaxOrder,  \* bounds
    Slot        \* the requests a browser may have in flight

VARIABLES
    nextId,     \* m_next_id
    rev,        \* m_revision of each item; 0 where there is none
    val,        \* what each holds
    current, drawOrderRev, processRev,  \* m_current_rev and so on
    order,      \* m_draworder
    native,     \* renderlist::gl::Renderer
    web,        \* RenderListStore, and what RenderListRenderer has compiled
    net,        \* the browser's requests and their answers
    missed,     \* a history: the actions out of order when they were due
    overtaken   \* a history: an answer to another revision has been applied

db   == <<nextId, rev, val, current, drawOrderRev, processRev, order>>
vars == <<db, native, web, net, missed, overtaken>>

-----------------------------------------------------------------------------

Buffers == {i \in Id : Kind[i] = "Buffer"}
Shaders == {i \in Id : Kind[i] = "Shader"}
Actions == Id \ (Buffers \cup Shaders)

\* What an action is made from.
HasShader == {i \in Actions : Kind[i] \in {"SetShader", "SetUniforms", "SetInputs"}}
DependsOn(a) == BuffersOf[a] \cup (IF a \in HasShader THEN {ShaderOf[a]} ELSE {})

\* What process() compares an action with: for SetInputs, the buffers only.
RefreshedBy(a) ==
    IF Kind[a] \in {"SetShader", "SetUniforms"} THEN {ShaderOf[a]} ELSE BuffersOf[a]

ASSUME IdAssumption == Id \subseteq Nat
ASSUME KindAssumption ==
    Kind \in [Id -> {"Buffer", "Shader", "SetShader", "SetUniforms", "SetInputs",
                     "Draw", "SetLocalCoordSys"}]

\* An action is set when it is created here, to items that were there before it.
ASSUME ReferencesAssumption ==
    /\ \A a \in HasShader : ShaderOf[a] \in Shaders
    /\ \A a \in Actions : /\ BuffersOf[a] \subseteq Buffers
                          /\ BuffersOf[a] # {} => Kind[a] \in {"SetInputs", "Draw"}
                          /\ \A x \in DependsOn(a) : x < a
ASSUME FirstAssumption ==
    /\ FirstItems \in Nat
    /\ FirstOrder \in Seq({a \in Actions : a < FirstItems})

\* What is left of a sequence when only some of its places are kept, in order.
RankIn(S, j) == Cardinality({k \in S : k <= j})
Kept(s, S) ==
    [n \in 1 .. Cardinality(S) |-> s[CHOOSE j \in S : RankIn(S, j) = n]]

-----------------------------------------------------------------------------
(* process()                                                               *)

\* The shader (if any) that is current at a place of the draw order: that of the last
\* SetShader before it whose shader exists.
ShaderAt(j) ==
    LET setters == {k \in 1 .. j - 1 : /\ Kind[order[k]] = "SetShader"
                                       /\ rev[ShaderOf[order[k]]] > 0}
    IN  IF setters = {} THEN {} ELSE {ShaderOf[order[Max(setters)]]}

\* The checks an action has to pass before its revision is looked at ...
Reached(j) ==
    LET a == order[j] IN
    CASE Kind[a] = "SetShader"   -> rev[ShaderOf[a]] > 0
      [] Kind[a] = "SetUniforms" -> /\ ShaderAt(j) = {ShaderOf[a]}
                                    /\ rev[ShaderOf[a]] > 0
      [] Kind[a] = "SetInputs"   -> ShaderAt(j) = {ShaderOf[a]}
      [] Kind[a] = "Draw" /\ BuffersOf[a] # {} -> ShaderAt(j) # {}
      [] OTHER -> TRUE

\* ... and those it has to pass to stay.
Stays(j) == Reached(j) /\ \A b \in BuffersOf[order[j]] : rev[b] > 0

InOrder(a) == \E j \in DOMAIN order : order[j] = a

Looked(a) == \E j \in DOMAIN order : order[j] = a /\ Reached(j)
Due(a) == \E x \in RefreshedBy(a) : rev[a] < rev[x]

\* MUTANT of Refreshed: only what a SetShader uses is compared.
RefreshedShadersOnly(a) ==
    IF Kind[a] = "SetShader" /\ Looked(a)
    THEN Max({rev[a], rev[ShaderOf[a]]}) ELSE rev[a]

\* The revision an action gets from what it uses.
Refreshed(a) ==
    IF Looked(a)
    THEN Max({rev[a]} \cup {rev[x] : x \in RefreshedBy(a)}) ELSE rev[a]

Process ==
    /\ processRev < current
    /\ processRev' = current
    /\ rev' = [i \in Id |-> IF i \in Actions THEN Refreshed(i) ELSE rev[i]]
    /\ order' = Kept(order, {j \in DOMAIN order : Stays(j)})
    /\ missed' = missed \cup {a \in Actions : rev[a] > 0 /\ Due(a) /\ ~Looked(a)}
    /\ UNCHANGED <<nextId, val, current, drawOrderRev, native, web, net, overtaken>>

-----------------------------------------------------------------------------
(* The other operations of the database.                                   *)

CanChange == current < MaxRevision
Clients   == <<native, web, net, overtaken>>

\* taint: by the setters of an item, and when it is created.
Taint(i, rethink) ==
    /\ current' = current + 1
    /\ rev' = [rev EXCEPT ![i] = current']
    /\ val' = [val EXCEPT ![i] = current']
    /\ drawOrderRev' = IF rethink THEN current' ELSE drawOrderRev
    /\ missed' = missed \ {i}
    /\ UNCHANGED <<processRev, order, Clients>>

\* createBuffer, createShader, createAction
Create ==
    /\ CanChange /\ nextId \in Id
    /\ nextId' = nextId + 1
    /\ Taint(nextId, TRUE)

\* A setter of an item that exists tells taint whether the order is concerned.
SetItem(i, rethink) ==
    /\ CanChange /\ rev[i] > 0
    /\ Taint(i, rethink)
    /\ UNCHANGED nextId

BufferSet(i) == i \in Buffers /\ SetItem(i, TRUE)
StageSet(i)  == i \in Shaders /\ SetItem(i, TRUE)
ShaderSet(a) == Kind[a] = "SetShader" /\ SetItem(a, TRUE)
InputSet(a)  == Kind[a] = "SetInputs" /\ SetItem(a, TRUE)
DrawSet(a)   == Kind[a] = "Draw" /\ SetItem(a, TRUE)
\* A value of a type that the uniform has already does not concern the order ...
UniformSet(a) ==
    Kind[a] = "SetUniforms" /\ \E sameType \in BOOLEAN : SetItem(a, ~sameType)
\* ... nor does another orientation.
OrientationSet(a) == Kind[a] = "SetLocalCoordSys" /\ SetItem(a, FALSE)

Set(i) == \/ BufferSet(i) \/ StageSet(i) \/ ShaderSet(i) \/ InputSet(i)
          \/ DrawSet(i) \/ UniformSet(i) \/ OrientationSet(i)

\* deleteBuffer, deleteShader, deleteAction
Delete(i) ==
    /\ CanChange /\ rev[i] > 0 /\ ~InOrder(i)
    /\ current' = current + 1
    /\ rev' = [rev EXCEPT ![i] = 0]
    /\ val' = [val EXCEPT ![i] = 0]
    /\ missed' = missed \ {i}
    /\ UNCHANGED <<nextId, drawOrderRev, processRev, order, Clients>>

DrawOrderClear ==
    /\ CanChange
    /\ order' = <<>>
    /\ current' = current + 1 /\ drawOrderRev' = current'
    /\ UNCHANGED <<nextId, rev, val, processRev, missed, Clients>>

\* MUTANT of DrawOrderAdd: the order does not become newer.
DrawOrderAddQuietly(a) ==
    /\ CanChange /\ rev[a] > 0 /\ Len(order) < MaxOrder
    /\ order' = Append(order, a)
    /\ current' = current + 1
    /\ UNCHANGED <<nextId, rev, val, drawOrderRev, processRev, missed, Clients>>

DrawOrderAdd(a) ==
    /\ CanChange /\ rev[a] > 0 /\ Len(order) < MaxOrder
    /\ order' = Append(order, a)
    /\ current' = current + 1 /\ drawOrderRev' = current'
    /\ UNCHANGED <<nextId, rev, val, processRev, missed, Clients>>

Application ==
    \/ Process \/ Create \/ DrawOrderClear
    \/ \E i \in Id : Set(i) \/ Delete(i)
    \/ \E a \in Actions : DrawOrderAdd(a)

\* changes(): the items to send, and the draw order if it is newer.
Modified(has) == {i \in Id : has < rev[i]}
Export(has) ==
    [from |-> has, to |-> current,
     items |-> [i \in Modified(has) |-> val[i]],
     newOrder |-> has < drawOrderRev,
     order |-> IF has < drawOrderRev THEN order ELSE <<>>]

-----------------------------------------------------------------------------
(* The renderer in the same process.  `made' is the set of the actions     *)
(* whose graphics objects are those of the shaders it has now, and that    *)
(* have found their buffers.                                               *)

Merge(old, new) == [i \in Id |-> IF i \in DOMAIN new THEN new[i] ELSE old[i]]
Updates(e, a) == a \in DOMAIN e.items
NewProgram(e, a) == a \in HasShader /\ Updates(e, ShaderOf[a])
Present(s, item) == Kept(s, {j \in DOMAIN s : item[s[j]] > 0})
NewOrder(e, client, item) ==
    IF e.newOrder THEN Present(e.order, item) ELSE client.order

\* What an action has to find when it is made, by its kind.
FindsShader(a, item)   == item[ShaderOf[a]] > 0
FindsInputs(a, item)   == FindsShader(a, item) /\ \A b \in BuffersOf[a] : item[b] > 0
FindsUniforms(a, item) == FindsShader(a, item)
FindsIndices(a, item)  == \A b \in BuffersOf[a] : item[b] > 0
Finds(a, item) ==
    CASE Kind[a] = "SetShader"   -> FindsShader(a, item)
      [] Kind[a] = "SetInputs"   -> FindsInputs(a, item)
      [] Kind[a] = "SetUniforms" -> FindsUniforms(a, item)
      [] Kind[a] = "Draw"        -> FindsIndices(a, item)
      [] OTHER -> TRUE

\* A buffer keeps its name when it gets new contents; a shader becomes another
\* program.
Pulled(e) ==
    LET item == Merge(native.item, e.items)
    IN  [rev |-> e.to, item |-> item,
         made |-> {a \in native.made : ~Updates(e, a) /\ ~NewProgram(e, a)} \cup
                  {a \in Actions : Updates(e, a) /\ Finds(a, item)},
         order |-> NewOrder(e, native, item)]

\* Renderer::pull
Pull ==
    /\ processRev = current /\ native.rev # current
    /\ native' = Pulled(Export(native.rev))
    /\ UNCHANGED <<db, web, net, missed, overtaken>>

-----------------------------------------------------------------------------
(* The browser.  `ready' is the set of the buffers it has uploaded since    *)
(* they last changed: an action that uses one does that when it is stored.  *)

Rank(a) == CASE Kind[a] = "SetShader"   -> 1
             [] Kind[a] = "SetInputs"   -> 2
             [] Kind[a] = "SetUniforms" -> 3
             [] Kind[a] = "SetLocalCoordSys" -> 4
             [] Kind[a] = "Draw"        -> 5
Before(a, b) == Rank(a) < Rank(b) \/ (Rank(a) = Rank(b) /\ a < b)

\* The store has buffers and shaders before it looks at the actions.
Sources(e) == [i \in DOMAIN e.items \ Actions |-> e.items[i]]

\* An action whose shader is not in the store is dropped; a buffer that is not
\* there is an exception, which ends the parse.
Dropped(a, item) == a \in HasShader /\ item[ShaderOf[a]] = 0
VertexThrows(a, item) == Kind[a] = "SetInputs" /\ \E b \in BuffersOf[a] : item[b] = 0
IndexThrows(a, item)  == Kind[a] = "Draw" /\ \E b \in BuffersOf[a] : item[b] = 0
Throws(a, item) == ~Dropped(a, item) /\ (VertexThrows(a, item) \/ IndexThrows(a, item))

\* What parse() makes of the store, up to the first exception.
Parsed(e, early) ==
    LET item == Merge(web.item, Sources(e))
        asked == {a \in Actions : Updates(e, a)}
        throws == {a \in asked : Throws(a, item)}
        stored == {a \in asked : ~Dropped(a, item) /\ \A t \in throws : Before(a, t)}
        halfway == {t \in throws : Kind[t] = "SetInputs" /\ \A u \in throws : ~Before(u, t)}
        all == Merge(item, [a \in stored \cup halfway |-> e.items[a]])
    IN  [item |-> all,
         made |-> {a \in web.made : a \notin halfway /\ ~NewProgram(e, a)} \cup stored,
         ready |-> {b \in web.ready : ~Updates(e, b)} \cup UNION {BuffersOf[a] : a \in stored}
                   \cup (early \cap UNION {BuffersOf[a] : a \in halfway}),
         rev |-> IF throws = {} THEN e.to ELSE web.rev,
         order |-> IF throws = {} /\ e.newOrder THEN e.order ELSE web.order,
         code |-> web.code]

Idle == [kind |-> "idle"]

\* _getRenderList, when the element with renderlistKey has changed.
Ask(s) ==
    /\ net[s] = Idle
    /\ net' = [net EXCEPT ![s] = [kind |-> "request", from |-> web.rev]]
    /\ UNCHANGED <<db, native, web, missed, overtaken>>

\* getUpdateXML, in the job's handler.
Serve(s) ==
    /\ net[s].kind = "request" /\ processRev = current
    /\ net' = [net EXCEPT ![s] = [kind |-> "answer", it |-> Export(net[s].from)]]
    /\ UNCHANGED <<db, native, web, missed, overtaken>>

\* parse().  An answer to another revision than the store's is reported, and
\* applied like any other.
Parse(s) ==
    /\ net[s].kind = "answer"
    /\ net' = [net EXCEPT ![s] = Idle]
    /\ \E early \in SUBSET Buffers : web' = Parsed(net[s].it, early)
    /\ overtaken' = (overtaken \/ net[s].it.from # web.rev)
    /\ UNCHANGED <<db, native, missed>>

\* The request fails, or the ten seconds are over.
Lose(s) ==
    /\ net[s] # Idle
    /\ net' = [net EXCEPT ![s] = Idle]
    /\ UNCHANGED <<db, native, web, missed, overtaken>>

\* The next frame: new code, if the store's revision is another than the code's.
Render ==
    /\ web.code.rev # web.rev
    /\ web' = [web EXCEPT !.code = [rev |-> web.rev,
                                       order |-> Present(web.order, web.item)]]
    /\ UNCHANGED <<db, native, net, missed, overtaken>>

-----------------------------------------------------------------------------

\* The job has created its first items, set their draw order and processed it.
Init ==
    LET last == FirstItems + Len(FirstOrder) IN
    /\ nextId = FirstItems
    /\ rev = [i \in Id |-> IF i < FirstItems THEN i + 1 ELSE 0] /\ val = rev
    /\ current = last /\ drawOrderRev = last /\ processRev = last
    /\ order = FirstOrder
    /\ LET nothing == [i \in Id |-> 0] IN
       /\ native = [rev |-> 0, item |-> nothing, made |-> {}, order |-> <<>>]
       /\ web = [rev |-> 0, item |-> nothing, made |-> {}, ready |-> {},
                 order |-> <<>>, code |-> [rev |-> 0, order |-> <<>>]]
    /\ net = [s \in Slot |-> Idle]
    /\ missed = {} /\ overtaken = FALSE

Next ==
    \/ Application \/ Pull \/ Render
    \/ \E s \in Slot : Ask(s) \/ Serve(s) \/ Parse(s) \/ Lose(s)

Spec == Init /\ [][Next]_vars

-----------------------------------------------------------------------------
(* Properties.                                                             *)

Revision == 0 .. MaxRevision
ClientType(c) ==
    /\ c.rev \in Revision /\ c.item \in [Id -> Revision] /\ c.made \subseteq Actions
    /\ \A j \in DOMAIN c.order : c.order[j] \in Actions

TypeOK ==
    /\ nextId \in Nat /\ {current, drawOrderRev, processRev} \subseteq Revision
    /\ rev \in [Id -> Revision] /\ val \in [Id -> Revision]
    /\ Len(order) <= MaxOrder /\ \A j \in DOMAIN order : order[j] \in Actions
    /\ ClientType(native) /\ ClientType(web) /\ web.ready \subseteq Buffers
    /\ web.code.rev \in Revision
    /\ \A s \in Slot : net[s].kind \in {"idle", "request", "answer"}
    /\ missed \subseteq Actions /\ overtaken \in BOOLEAN

Fresh == processRev = current
Sound(i) == rev[i] > 0 /\ (i \in Actions => \A x \in DependsOn(i) : rev[x] > 0)

\* What a client that is at a revision should have.
Known(client) == {i \in Id : Sound(i) /\ rev[i] <= client.rev}
InStep(client) == {a \in Actions \cap Known(client) : InOrder(a) /\ a \notin missed}

\* A renderer that is at a revision has what every item was last set to by then,
\* and the actions that draw use programs that exist.  (Not the SetInputs:
\* process() does not compare them with their shaders.)
NativeIsHonest ==
    Fresh =>
        /\ \A i \in Known(native) : native.item[i] = val[i]
        /\ \A a \in InStep(native) :
              Kind[a] \in {"SetShader", "SetUniforms"} => a \in native.made

\* So has a browser, as long as no answer is for another revision than it has,
\* and the buffers that its actions use have been uploaded.
WebIsHonest ==
    Fresh /\ ~overtaken =>
        /\ \A i \in Known(web) : web.item[i] = val[i]
        /\ \A a \in InStep(web) :
              /\ Kind[a] \in {"SetShader", "SetUniforms"} => a \in web.made
              /\ BuffersOf[a] \subseteq web.ready

\* Neither the renderer nor a browser draws what the database does not have.
ClientsAreHonest == NativeIsHonest /\ WebIsHonest

IsPartOf(s, t) ==
    \E at \in [DOMAIN s -> DOMAIN t] :
        /\ \A j \in DOMAIN s : s[j] = t[at[j]]
        /\ \A j, k \in DOMAIN s : j < k => at[j] < at[k]

\* The clients draw what the database does, in its order.  They may draw more:
\* process() takes actions out of the order and does not say so.
OrderIsCovered ==
    Fresh =>
        /\ drawOrderRev <= native.rev => IsPartOf(order, native.order)
        /\ drawOrderRev <= web.rev /\ web.code.rev = web.rev /\ ~overtaken
              => IsPartOf(order, web.code.order)

\* RenderList.js: "we are assured that the actions are always updated when a
\* buffer is modified".
ActionsFollowBuffers ==
    Fresh /\ ~overtaken =>
        \A a \in Actions \cap Known(web) : InOrder(a) => BuffersOf[a] \subseteq web.ready
=============================================================================
