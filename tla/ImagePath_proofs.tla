-------------------------- MODULE ImagePath_proofs --------------------------
(***************************************************************************)
(* For any number of edits, changes, failures and requests under way: the  *)
(* image is the current one once everything has arrived, a proxy model is  *)
(* never put together from two snapshots, and a snapshot is drawn into     *)
(* frame buffers that exist.                                               *)
(***************************************************************************)
EXTENDS ImagePath, SequenceTheorems, TLAPS

-----------------------------------------------------------------------------
(* The models: the two images that a model loads are of one snapshot.      *)

Model == [state : 0 .. 2, rgb : Nat, depth : Nat]
Texture(r) == [part : {"rgb", "depth"}, rev : {r}]

\* The two textures of the model that is being loaded are of snapshot r, as far
\* as they are there; what is not there is still being decoded or broken.
OneSnapshot ==
    /\ being \in Model
    /\ \E r \in Nat \ {0} :
          /\ loads \subseteq Texture(r)
          /\ being.rgb \in {0, r} /\ being.depth \in {0, r}
    /\ \A l \in loads : /\ l.part = "rgb" => being.rgb = 0
                        /\ l.part = "depth" => being.depth = 0
    /\ being.state = 0 => loads = {} /\ being = NewModel
    /\ being.state = 2 => being.rgb # 0 /\ being.depth # 0

\* And so it was for those in use.
KeptWhole ==
    /\ ring \in [RingSlot -> {Unused, "whole"}]
    /\ recent \in {Unused, "whole"}
    /\ algorithm \in Algorithm

ProxyInv == OneSnapshot /\ KeptWhole

LEMMA ProxyInvFirst == ASSUME ProxyInit PROVE ProxyInv
<1>1. being \in Model /\ being = NewModel /\ loads = {}
  BY DEF ProxyInit, NewModel, Model
<1>2. OneSnapshot
  <2>1. /\ 1 \in Nat \ {0} /\ loads \subseteq Texture(1)
        /\ being.rgb \in {0, 1} /\ being.depth \in {0, 1}
        /\ being.state = 0
    BY <1>1 DEF NewModel
  <2> QED
    BY <1>1, <2>1 DEF OneSnapshot
<1>3. KeptWhole
  BY DEF ProxyInit, KeptWhole, Unused, Algorithm
<1> QED
  BY <1>2, <1>3 DEF ProxyInv

\* A snapshot is taken for a model only if none is being loaded.
LEMMA SetDepthDataKeeps ==
    ASSUME ProxyInv, NEW r \in Nat \ {0}, NEW hasDepth \in BOOLEAN,
           SetDepthData(r, hasDepth)
    PROVE  ProxyInv'
<1>1. CASE UNCHANGED proxies
  BY <1>1 DEF proxies, ProxyInv, OneSnapshot, KeptWhole
<1>2. CASE /\ being.state = 0
           /\ being' = [being EXCEPT !.state = 1]
           /\ loads' = {Load("depth", r), Load("rgb", r)}
           /\ UNCHANGED <<ring, cursor, recent, algorithm>>
  <2>1. being \in Model /\ being.rgb = 0 /\ being.depth = 0
    BY <1>2 DEF ProxyInv, OneSnapshot, NewModel
  <2>2. /\ being' \in Model /\ being'.state = 1
        /\ being'.rgb = 0 /\ being'.depth = 0
    BY <1>2, <2>1 DEF Model
  <2>3. loads' \subseteq Texture(r)
    BY <1>2 DEF Load, Texture
  <2>4. OneSnapshot'
    BY <2>2, <2>3 DEF OneSnapshot
  <2>5. KeptWhole'
    BY <1>2 DEF ProxyInv, KeptWhole
  <2> QED
    BY <2>4, <2>5 DEF ProxyInv
<1> QED
  BY <1>1, <1>2 DEF SetDepthData, SetAll

\* The second image completes the model with the snapshot of the first.
LEMMA ImageLoadedKeeps ==
    ASSUME ProxyInv, NEW l, ImageLoaded(l)
    PROVE  ProxyInv'
<1>1. PICK r \in Nat \ {0} : /\ loads \subseteq Texture(r)
                             /\ being.rgb \in {0, r} /\ being.depth \in {0, r}
  BY DEF ProxyInv, OneSnapshot
<1>2. /\ l \in loads /\ l.rev = r /\ l.part \in {"rgb", "depth"}
      /\ loads' = loads \ {l}
      /\ being \in Model
  BY <1>1 DEF ImageLoaded, Texture, ProxyInv, OneSnapshot
<1> DEFINE m == [being EXCEPT ![l.part] = l.rev]
<1>3. /\ m \in Model /\ m.state = being.state
      /\ m.rgb = IF l.part = "rgb" THEN r ELSE being.rgb
      /\ m.depth = IF l.part = "depth" THEN r ELSE being.depth
  BY <1>2 DEF Model
<1>4. being' = IF m.rgb # 0 /\ m.depth # 0 THEN [m EXCEPT !.state = 2] ELSE m
  BY DEF ImageLoaded
<1>5. /\ being' \in Model
      /\ being'.rgb = m.rgb /\ being'.depth = m.depth
      /\ being'.state \in {being.state, 2}
      /\ being'.state = 2 => m.rgb # 0 /\ m.depth # 0
      /\ being.state = 2 => being'.state = 2
  <2>1. being.state = 2 => m.rgb # 0 /\ m.depth # 0
    BY <1>3 DEF ProxyInv, OneSnapshot
  <2> HIDE DEF m
  <2>2. CASE m.rgb # 0 /\ m.depth # 0
    BY <1>3, <1>4, <2>2 DEF Model
  <2>3. CASE ~(m.rgb # 0 /\ m.depth # 0)
    BY <1>3, <1>4, <2>1, <2>3
  <2> QED
    BY <2>2, <2>3
<1>6. being.state # 0
  BY <1>2 DEF ProxyInv, OneSnapshot
<1>7. \A k \in loads' : /\ k.part = "rgb" => being'.rgb = 0
                        /\ k.part = "depth" => being'.depth = 0
  <2> TAKE k \in loads'
  <2>1. k \in loads /\ k # l /\ k \in Texture(r) /\ l \in Texture(r)
    BY <1>1, <1>2
  <2>2. k.part # l.part
    BY <2>1 DEF Texture
  <2> QED
    BY <1>3, <1>5, <2>1, <2>2 DEF ProxyInv, OneSnapshot
<1>8. OneSnapshot'
  BY <1>1, <1>2, <1>3, <1>5, <1>6, <1>7 DEF OneSnapshot
<1>9. KeptWhole'
  BY DEF ImageLoaded, ProxyInv, KeptWhole
<1> QED
  BY <1>8, <1>9 DEF ProxyInv

LEMMA ImageFailsKeeps ==
    ASSUME ProxyInv, NEW l, ImageFails(l)
    PROVE  ProxyInv'
BY DEF ImageFails, ProxyInv, OneSnapshot, KeptWhole

LEMMA NewCoverageKeeps ==
    ASSUME ProxyInv, NEW a \in Algorithm, NewCoverage(a),
           UNCHANGED <<being, loads>>
    PROVE  ProxyInv'
BY DEF NewCoverage, ProxyInv, OneSnapshot, KeptWhole

\* Wherever a strategy puts a model, it is whole.
LEMMA PutKeeps ==
    ASSUME ring \in [RingSlot -> {Unused, "whole"}], NEW i, PutAt(i, "whole")
    PROVE  ring' \in [RingSlot -> {Unused, "whole"}]
BY DEF PutAt

LEMMA InsertModelKeepsWhole == ASSUME ProxyInv, InsertModel PROVE ProxyInv'
<1>1. PICK r \in Nat \ {0} : /\ loads \subseteq Texture(r)
                             /\ being.rgb \in {0, r} /\ being.depth \in {0, r}
  BY DEF ProxyInv, OneSnapshot
<1>2. /\ being.state = 2 /\ being.rgb = r /\ being.depth = r
      /\ being' = NewModel /\ loads' = loads
  BY <1>1 DEF InsertModel, ProxyInv, OneSnapshot
<1>3. Kept(being) = "whole"
  BY <1>2 DEF Kept
<1>4. loads = {}
  <2> SUFFICES ASSUME NEW l \in loads PROVE FALSE
    OBVIOUS
  <2>1. l.part \in {"rgb", "depth"}
    BY <1>1 DEF Texture
  <2> QED
    BY <1>2, <2>1 DEF ProxyInv, OneSnapshot
<1>5. OneSnapshot'
  <2>1. being' \in Model /\ being'.state = 0 /\ being'.rgb = 0 /\ being'.depth = 0
    BY <1>2 DEF NewModel, Model
  <2> QED
    BY <1>1, <1>2, <1>4, <2>1 DEF OneSnapshot
<1>6. KeptWhole'
  <2>1. ring \in [RingSlot -> {Unused, "whole"}] /\ recent \in {Unused, "whole"}
        /\ algorithm \in Algorithm /\ algorithm' = algorithm
    BY DEF InsertModel, ProxyInv, KeptWhole
  <2>2. CASE algorithm = "AngleCoverage"
    <3>1. OptimizeCoverage("whole")
      BY <1>3, <2>2 DEF InsertModel, ProcessDepthData
    <3> QED
      BY <2>1, <3>1, PutKeeps DEF OptimizeCoverage, KeptWhole
  <2>3. CASE algorithm = "ReplOldestWhnDiff"
    <3>1. ReplaceOldestWhenDifferent("whole")
      BY <1>3, <2>3 DEF InsertModel, ProcessDepthData
    <3> QED
      BY <2>1, <3>1, PutKeeps DEF ReplaceOldestWhenDifferent, KeptWhole
  <2>4. CASE algorithm = "ReplaceOldest"
    <3>1. ReplaceOldest("whole")
      BY <1>3, <2>4 DEF InsertModel, ProcessDepthData
    <3> QED
      BY <2>1, <3>1, PutKeeps DEF ReplaceOldest, KeptWhole
  <2> QED
    BY <2>1, <2>2, <2>3, <2>4 DEF Algorithm
<1> QED
  BY <1>5, <1>6 DEF ProxyInv

LEMMA InvalidateKeeps ==
    ASSUME ProxyInv, InvalidateAllModels
    PROVE  ProxyInv'
BY DEF InvalidateAllModels, ProxyInv, OneSnapshot, KeptWhole

-----------------------------------------------------------------------------
(* The types.                                                              *)

Answer == [at : {"answered"}, rev : Nat \ {0}, kind : Kind, depth : Depth]
Sent(at) == {None} \cup [at : at, url : Url] \cup Answer

Typed ==
    /\ model \in Nat \ {0} /\ known \in Nat /\ img \in Nat
    /\ known <= model /\ img <= model
    /\ mode \in [ap : BOOLEAN, jpg : BOOLEAN, depth : Depth]
    /\ url \in Url /\ snapshotURL \in Kind
    /\ imageLoading \in BOOLEAN /\ pending \in BOOLEAN /\ timer \in BOOLEAN
    /\ outrun \in BOOLEAN
    /\ post \in Sent({"asked", "updated"})
    /\ post.at = "answered" => post.rev <= model
    /\ get \in [Slot -> Sent({"asked"})]
    /\ \A s \in Slot : get[s].at = "answered" => get[s].rev <= model

\* How the members of Sent are told apart.
LEMMA SentCases ==
    ASSUME NEW ats, NEW p \in Sent(ats), "none" \notin ats, "answered" \notin ats
    PROVE  /\ p.at = "none" <=> p = None
           /\ p.at = "answered" => p \in Answer
           /\ p.at \in ats => p \in [at : ats, url : Url]
           /\ p.at \in ats \cup {"none", "answered"}
BY DEF Sent, Answer, None

LEMMA AskedIsSent ==
    ASSUME NEW u \in Url, NEW ats, "asked" \in ats
    PROVE  Asked(u) \in Sent(ats) /\ Asked(u).at = "asked" /\ Asked(u) # None
BY DEF Asked, Sent, None

LEMMA SnapshotIsSent ==
    ASSUME NEW u \in Url, model \in Nat \ {0}
    PROVE  /\ Snapshot(u) \in Answer
           /\ Snapshot(u).at = "answered" /\ Snapshot(u).rev = model
BY DEF Snapshot, Answer, Url

-----------------------------------------------------------------------------
(* The image that is on its way.                                           *)

\* _imageLoading is true while there is a POST, and while its repetition is due.
Busy ==
    /\ post # None => imageLoading
    /\ imageLoading => post # None \/ timer

\* Something is under way that brings an image of revision k or a newer one.
OnItsWay(k) ==
    \/ timer
    \/ post.at \in {"asked", "updated"}
    \/ post.at = "answered" /\ post.rev >= k
    \/ \E s \in Slot : \/ get[s].at = "asked"
                       \/ get[s].at = "answered" /\ get[s].rev >= k

Coming == ~outrun /\ img < known => OnItsWay(known)

\* What has been parsed since the answer to a POST was rendered has outrun it.
Fresh == ~outrun /\ post.at = "answered" => post.rev >= known

ImageInv == Typed /\ Busy /\ Fresh /\ Coming

\* Whatever else an edit does, it sends a POST or notes that there is more to
\* send with the next.
LEMMA EditKeeps ==
    ASSUME ImageInv, NEW u \in Url, Edit(u), UNCHANGED get,
           mode' \in [ap : BOOLEAN, jpg : BOOLEAN, depth : Depth],
           url' \in Url, snapshotURL' \in Kind
    PROVE  ImageInv'
<1>1. /\ Asked(u) \in Sent({"asked", "updated"}) /\ Asked(u).at = "asked"
      /\ Asked(u) # None /\ None.at = "none"
  BY AskedIsSent DEF None
<1>2. UNCHANGED <<model, known, timer, img, outrun, get>>
  BY DEF Edit
<1>3. CASE /\ post = None /\ post' = Asked(u) /\ imageLoading' = TRUE
           /\ UNCHANGED pending
  BY <1>1, <1>2, <1>3 DEF ImageInv, Typed, Busy, Fresh, Coming, OnItsWay
<1>4. CASE /\ post # None /\ pending' = TRUE /\ UNCHANGED <<post, imageLoading>>
  BY <1>2, <1>4 DEF ImageInv, Typed, Busy, Fresh, Coming, OnItsWay
<1> QED
  BY <1>3, <1>4 DEF Edit

\* An image arrives: it is the newest there is, or one that was outrun.
LEMMA SetImageEffect ==
    ASSUME NEW a \in Answer, img \in Nat, outrun \in BOOLEAN, SetImage(a)
    PROVE  /\ img' \in {img, a.rev} /\ outrun' \in BOOLEAN
           /\ outrun => outrun'
           /\ ~outrun' => img' = a.rev /\ img <= a.rev
<1>1. a.rev \in Nat
  BY DEF Answer
<1>2. CASE Accepted(a)
  <2>1. img' = a.rev /\ outrun' = (outrun \/ a.rev < img)
    BY <1>2 DEF SetImage
  <2>2. outrun' <=> outrun \/ a.rev < img
    BY <2>1, Zenon
  <2>3. outrun' \in BOOLEAN
    BY <2>1, Zenon
  <2> QED
    BY <1>1, <2>1, <2>2, <2>3
<1>3. CASE ~Accepted(a)
  BY <1>3 DEF SetImage
<1> QED
  BY <1>2, <1>3

\* An update is parsed, or the mouse is released: an image is asked for, unless
\* one is loading.
LEMMA RequestEffect ==
    ASSUME ImageInv, NEW u \in Url, RequestImageIfNotBusy(u)
    PROVE  \/ imageLoading /\ UNCHANGED get
           \/ /\ ~imageLoading
              /\ \E s \in Slot : /\ get[s] = None /\ get'[s].at = "asked"
                                 /\ get'[s] \in Sent({"asked"})
                                 /\ get' = [get EXCEPT ![s] = get'[s]]
<1>1. Asked(u) \in Sent({"asked"}) /\ Asked(u).at = "asked"
  BY AskedIsSent
<1> QED
  BY <1>1 DEF RequestImageIfNotBusy, ImageInv, Typed

-----------------------------------------------------------------------------
(* The steps of mod_trell and the job.                                     *)

\* What the cases of an answer are, here and below.
LEMMA PostCases ==
    ASSUME Typed
    PROVE  /\ post = None <=> post.at = "none"
           /\ post.at = "answered" => post \in Answer
           /\ post.at \in {"asked", "updated"} => post \in [at : {"asked", "updated"}, url : Url]
           /\ post.at \in {"none", "asked", "updated", "answered"}
<1>1. post \in Sent({"asked", "updated"})
  BY DEF Typed
<1> QED
  BY <1>1, SentCases

LEMMA GetCases ==
    ASSUME Typed, NEW s \in Slot
    PROVE  /\ get[s] \in Sent({"asked"})
           /\ get[s] = None <=> get[s].at = "none"
           /\ get[s].at = "answered" => get[s] \in Answer
           /\ get[s].at = "asked" => get[s] \in [at : {"asked"}, url : Url]
<1>1. get[s] \in Sent({"asked"})
  BY DEF Typed
<1> QED
  BY <1>1, SentCases

LEMMA ExecutePostKeeps == ASSUME ImageInv, ExecutePost PROVE ImageInv'
<1>1. post \in [at : {"asked", "updated"}, url : Url]
  BY PostCases DEF ExecutePost, ImageInv
<1>2. /\ post' \in [at : {"asked", "updated"}, url : Url]
      /\ post'.at = "updated" /\ post # None /\ post' # None
  BY <1>1 DEF ExecutePost, None
<1>3. /\ UNCHANGED <<known, mode, url, snapshotURL, imageLoading, pending, timer, get,
                     img, outrun>>
      /\ model' = model + 1
  BY DEF ExecutePost, urls
<1>4. post' \in Sent({"asked", "updated"}) /\ post'.at # "answered"
  BY <1>2 DEF Sent
<1>5. \A s \in Slot : get[s].at = "answered" => get[s].rev \in Nat
  BY GetCases DEF ImageInv, Answer
<1>6. Typed'
  BY <1>3, <1>4, <1>5 DEF ImageInv, Typed
<1>7. Busy' /\ Fresh' /\ Coming'
  BY <1>2, <1>3 DEF ImageInv, Busy, Fresh, Coming, OnItsWay
<1> QED
  BY <1>6, <1>7 DEF ImageInv

\* What is rendered shows the model as it is, and so all that is known of it.
LEMMA RenderPostKeeps == ASSUME ImageInv, RenderPost PROVE ImageInv'
<1>1. post # None /\ post.url \in Url
  BY PostCases DEF RenderPost, ImageInv
<1>2. /\ post' \in Answer /\ post'.at = "answered" /\ post'.rev = model
      /\ post' # None
  BY <1>1, SnapshotIsSent DEF RenderPost, ImageInv, Typed, None
<1>3. UNCHANGED <<model, known, mode, url, snapshotURL, imageLoading, pending, timer,
                  get, img, outrun>>
  BY DEF RenderPost, urls
<1>4. post' \in Sent({"asked", "updated"})
  BY <1>2 DEF Sent
<1>5. Typed'
  BY <1>2, <1>3, <1>4 DEF ImageInv, Typed
<1>6. Busy' /\ Fresh' /\ Coming'
  BY <1>1, <1>2, <1>3 DEF ImageInv, Typed, Busy, Fresh, Coming, OnItsWay
<1> QED
  BY <1>5, <1>6 DEF ImageInv

LEMMA RenderGetKeeps ==
    ASSUME ImageInv, NEW s \in Slot, RenderGet(s) PROVE ImageInv'
<1>1. get[s].url \in Url /\ get \in [Slot -> Sent({"asked"})]
  BY GetCases DEF RenderGet, ImageInv, Typed
<1>2. /\ get'[s] \in Answer /\ get'[s].at = "answered" /\ get'[s].rev = model
      /\ \A t \in Slot \ {s} : get'[t] = get[t]
      /\ get' \in [Slot -> Sent({"asked"})]
  BY <1>1, SnapshotIsSent DEF RenderGet, ImageInv, Typed, Sent
<1>3. UNCHANGED <<model, known, mode, url, snapshotURL, imageLoading, post, pending,
                  timer, img, outrun>>
  BY DEF RenderGet, urls, sender
<1>4. Typed'
  BY <1>2, <1>3 DEF ImageInv, Typed
<1>5. Coming'
  BY <1>2, <1>3 DEF ImageInv, Typed, Coming, OnItsWay
<1> QED
  BY <1>3, <1>4, <1>5 DEF ImageInv, Busy, Fresh

LEMMA JobChangesKeeps == ASSUME ImageInv, JobChanges PROVE ImageInv'
<1>1. /\ model' = model + 1
      /\ UNCHANGED <<known, mode, url, snapshotURL, imageLoading, post, pending, timer,
                     get, img, outrun>>
  BY DEF JobChanges, urls, sender
<1>2. /\ post.at = "answered" => post.rev \in Nat
      /\ \A s \in Slot : get[s].at = "answered" => get[s].rev \in Nat
  BY PostCases, GetCases DEF ImageInv, Answer
<1>3. Typed'
  BY <1>1, <1>2 DEF ImageInv, Typed
<1>4. Busy' /\ Fresh' /\ Coming'
  BY <1>1 DEF ImageInv, Busy, Fresh, Coming, OnItsWay
<1> QED
  BY <1>3, <1>4 DEF ImageInv

-----------------------------------------------------------------------------
(* The steps of the canvas and of the sender.                              *)

LEMMA GetDoneKeeps ==
    ASSUME ImageInv, NEW s \in Slot, GetDone(s) PROVE ImageInv'
<1>1. get[s] \in Answer /\ get[s].rev <= model /\ get \in [Slot -> Sent({"asked"})]
  BY GetCases DEF GetDone, ImageInv, Typed
<1>2. /\ img' \in {img, get[s].rev} /\ outrun' \in BOOLEAN
      /\ outrun => outrun'
      /\ ~outrun' => img' = get[s].rev /\ img <= get[s].rev
  BY <1>1, SetImageEffect DEF GetDone, ImageInv, Typed
<1>3. UNCHANGED <<model, known, mode, url, snapshotURL, imageLoading, post, pending,
                  timer>>
  BY DEF GetDone, urls, sender
<1>4. /\ get' \in [Slot -> Sent({"asked"})]
      /\ get'[s].at = "none" /\ \A t \in Slot \ {s} : get'[t] = get[t]
  BY <1>1 DEF GetDone, Sent, None
<1>5. get[s].rev \in Nat
  BY <1>1 DEF Answer
<1>6. Typed'
  BY <1>1, <1>2, <1>3, <1>4, <1>5 DEF ImageInv, Typed
<1>7. Coming'
  <2> SUFFICES ASSUME ~outrun', img' < known' PROVE OnItsWay(known)'
    BY DEF Coming
  <2>1. get[s].rev < known /\ img < known /\ ~outrun
    BY <1>1, <1>2, <1>3, <1>5 DEF ImageInv, Typed
  <2>2. OnItsWay(known)
    BY <2>1 DEF ImageInv, Coming
  <2>3. get[s].at = "answered" /\ ~(get[s].rev >= known)
    BY <1>5, <2>1 DEF GetDone, ImageInv, Typed
  <2> QED
    BY <1>3, <1>4, <2>2, <2>3 DEF OnItsWay
<1> QED
  BY <1>2, <1>3, <1>6, <1>7 DEF ImageInv, Busy, Fresh

LEMMA GetFailsKeeps ==
    ASSUME ImageInv, NEW s \in Slot, GetFails(s) PROVE ImageInv'
<1>1. /\ get' = [get EXCEPT ![s] = None] /\ outrun' = TRUE
      /\ UNCHANGED <<model, known, mode, url, snapshotURL, imageLoading, post,
                     pending, timer, img>>
  BY DEF GetFails, urls, sender
<1>2. /\ get' \in [Slot -> Sent({"asked"})]
      /\ get'[s].at = "none" /\ \A t \in Slot \ {s} : get'[t] = get[t]
  BY <1>1 DEF ImageInv, Typed, Sent, None
<1> QED
  BY <1>1, <1>2 DEF ImageInv, Typed, Busy, Fresh, Coming

\* An update that is parsed while an image is loading is one that the image is
\* to show, or it outruns it.
LEMMA UpdateParsedKeeps == ASSUME ImageInv, UpdateParsed PROVE ImageInv'
<1>1. /\ known' \in known + 1 .. model
      /\ UNCHANGED <<model, mode, url, snapshotURL, imageLoading, post, pending,
                     timer, img>>
      /\ outrun' = (outrun \/ (imageLoading /\ post.at = "answered" /\ post.rev < known'))
  BY DEF UpdateParsed, urls, sender
<1>2. /\ outrun' <=> outrun \/ (imageLoading /\ post.at = "answered" /\ post.rev < known')
      /\ outrun' \in BOOLEAN
  BY <1>1, Zenon
<1>3. post.at = "answered" => post.rev \in Nat
  BY PostCases DEF ImageInv, Answer
<1>4. Fresh'
  <2> SUFFICES ASSUME ~outrun', post.at = "answered" PROVE post.rev >= known'
    BY <1>1 DEF Fresh
  <2>1. imageLoading
    BY DEF ImageInv, Busy, None
  <2> QED
    BY <1>1, <1>2, <1>3, <2>1 DEF ImageInv, Typed
<1>5. CASE imageLoading /\ UNCHANGED get
  <2>1. timer \/ post.at \in {"asked", "updated", "answered"}
    BY <1>5, PostCases DEF ImageInv, Busy
  <2>2. Coming'
    BY <1>1, <1>4, <2>1 DEF Coming, OnItsWay, Fresh
  <2>3. Typed'
    BY <1>1, <1>2, <1>5 DEF ImageInv, Typed
  <2> QED
    BY <1>1, <1>4, <2>2, <2>3 DEF ImageInv, Busy
<1>6. ASSUME NEW s \in Slot, get[s] = None, get'[s].at = "asked",
             get'[s] \in Sent({"asked"}), get' = [get EXCEPT ![s] = get'[s]]
      PROVE  ImageInv'
  <2>1. Coming'
    <3>1. \E t \in Slot : get'[t].at = "asked"
      BY <1>6
    <3>2. OnItsWay(known)'
      BY <3>1 DEF OnItsWay
    <3> QED
      BY <3>2 DEF Coming
  <2>2. /\ get' \in [Slot -> Sent({"asked"})]
        /\ \A t \in Slot \ {s} : get'[t] = get[t]
    BY <1>6 DEF ImageInv, Typed
  <2>3. Typed'
    BY <1>1, <1>2, <1>6, <2>2 DEF ImageInv, Typed
  <2> QED
    BY <1>1, <1>4, <2>1, <2>3 DEF ImageInv, Busy
<1> QED
  BY <1>5, <1>6, RequestEffect DEF UpdateParsed, ImageInv, Typed

LEMMA MouseUpKeeps == ASSUME ImageInv, MouseUp PROVE ImageInv'
<1>1. /\ UNCHANGED <<model, known, mode, imageLoading, post, pending, timer, img,
                     outrun>>
      /\ url' \in Url /\ snapshotURL' \in Kind
  BY DEF MouseUp, SetURL, ImageInv, Typed, Url, Kind, sender
<1>2. CASE UNCHANGED get
  BY <1>1, <1>2 DEF ImageInv, Typed, Busy, Fresh, Coming, OnItsWay
<1>3. ASSUME NEW s \in Slot, get[s] = None, get'[s].at = "asked",
             get'[s] \in Sent({"asked"}), get' = [get EXCEPT ![s] = get'[s]]
      PROVE  ImageInv'
  <2>1. Coming'
    <3>1. \E t \in Slot : get'[t].at = "asked"
      BY <1>3
    <3>2. OnItsWay(known)'
      BY <3>1 DEF OnItsWay
    <3> QED
      BY <3>2 DEF Coming
  <2>2. /\ get' \in [Slot -> Sent({"asked"})]
        /\ \A t \in Slot \ {s} : get'[t] = get[t]
    BY <1>3 DEF ImageInv, Typed
  <2>3. Typed'
    BY <1>1, <1>3, <2>2 DEF ImageInv, Typed
  <2> QED
    BY <1>1, <2>1, <2>3 DEF ImageInv, Busy, Fresh
<1> QED
  BY <1>1, <1>2, <1>3, RequestEffect DEF MouseUp

LEMMA PostDoneKeeps == ASSUME ImageInv, PostDone PROVE ImageInv'
<1>1. /\ post.at = "answered" /\ post # None /\ post \in Answer
      /\ post.rev <= model /\ post.rev \in Nat
  BY PostCases DEF PostDone, ImageInv, Typed, Answer
<1>2. /\ img' \in {img, post.rev} /\ outrun' \in BOOLEAN
      /\ outrun => outrun'
      /\ ~outrun' => img' = post.rev /\ img <= post.rev
  BY <1>1, SetImageEffect DEF PostDone, ImageInv, Typed
<1>3. /\ UNCHANGED <<model, known, mode, url, snapshotURL, timer, get>>
      /\ pending' = FALSE
  BY DEF PostDone, urls
<1>4. ~outrun' => img' >= known'
  BY <1>1, <1>2, <1>3 DEF ImageInv, Typed, Fresh
<1>5. /\ post' \in Sent({"asked", "updated"}) /\ post'.at \in {"none", "asked"}
      /\ imageLoading' \in BOOLEAN
      /\ post' # None <=> imageLoading'
  <2>1. /\ Asked(url) \in Sent({"asked", "updated"}) /\ Asked(url).at = "asked"
        /\ Asked(url) # None
    BY AskedIsSent DEF ImageInv, Typed
  <2>2. None \in Sent({"asked", "updated"}) /\ None.at = "none" /\ imageLoading = TRUE
    BY <1>1 DEF Sent, None, ImageInv, Busy, Typed
  <2> QED
    BY <2>1, <2>2 DEF PostDone
<1>6. Typed'
  BY <1>1, <1>2, <1>3, <1>5 DEF ImageInv, Typed
<1>7. Busy' /\ Fresh'
  BY <1>5 DEF Busy, Fresh
<1>8. Coming'
  BY <1>3, <1>4, <1>2, <1>1 DEF ImageInv, Typed, Coming
<1> QED
  BY <1>6, <1>7, <1>8 DEF ImageInv

LEMMA PostFailsKeeps == ASSUME ImageInv, PostFails PROVE ImageInv'
<1>1. /\ post' = None /\ timer' = TRUE
      /\ UNCHANGED <<model, known, mode, url, snapshotURL, imageLoading, pending,
                     get, img, outrun>>
  BY DEF PostFails, urls
<1>2. None.at = "none" /\ None \in Sent({"asked", "updated"})
  BY DEF None, Sent
<1> QED
  BY <1>1, <1>2 DEF ImageInv, Typed, Busy, Fresh, Coming, OnItsWay

LEMMA RetryKeeps == ASSUME ImageInv, Retry PROVE ImageInv'
<1>1. /\ timer' = FALSE
      /\ UNCHANGED <<model, known, mode, url, snapshotURL, get, img, outrun>>
  BY DEF Retry, urls
<1>2. CASE /\ post = None /\ post' = Asked(url) /\ imageLoading' = TRUE
           /\ UNCHANGED pending
  <2>1. /\ post' \in Sent({"asked", "updated"}) /\ post'.at = "asked"
        /\ post' # None
    BY <1>2, AskedIsSent DEF ImageInv, Typed
  <2> QED
    BY <1>1, <1>2, <2>1 DEF ImageInv, Typed, Busy, Fresh, Coming, OnItsWay
<1>3. CASE post # None /\ pending' = TRUE /\ UNCHANGED <<post, imageLoading>>
  <2>1. post.at \in {"asked", "updated", "answered"}
    BY <1>3, PostCases DEF ImageInv
  <2>2. Coming'
    BY <1>1, <1>3, <2>1 DEF ImageInv, Fresh, Coming, OnItsWay
  <2> QED
    BY <1>1, <1>3, <2>2 DEF ImageInv, Typed, Busy, Fresh
<1> QED
  BY <1>2, <1>3 DEF Retry

-----------------------------------------------------------------------------
(* The steps of the user, of the decoder and of the frames.                *)

LEMMA UserKeeps == ASSUME ImageInv, User PROVE ImageInv'
<1>0. /\ url \in Url /\ snapshotURL \in Kind
      /\ mode \in [ap : BOOLEAN, jpg : BOOLEAN, depth : Depth]
  BY DEF ImageInv, Typed
<1>1. CASE Navigate
  BY <1>0, <1>1, EditKeeps DEF Navigate, urls
<1>2. CASE ToggleAutoProxy
  BY <1>0, <1>2, EditKeeps DEF ToggleAutoProxy, Url, Kind
<1>3. CASE ToggleJpgProxy
  BY <1>0, <1>3, EditKeeps DEF ToggleJpgProxy, SetURL, Url, Kind
<1>4. ASSUME NEW d \in Depth, SetDepthSize(d) PROVE ImageInv'
  BY <1>0, <1>4, EditKeeps DEF SetDepthSize, Url
<1>5. ASSUME NEW n \in Size, Resize(n) PROVE ImageInv'
  BY <1>0, <1>5, EditKeeps DEF Resize, Url
<1>6. ASSUME NEW a \in Algorithm, SetAlgorithm(a) PROVE ImageInv'
  BY <1>0, <1>6, EditKeeps DEF SetAlgorithm, urls
<1>7. CASE MouseDown
  BY <1>0, <1>7 DEF MouseDown, SetURL, Url, Kind, sender, ImageInv, Typed, Busy, Fresh,
                    Coming, OnItsWay
<1>8. CASE MouseUp
  BY <1>8, MouseUpKeeps
<1> QED
  BY <1>1, <1>2, <1>3, <1>4, <1>5, <1>6, <1>7, <1>8 DEF User

\* Nothing of this is about the image.
LEMMA StutterKeeps ==
    ASSUME ImageInv, UNCHANGED <<Others, imageLoading, sender>> PROVE ImageInv'
BY DEF Others, urls, sender, ImageInv, Typed, Busy, Fresh, Coming, OnItsWay

LEMMA ImageInvFirst == ASSUME Init PROVE ImageInv
<1>1. /\ model = 1 /\ known = 1 /\ img = 0 /\ imageLoading = TRUE
      /\ post = Asked(url) /\ pending = FALSE /\ timer = FALSE
      /\ get = [s \in Slot |-> None] /\ outrun = FALSE
  BY DEF Init
<1>2. /\ mode \in [ap : BOOLEAN, jpg : BOOLEAN, depth : Depth]
      /\ url \in Url /\ snapshotURL \in Kind
  BY CanvasAssumption DEF Init, Url, Kind
<1>3. /\ post \in Sent({"asked", "updated"}) /\ post.at = "asked" /\ post # None
  BY <1>1, <1>2, AskedIsSent
<1>4. \A s \in Slot : get[s] \in Sent({"asked"}) /\ get[s].at = "none"
  BY <1>1 DEF Sent, None
<1>5. get \in [Slot -> Sent({"asked"})]
  BY <1>1, <1>4
<1>6. /\ outrun \in BOOLEAN
      /\ \A s \in Slot : get[s].at = "answered" => get[s].rev <= model
  BY <1>1, <1>4
<1>7. post.at = "answered" => post.rev <= model
  BY <1>3
<1>8. /\ model \in Nat \ {0} /\ known \in Nat /\ img \in Nat
      /\ known <= model /\ img <= model
  BY <1>1
<1>9. imageLoading \in BOOLEAN /\ pending \in BOOLEAN /\ timer \in BOOLEAN
  BY <1>1, Zenon
<1>10. Typed
  BY <1>2, <1>3, <1>5, <1>6, <1>7, <1>8, <1>9, Zenon DEF Typed
<1> QED
  BY <1>1, <1>3, <1>10 DEF ImageInv, Busy, Fresh, Coming, OnItsWay

LEMMA ImageInvNext == ASSUME ImageInv, [Next]_vars PROVE ImageInv'
<1>1. ASSUME NEW l \in loads, DecodeFails(l) PROVE ImageInv'
  BY <1>1, StutterKeeps DEF DecodeFails
<1>2. CASE Decoding
  BY <1>2, StutterKeeps DEF Decoding, Decode
<1>3. CASE Frame
  BY <1>3, StutterKeeps DEF Frame
<1>4. CASE InvalidatingFrame
  BY <1>4, EditKeeps DEF InvalidatingFrame, ImageInv, Typed, urls
<1>5. CASE UNCHANGED vars
  BY <1>5, StutterKeeps DEF vars, Others
<1> QED
  BY <1>1, <1>2, <1>3, <1>4, <1>5, ExecutePostKeeps, RenderPostKeeps, JobChangesKeeps,
     UpdateParsedKeeps, PostDoneKeeps, PostFailsKeeps, RetryKeeps, RenderGetKeeps,
     GetDoneKeeps, GetFailsKeeps, UserKeeps DEF Next

LEMMA ImageInvHolds == Spec => []ImageInv
<1>1. Init => ImageInv
  BY ImageInvFirst
<1>2. ImageInv /\ [Next]_vars => ImageInv'
  BY ImageInvNext
<1> QED
  BY <1>1, <1>2, PTL DEF Spec

\* When no request is under way and nothing has outrun the image, it shows the
\* model as the browser knows it, and the canvas does not wait for another.
THEOREM ImageIsTheLatest == Spec => []ImageIsCurrent
<1>1. ImageInv => ImageIsCurrent
  <2> SUFFICES ASSUME ImageInv, Quiet, ~outrun PROVE img >= known /\ ~imageLoading
    BY DEF ImageIsCurrent
  <2>1. ~imageLoading
    BY DEF ImageInv, Busy, Quiet
  <2>2. None.at = "none"
    BY DEF None
  <2>3. ~OnItsWay(known)
    BY <2>2 DEF OnItsWay, Quiet
  <2> QED
    BY <2>1, <2>3 DEF ImageInv, Typed, Coming
<1> QED
  BY <1>1, ImageInvHolds, PTL

-----------------------------------------------------------------------------
(* The models, whatever is done to the canvas.                             *)

\* What is handed to the models is the answer to a request.
LEMMA SetImageKeepsModels ==
    ASSUME ProxyInv, NEW a \in Answer, SetImage(a)
    PROVE  ProxyInv'
<1>1. CASE UNCHANGED proxies
  BY <1>1 DEF proxies, ProxyInv, OneSnapshot, KeptWhole
<1>2. CASE SetDepthData(a.rev, a.kind = "ap")
  <2>1. a.rev \in Nat \ {0} /\ (a.kind = "ap") \in BOOLEAN
    BY DEF Answer
  <2> QED
    BY <1>2, <2>1, SetDepthDataKeeps
<1> QED
  BY <1>1, <1>2 DEF SetImage

LEMMA ProxyInvNext == ASSUME ProxyInv, ImageInv, [Next]_vars PROVE ProxyInv'
<1>1. CASE UNCHANGED proxies
  BY <1>1 DEF proxies, ProxyInv, OneSnapshot, KeptWhole
<1>2. CASE PostDone
  BY <1>2, PostCases, SetImageKeepsModels DEF PostDone, ImageInv
<1>3. ASSUME NEW s \in Slot, GetDone(s) PROVE ProxyInv'
  BY <1>3, GetCases, SetImageKeepsModels DEF GetDone, ImageInv
<1>4. ASSUME NEW a \in Algorithm, SetAlgorithm(a) PROVE ProxyInv'
  BY <1>4, NewCoverageKeeps DEF SetAlgorithm
<1>5. CASE User
  BY <1>1, <1>4, <1>5 DEF User, Navigate, ToggleAutoProxy, ToggleJpgProxy, MouseDown,
     MouseUp, SetDepthSize, Resize
<1>6. CASE Decoding
  BY <1>6, ImageLoadedKeeps DEF Decoding, Decode
<1>7. ASSUME NEW l \in loads, DecodeFails(l) PROVE ProxyInv'
  BY <1>7, ImageFailsKeeps DEF DecodeFails
<1>8. CASE Frame
  BY <1>8, InsertModelKeepsWhole DEF Frame
<1>9. CASE InvalidatingFrame
  BY <1>9, InvalidateKeeps DEF InvalidatingFrame
<1>10. CASE ExecutePost \/ RenderPost \/ JobChanges \/ UpdateParsed \/ PostFails \/ Retry
  BY <1>1, <1>10 DEF ExecutePost, RenderPost, JobChanges, UpdateParsed, PostFails, Retry
<1>11. ASSUME NEW s \in Slot, RenderGet(s) \/ GetFails(s) PROVE ProxyInv'
  BY <1>1, <1>11 DEF RenderGet, GetFails
<1>12. CASE UNCHANGED vars
  BY <1>1, <1>12 DEF vars
<1> QED
  BY <1>2, <1>3, <1>5, <1>6, <1>7, <1>8, <1>9, <1>10, <1>11, <1>12 DEF Next

\* No model in use is made of the colours of one snapshot and the depths of
\* another, however the images and the answers overtake each other.
THEOREM ModelsAreOfOneSnapshot == Spec => []ProxiesAreWhole
<1>1. Init => ProxyInv
  BY ProxyInvFirst DEF Init
<1>2. ProxyInv /\ ImageInv /\ [Next]_vars => ProxyInv'
  BY ProxyInvNext
<1>3. ProxyInv => ProxiesAreWhole
  BY DEF ProxyInv, KeptWhole, ProxiesAreWhole, Range, Unused
<1> QED
  BY <1>1, <1>2, <1>3, ImageInvHolds, PTL DEF Spec

-----------------------------------------------------------------------------
(* The frame buffers.                                                      *)

USE EnvironmentsAssumption

\* A new one in front of a list without repetitions.
LEMMA FrontAdded ==
    ASSUME NEW S, NEW list \in Seq(S), NEW key \in S, IsInjective(list),
           key \notin Range(list)
    PROVE  /\ <<key>> \o list \in Seq(S)
           /\ Len(<<key>> \o list) = Len(list) + 1
           /\ IsInjective(<<key>> \o list)
           /\ Range(<<key>> \o list) = Range(list) \cup {key}
<1> DEFINE both == <<key>> \o list
<1>1. <<key>> \in Seq(S) /\ Len(<<key>>) = 1 /\ <<key>>[1] = key
  OBVIOUS
<1>2. Len(list) \in Nat /\ DOMAIN list = 1 .. Len(list)
  BY LenProperties
<1>3. /\ both \in Seq(S) /\ Len(both) = 1 + Len(list)
      /\ \A i \in 1 .. 1 + Len(list) : both[i] = IF i <= 1 THEN key ELSE list[i - 1]
  BY <1>1, ConcatProperties
<1>4. DOMAIN both = 1 .. 1 + Len(list)
  BY <1>3, LenProperties
<1> HIDE DEF both
<1>5. \A i \in 1 .. Len(list) : both[i + 1] = list[i]
  BY <1>2, <1>3
<1>6. IsInjective(both)
  <2> SUFFICES ASSUME NEW a \in DOMAIN both, NEW b \in DOMAIN both, both[a] = both[b]
               PROVE  a = b
    BY DEF IsInjective
  <2>1. CASE a = 1 /\ b = 1
    BY <2>1
  <2>2. CASE a > 1 /\ b > 1
    <3>1. a - 1 \in DOMAIN list /\ b - 1 \in DOMAIN list /\ list[a - 1] = list[b - 1]
      BY <1>2, <1>3, <1>4, <2>2
    <3> QED
      BY <1>2, <1>4, <3>1 DEF IsInjective
  <2>3. CASE (a = 1 /\ b > 1) \/ (a > 1 /\ b = 1)
    BY <1>2, <1>3, <1>4, <2>3 DEF Range
  <2>4. a \in Nat /\ b \in Nat /\ a >= 1 /\ b >= 1
    BY <1>2, <1>4
  <2>5. (a = 1 \/ a > 1) /\ (b = 1 \/ b > 1)
    BY <2>4
  <2> QED
    BY <2>1, <2>2, <2>3, <2>5
<1>7. Range(both) = Range(list) \cup {key}
  <2>1. \A i \in DOMAIN both : both[i] \in Range(list) \cup {key}
    BY <1>2, <1>3, <1>4 DEF Range
  <2>2. key \in Range(both)
    BY <1>2, <1>3, <1>4 DEF Range
  <2>3. \A i \in DOMAIN list : list[i] \in Range(both)
    BY <1>2, <1>4, <1>5 DEF Range
  <2> QED
    BY <2>1, <2>2, <2>3 DEF Range
<1> QED
  BY <1>2, <1>3, <1>6, <1>7 DEF both

\* Deleting the least recently used keeps the others, the first among them.
LEMMA FewAreLeft ==
    ASSUME NEW S, NEW list \in Seq(S), IsInjective(list)
    PROVE  /\ Shortened(list) \in Seq(S)
           /\ Len(Shortened(list)) <= MaxEnvironments
           /\ IsInjective(Shortened(list))
           /\ Range(Shortened(list)) \subseteq Range(list)
           /\ list # <<>> => list[1] \in Range(Shortened(list))
<1> DEFINE m == Min({Len(list), MaxEnvironments})
           left == Shortened(list)
<1>1. Len(list) \in Nat /\ DOMAIN list = 1 .. Len(list) /\ list \in [1 .. Len(list) -> S]
  BY LenProperties
<1>2. m \in Nat /\ m <= Len(list) /\ m <= MaxEnvironments /\ (Len(list) > 0 => m > 0)
  <2>1. \E x \in {Len(list), MaxEnvironments} : \A y \in {Len(list), MaxEnvironments} : x <= y
    BY <1>1
  <2> QED
    BY <1>1, <2>1 DEF Min
<1>3. left = SubSeq(list, 1, m)
  BY DEF Shortened
<1> HIDE DEF m, left
<1>4. /\ left \in Seq(S) /\ Len(left) = m
      /\ \A i \in 1 .. m : left[i] = list[i]
  BY <1>1, <1>2, <1>3, SubSeqProperties
<1>5. DOMAIN left = 1 .. m
  BY <1>4, LenProperties
<1>6. IsInjective(left)
  BY <1>1, <1>2, <1>4, <1>5 DEF IsInjective
<1>7. Range(left) \subseteq Range(list)
  BY <1>1, <1>2, <1>4, <1>5 DEF Range
<1>8. list # <<>> => list[1] \in Range(left)
  BY <1>1, <1>2, <1>4, <1>5, EmptySeq DEF Range
<1> QED
  BY <1>2, <1>4, <1>6, <1>7, <1>8 DEF left

\* Taking one out keeps the others.
LEMMA OneIsTakenOut ==
    ASSUME NEW S, NEW list \in Seq(S), IsInjective(list), NEW at \in DOMAIN list
    PROVE  /\ RemoveAt(list, at) \in Seq(S)
           /\ Len(RemoveAt(list, at)) = Len(list) - 1
           /\ IsInjective(RemoveAt(list, at))
           /\ Range(RemoveAt(list, at)) = Range(list) \ {list[at]}
<1> DEFINE a == SubSeq(list, 1, at - 1)
           b == SubSeq(list, at + 1, Len(list))
           rest == RemoveAt(list, at)
<1>1. /\ Len(list) \in Nat /\ DOMAIN list = 1 .. Len(list)
      /\ list \in [1 .. Len(list) -> S] /\ at \in 1 .. Len(list)
  BY LenProperties
<1>2. /\ a \in Seq(S) /\ Len(a) = at - 1
      /\ \A i \in 1 .. at - 1 : a[i] = list[i]
  BY <1>1, SubSeqProperties
<1>3. /\ b \in Seq(S) /\ Len(b) = Len(list) - at
      /\ \A i \in 1 .. Len(list) - at : b[i] = list[at + i]
  <2>1. /\ at + 1 \in Int /\ Len(list) \in Int
        /\ \A i \in at + 1 .. Len(list) : list[i] \in S
        /\ Len(list) - (at + 1) + 1 = Len(list) - at
    BY <1>1
  <2>2. /\ b \in Seq(S)
        /\ Len(b) = IF at + 1 <= Len(list) THEN Len(list) - (at + 1) + 1 ELSE 0
        /\ \A i \in 1 .. Len(list) - (at + 1) + 1 : b[i] = list[at + 1 + i - 1]
    BY <2>1, SubSeqProperties
  <2> HIDE DEF b
  <2>3. Len(b) = Len(list) - at
    BY <1>1, <2>2
  <2>4. ASSUME NEW i \in 1 .. Len(list) - at PROVE b[i] = list[at + i]
    <3>1. i \in 1 .. Len(list) - (at + 1) + 1 /\ at + 1 + i - 1 = at + i
      BY <1>1
    <3> QED
      BY <2>2, <3>1
  <2> QED
    BY <2>2, <2>3, <2>4
<1>4. rest = a \o b
  BY DEF RemoveAt
<1> HIDE DEF a, b, rest
<1>5. /\ rest \in Seq(S) /\ Len(rest) = Len(list) - 1
      /\ \A i \in 1 .. Len(list) - 1 :
            rest[i] = IF i <= at - 1 THEN a[i] ELSE b[i - (at - 1)]
  <2>1. /\ rest \in Seq(S) /\ Len(rest) = Len(a) + Len(b)
        /\ \A i \in 1 .. Len(a) + Len(b) :
              rest[i] = IF i <= Len(a) THEN a[i] ELSE b[i - Len(a)]
    BY <1>2, <1>3, <1>4, ConcatProperties
  <2>2. Len(a) + Len(b) = Len(list) - 1
    BY <1>1, <1>2, <1>3
  <2> QED
    BY <1>2, <2>1, <2>2
<1>6. DOMAIN rest = 1 .. Len(list) - 1
  BY <1>1, <1>5, LenProperties
<1> DEFINE from(i) == IF i < at THEN i ELSE i + 1
<1>7. \A i \in DOMAIN rest : from(i) \in DOMAIN list \ {at} /\ rest[i] = list[from(i)]
  <2> TAKE i \in DOMAIN rest
  <2>1. CASE i < at
    <3>1. i <= at - 1 /\ i \in 1 .. at - 1 /\ i \in 1 .. Len(list) - 1
      BY <1>1, <1>6, <2>1
    <3>2. rest[i] = a[i] /\ a[i] = list[i]
      BY <1>2, <1>5, <3>1
    <3> QED
      BY <1>1, <2>1, <3>1, <3>2
  <2>2. CASE i >= at
    <3>1. i - (at - 1) \in 1 .. Len(list) - at /\ at + (i - (at - 1)) = i + 1
      BY <1>1, <1>6, <2>2
    <3>2. ~(i <= at - 1) /\ i \in 1 .. Len(list) - 1 /\ from(i) = i + 1
          /\ i + 1 \in DOMAIN list \ {at}
      BY <1>1, <1>6, <2>2
    <3>3. rest[i] = b[i - (at - 1)] /\ b[i - (at - 1)] = list[i + 1]
      BY <1>3, <1>5, <3>1, <3>2
    <3> QED
      BY <3>2, <3>3
  <2> QED
    BY <1>1, <1>6, <2>1, <2>2
<1>8. \A i, j \in DOMAIN rest : from(i) = from(j) => i = j
  BY <1>1, <1>6
<1>9. \A k \in DOMAIN list \ {at} : \E i \in DOMAIN rest : from(i) = k
  <2> TAKE k \in DOMAIN list \ {at}
  <2>1. CASE k < at
    BY <1>1, <1>6, <2>1
  <2>2. CASE k > at
    <3>1. k - 1 \in DOMAIN rest /\ from(k - 1) = k
      BY <1>1, <1>6, <2>2
    <3> QED
      BY <3>1
  <2> QED
    BY <1>1, <2>1, <2>2
<1> HIDE DEF from
<1>10. IsInjective(rest)
  BY <1>7, <1>8 DEF IsInjective
<1>11. Range(rest) = Range(list) \ {list[at]}
  <2>1. \A i \in DOMAIN rest : rest[i] \in Range(list) \ {list[at]}
    BY <1>1, <1>7 DEF IsInjective, Range
  <2>2. \A k \in DOMAIN list \ {at} : list[k] \in Range(rest)
    BY <1>7, <1>9 DEF Range
  <2> QED
    BY <2>1, <2>2 DEF Range
<1> QED
  BY <1>5, <1>10, <1>11 DEF rest

\* The list of frame buffers that is asked for one: a sequence without repetitions.
Listed(list) ==
    /\ \E S : list \in Seq(S)
    /\ IsInjective(list)
    /\ Len(list) <= MaxEnvironments + 1

\* The one that was asked for is in front, and the one in front before is kept:
\* that is the one the snapshot is drawn into when the second is asked for.
LEMMA EnvironmentIsFirst ==
    ASSUME NEW key, NEW list, Listed(list)
    PROVE  LET after == RenderEnvironment(key, list) IN
           /\ Listed(after) /\ after # <<>> /\ after[1] = key /\ key \in Range(after)
           /\ list # <<>> => list[1] \in Range(after)
<1>1. PICK T : list \in Seq(T)
  BY DEF Listed
<1> DEFINE S == T \cup {key}
           after == RenderEnvironment(key, list)
<1>2. list \in Seq(S) /\ key \in S /\ IsInjective(list) /\ Len(list) \in Nat
      /\ Len(list) <= MaxEnvironments + 1 /\ DOMAIN list = 1 .. Len(list)
  BY <1>1, SeqMonotonic, LenProperties DEF Listed
<1>3. PICK rest \in Seq(S) :
        /\ after = <<key>> \o rest /\ IsInjective(rest) /\ key \notin Range(rest)
        /\ Len(rest) <= MaxEnvironments
        /\ list # <<>> => list[1] \in Range(rest) \cup {key}
  <2>1. CASE key \in Range(list)
    <3> DEFINE P(i) == i \in DOMAIN list /\ list[i] = key
    <3>1. PICK i : P(i)
      BY <2>1 DEF Range
    <3>2. \A j : P(j) => j = i
      BY <1>2, <3>1 DEF IsInjective
    <3>3. (CHOOSE k \in DOMAIN list :
                /\ list[k] = key
                /\ \A j \in DOMAIN list : list[j] = key => k <= j) = i
      BY <1>2, <3>1, <3>2
    <3>4. after = <<key>> \o RemoveAt(list, i)
      BY <2>1, <3>3 DEF RenderEnvironment, Found
    <3>5. /\ RemoveAt(list, i) \in Seq(S)
          /\ Len(RemoveAt(list, i)) = Len(list) - 1
          /\ IsInjective(RemoveAt(list, i))
          /\ Range(RemoveAt(list, i)) = Range(list) \ {key}
      BY <1>2, <3>1, OneIsTakenOut
    <3>6. list # <<>> => list[1] \in Range(list)
      BY <1>2, EmptySeq DEF Range
    <3> QED
      BY <1>2, <3>4, <3>5, <3>6
  <2>2. CASE key \notin Range(list)
    <3>1. after = <<key>> \o Shortened(list)
      BY <2>2 DEF RenderEnvironment
    <3> QED
      BY <1>2, <2>2, <3>1, FewAreLeft
  <2> QED
    BY <2>1, <2>2
<1> HIDE DEF S, after
<1>4. /\ after \in Seq(S) /\ Len(after) = Len(rest) + 1 /\ IsInjective(after)
      /\ Range(after) = Range(rest) \cup {key}
  BY <1>2, <1>3, FrontAdded
<1>5. after[1] = key /\ after # <<>>
  <2>1. <<key>> \in Seq(S) /\ Len(<<key>>) = 1 /\ Len(rest) \in Nat
    BY <1>2, LenProperties
  <2>2. after[1] = <<key>>[1]
    BY <1>3, <2>1, ConcatProperties
  <2> QED
    BY <1>4, <2>1, <2>2, EmptySeq
<1>6. Len(rest) \in Nat
  BY LenProperties
<1> QED
  BY <1>3, <1>4, <1>5, <1>6 DEF Listed, after

LEMMA ShortenedIsListed ==
    ASSUME NEW list, Listed(list)
    PROVE  Listed(Shortened(list))
<1>1. PICK S : list \in Seq(S)
  BY DEF Listed
<1>2. /\ Shortened(list) \in Seq(S) /\ IsInjective(Shortened(list))
      /\ Len(Shortened(list)) <= MaxEnvironments
  BY <1>1, FewAreLeft DEF Listed
<1>3. Len(Shortened(list)) \in Nat
  BY <1>2, LenProperties
<1> QED
  BY <1>2, <1>3 DEF Listed

\* The inductive invariant.
EnvironmentsInv == Listed(environments) /\ target \subseteq Range(environments)

LEMMA RenderKeepsEnvironments ==
    ASSUME EnvironmentsInv, NEW size, Render(size)
    PROVE  EnvironmentsInv'
<1> DEFINE key == Key(size, Samples)  copy == Key(size, 1)
<1>1. /\ Listed(First(size)) /\ First(size) # <<>> /\ First(size)[1] = key
      /\ key \in Range(First(size))
  BY EnvironmentIsFirst DEF EnvironmentsInv, First
<1>2. CASE Samples > 1
  <2>1. environments' = RenderEnvironment(copy, First(size)) /\ target' = {key, copy}
    BY <1>2 DEF Render
  <2>2. /\ Listed(environments') /\ key \in Range(environments')
        /\ copy \in Range(environments')
    BY <1>1, <2>1, EnvironmentIsFirst
  <2> QED
    BY <2>1, <2>2 DEF EnvironmentsInv
<1>3. CASE ~(Samples > 1)
  <2>1. environments' = First(size) /\ target' = {key}
    BY <1>3 DEF Render
  <2> QED
    BY <1>1, <2>1 DEF EnvironmentsInv
<1> QED
  BY <1>2, <1>3

LEMMA RenderFailsKeepsEnvironments ==
    ASSUME EnvironmentsInv, NEW size, RenderFails(size)
    PROVE  EnvironmentsInv'
<1>1. Listed(First(size))
  BY EnvironmentIsFirst DEF EnvironmentsInv, First
<1>2. Listed(environments')
  BY <1>1, ShortenedIsListed DEF EnvironmentsInv, RenderFails
<1> QED
  BY <1>2 DEF EnvironmentsInv, RenderFails

LEMMA EnvironmentsInvNext == ASSUME EnvironmentsInv, [Next]_vars PROVE EnvironmentsInv'
<1>1. CASE UNCHANGED job
  BY <1>1 DEF job, EnvironmentsInv
<1>2. ASSUME NEW size, Render(size) PROVE EnvironmentsInv'
  BY <1>2, RenderKeepsEnvironments
<1>3. ASSUME NEW size, RenderFails(size) PROVE EnvironmentsInv'
  BY <1>3, RenderFailsKeepsEnvironments
<1>4. CASE RenderPost \/ PostFails
  BY <1>1, <1>2, <1>3, <1>4 DEF RenderPost, PostFails
<1>5. ASSUME NEW s \in Slot, RenderGet(s) \/ GetDone(s) \/ GetFails(s)
      PROVE  EnvironmentsInv'
  BY <1>1, <1>2, <1>3, <1>5 DEF RenderGet, GetDone, GetFails
<1>6. ASSUME NEW u, Edit(u) PROVE EnvironmentsInv'
  BY <1>1, <1>6 DEF Edit
<1>7. CASE User
  BY <1>1, <1>6, <1>7 DEF User, Navigate, ToggleAutoProxy, ToggleJpgProxy, MouseDown,
     MouseUp, SetDepthSize, Resize, SetAlgorithm
<1>8. CASE Decoding \/ Frame \/ InvalidatingFrame
  BY <1>1, <1>6, <1>8 DEF Decoding, Decode, Frame, InvalidatingFrame, Others
<1>9. ASSUME NEW l \in loads, DecodeFails(l) PROVE EnvironmentsInv'
  BY <1>1, <1>9 DEF DecodeFails, Others
<1>10. CASE ExecutePost \/ JobChanges \/ UpdateParsed \/ PostDone \/ Retry
  BY <1>1, <1>10 DEF ExecutePost, JobChanges, UpdateParsed, PostDone, Retry
<1>11. CASE UNCHANGED vars
  BY <1>1, <1>11 DEF vars, job
<1> QED
  BY <1>4, <1>5, <1>7, <1>8, <1>9, <1>10, <1>11 DEF Next

\* A snapshot is drawn into buffers that exist, and read from one that does, for
\* every number of samples and of environments that are kept: making the second
\* buffer never deletes the first.  No buffer is listed twice, and there is one
\* more than the limit at most.
THEOREM SnapshotsAreThere == Spec => []RendersIntoLive
<1>1. Init => EnvironmentsInv
  <2> SUFFICES ASSUME Init PROVE EnvironmentsInv
    OBVIOUS
  <2>1. environments = <<>> /\ target = {}
    BY DEF Init, EnvironmentsInit
  <2>2. \A S : <<>> \in Seq(S) /\ Len(<<>>) = 0
    BY EmptySeq
  <2>3. DOMAIN <<>> = {}
    BY <2>2
  <2> QED
    BY <2>1, <2>2, <2>3 DEF EnvironmentsInv, Listed, IsInjective
<1>2. EnvironmentsInv /\ [Next]_vars => EnvironmentsInv'
  BY EnvironmentsInvNext
<1>3. EnvironmentsInv => RendersIntoLive
  BY DEF EnvironmentsInv, Listed, RendersIntoLive
<1> QED
  BY <1>1, <1>2, <1>3, PTL DEF Spec
=============================================================================
