------------------------------ MODULE ImagePath ------------------------------
(***************************************************************************)
(* The image of a job in a browser: who asks for it and when, which state  *)
(* of the job an answer shows, and what the canvas makes of it.            *)
(*                                                                         *)
(* Images arrive on two paths: a POST of edits is answered with one, and   *)
(* one is asked for whenever an update from the job has been parsed.  Each *)
(* is a request of its own, served by an Apache process of its own, so the *)
(* answers come in any order.  JavaScript runs one callback at a time: a   *)
(* callback is a step.  What is in the model is not modelled, only its     *)
(* revision; how the canvas is shown while a mouse is down is left out.    *)
(***************************************************************************)
EXTENDS ProxyModels, RenderEnvironments

CONSTANTS
    Slot,        \* the GETs that may be under way at a time
    Depth,       \* values of ap_depthWidth
    Size, InitialSize,   \* of the canvas
    InitialMode, \* the parameters of the canvas when it is made
    PngOnRelease,\* there is an ap_hold_up_png, and it is false
    MaxEdits, MaxChanges, MaxFailures    \* bounds

ASSUME CanvasAssumption ==
    /\ InitialMode \subseteq [ap : BOOLEAN, jpg : BOOLEAN, depth : Depth]
    /\ InitialSize \in Size

VARIABLES
    model,        \* the revision of the job's model
    known,        \* that of the browser's
    mode,         \* ap_useAutoProxy, ap_useJpgProxy, ap_depthWidth
    url,          \* the URLHandler: kind of snapshot, depth_w, width
    snapshotURL,  \* _snapshotURL
    imageLoading, \* _imageLoading
    post,         \* the sender's POST; _updateInProgress is post # None
    pending,      \* _pendingXML
    timer,        \* _updateError has set its timer
    get,          \* the GETs of _requestImageIfNotBusy
    img,          \* the revision that the image shows
    edits, changes, failures,
    outrun        \* a history: see ImageIsCurrent

sender == <<post, pending, timer>>
urls   == <<mode, url, snapshotURL>>
bounds == <<edits, changes, failures>>
vars   == <<model, known, urls, imageLoading, sender, get, img, bounds, outrun,
            proxies, job>>

Kind == {"png", "jpg", "ap"}
None == [at |-> "none"]
Asked(u) == [at |-> "asked", url |-> u]
Snapshot(u) == [at |-> "answered", rev |-> model, kind |-> u.kind, depth |-> u.depth]

-----------------------------------------------------------------------------
(* mod_trell and the job.                                                  *)

\* The first half of a POST: trell_handle_update_state.
ExecutePost ==
    /\ post.at = "asked"
    /\ model' = model + 1
    /\ post' = [post EXCEPT !.at = "updated"]
    /\ UNCHANGED <<known, urls, imageLoading, pending, timer, get, img, bounds,
                   outrun, proxies, job>>

\* The second half, an exchange of its own: trell_handle_get_snapshot.
RenderPost ==
    /\ post.at = "updated"
    /\ Render(post.url.size)
    /\ post' = Snapshot(post.url)
    /\ UNCHANGED <<model, known, urls, imageLoading, pending, timer, get, img,
                   bounds, outrun, proxies>>

\* A GET is only the second half.
RenderGet(s) ==
    /\ get[s].at = "asked"
    /\ Render(get[s].url.size)
    /\ get' = [get EXCEPT ![s] = Snapshot(get[s].url)]
    /\ UNCHANGED <<model, known, urls, imageLoading, sender, img, bounds, outrun,
                   proxies>>

\* The job changes its model on its own.
JobChanges ==
    /\ changes < MaxChanges /\ changes' = changes + 1
    /\ model' = model + 1
    /\ UNCHANGED <<known, urls, imageLoading, sender, get, img, edits, failures,
                   outrun, proxies, job>>

-----------------------------------------------------------------------------
(* The canvas.                                                             *)

\* _requestImageIfNotBusy.  Nothing says that a GET is already under way.
RequestImageIfNotBusy(u) ==
    IF imageLoading THEN UNCHANGED get
    ELSE \E s \in Slot : get[s] = None /\ get' = [get EXCEPT ![s] = Asked(u)]

\* A bundle whose depth size is not the one the shader has been told of is not
\* shown at all.
Accepted(a) == mode.ap => a.kind # "ap" \/ a.depth = mode.depth

\* _setImageFromText
SetImage(a) ==
    IF Accepted(a)
    THEN /\ img' = a.rev
         /\ outrun' = (outrun \/ a.rev < img)
         /\ IF mode.ap THEN SetDepthData(a.rev, a.kind = "ap") ELSE UNCHANGED proxies
    ELSE outrun' = TRUE /\ UNCHANGED <<img, proxies>>

\* The sender's listener for an edit: _update(key).  It runs before those of
\* the canvas, and so with the old URL.
Edit(u) ==
    /\ edits < MaxEdits /\ edits' = edits + 1
    /\ IF post = None
       THEN post' = Asked(u) /\ imageLoading' = TRUE /\ UNCHANGED pending
       ELSE pending' = TRUE /\ UNCHANGED <<post, imageLoading>>
    /\ UNCHANGED <<model, known, timer, img, changes, failures, outrun, job>>

\* The load of a GET.
GetDone(s) ==
    /\ get[s].at = "answered"
    /\ SetImage(get[s])
    /\ get' = [get EXCEPT ![s] = None]
    /\ UNCHANGED <<model, known, urls, imageLoading, sender, bounds, job>>

\* It has no error function.
GetFails(s) ==
    /\ get[s] # None /\ failures < MaxFailures /\ failures' = failures + 1
    /\ get' = [get EXCEPT ![s] = None]
    /\ outrun' = TRUE
    /\ IF get[s].at = "asked" THEN RenderFails(get[s].url.size) \/ UNCHANGED job
       ELSE UNCHANGED job
    /\ UNCHANGED <<model, known, urls, imageLoading, sender, img, edits, changes,
                   proxies>>

\* An update has been parsed: /model/updateParsed.
UpdateParsed ==
    /\ known < model
    /\ known' \in known + 1 .. model
    /\ RequestImageIfNotBusy(url)
    /\ outrun' = (outrun \/ (imageLoading /\ post.at = "answered" /\ post.rev < known'))
    /\ UNCHANGED <<model, urls, imageLoading, sender, img, bounds, proxies, job>>

\* MUTANT of PostDone: the flag is only reset if there is more to send.
PostDoneStaysLoading ==
    /\ post.at = "answered"
    /\ SetImage(post)
    /\ post' = (IF pending THEN Asked(url) ELSE None)
    /\ pending' = FALSE
    /\ UNCHANGED <<model, known, urls, imageLoading, timer, get, bounds, job>>

\* _updateComplete: updateSendPartialComplete; then another POST with what has
\* been edited meanwhile, or updateSendComplete.
PostDone ==
    /\ post.at = "answered"
    /\ SetImage(post)
    /\ IF pending THEN post' = Asked(url) /\ UNCHANGED imageLoading
                  ELSE post' = None /\ imageLoading' = FALSE
    /\ pending' = FALSE
    /\ UNCHANGED <<model, known, urls, timer, get, bounds, job>>

\* _updateError.  The POST may have been executed or not.
PostFails ==
    /\ post # None /\ failures < MaxFailures /\ failures' = failures + 1
    /\ post' = None /\ timer' = TRUE
    /\ IF post.at = "updated" THEN RenderFails(post.url.size) \/ UNCHANGED job
       ELSE UNCHANGED job
    /\ UNCHANGED <<model, known, urls, imageLoading, pending, get, img, edits,
                   changes, outrun, proxies>>

\* The timer: _update().
Retry ==
    /\ timer /\ timer' = FALSE
    /\ IF post = None
       THEN post' = Asked(url) /\ imageLoading' = TRUE /\ UNCHANGED pending
       ELSE pending' = TRUE /\ UNCHANGED <<post, imageLoading>>
    /\ UNCHANGED <<model, known, urls, get, img, bounds, outrun, proxies, job>>

-----------------------------------------------------------------------------
(* The user.                                                               *)

Navigate == Edit(url) /\ UNCHANGED <<urls, get, proxies>>

SetURL(kind) == snapshotURL' = kind /\ url' = [url EXCEPT !.kind = kind]

\* The listener of ap_useAutoProxy.
ToggleAutoProxy ==
    /\ Edit(url)
    /\ mode' = [mode EXCEPT !.ap = ~@]
    /\ url' = [url EXCEPT !.kind = IF mode.ap THEN snapshotURL ELSE "ap"]
    /\ UNCHANGED <<snapshotURL, get, proxies>>

\* The listener of ap_useJpgProxy: ap_useAutoProxy overrides it.
ToggleJpgProxy ==
    /\ Edit(url)
    /\ mode' = [mode EXCEPT !.jpg = ~@]
    /\ SetURL(IF mode.ap THEN "ap" ELSE IF mode.jpg THEN "png" ELSE "jpg")
    /\ UNCHANGED <<get, proxies>>

\* The listener of ap_depthWidth.
SetDepthSize(d) ==
    /\ d # mode.depth
    /\ Edit(url)
    /\ mode' = [mode EXCEPT !.depth = d]
    /\ url' = [url EXCEPT !.depth = d]
    /\ UNCHANGED <<snapshotURL, get, proxies>>

\* resize: the parameters first, then the viewer element.
Resize(n) ==
    /\ n # url.size
    /\ url' = [url EXCEPT !.size = n]
    /\ Edit(url')
    /\ UNCHANGED <<mode, snapshotURL, get, proxies>>

\* The listener of ap_autoProxyAlgo.
SetAlgorithm(a) ==
    /\ a # algorithm
    /\ Edit(url)
    /\ NewCoverage(a)
    /\ UNCHANGED <<urls, get, being, loads>>

MouseDown ==
    /\ ~mode.ap /\ mode.jpg
    /\ SetURL("jpg")
    /\ UNCHANGED <<model, known, mode, imageLoading, sender, get, img, bounds,
                   outrun, proxies, job>>

MouseUp ==
    /\ ~mode.ap /\ mode.jpg /\ PngOnRelease
    /\ SetURL("png")
    /\ RequestImageIfNotBusy(url')
    /\ UNCHANGED <<model, known, mode, imageLoading, sender, img, bounds, outrun,
                   proxies, job>>

-----------------------------------------------------------------------------
(* The images that the browser decodes, and its frames.                    *)

Others == <<model, known, urls, get, img, outrun, job>>

Decode(l) == ImageLoaded(l) /\ UNCHANGED <<Others, imageLoading, sender, bounds>>

DecodeFails(l) ==
    /\ failures < MaxFailures /\ failures' = failures + 1
    /\ ImageFails(l)
    /\ UNCHANGED <<Others, imageLoading, sender, edits, changes>>

\* A frame; none of them is drawn without ap_useAutoProxy.
Frame ==
    /\ mode.ap
    /\ InsertModel
    /\ UNCHANGED <<Others, imageLoading, sender, bounds>>

\* A frame in which ap_invalidateAllModels was set; resetting it is an edit.  One
\* that first inserts a model is a Frame with this one after it.
InvalidatingFrame ==
    /\ mode.ap /\ being.state # 2
    /\ InvalidateAllModels
    /\ Edit(url)
    /\ UNCHANGED <<urls, get>>

-----------------------------------------------------------------------------

\* The canvas has told the job its size.
Init ==
    /\ model = 1 /\ known = 1 /\ img = 0
    /\ mode \in InitialMode
    /\ snapshotURL = (IF ~mode.jpg THEN "png" ELSE IF mode.ap THEN "ap" ELSE "jpg")
    /\ url = [kind |-> IF mode.ap THEN "ap" ELSE snapshotURL, depth |-> mode.depth,
              size |-> InitialSize]
    /\ imageLoading = TRUE
    /\ post = Asked(url) /\ pending = FALSE /\ timer = FALSE
    /\ get = [s \in Slot |-> None]
    /\ edits = 0 /\ changes = 0 /\ failures = 0
    /\ outrun = FALSE
    /\ ProxyInit /\ EnvironmentsInit

User ==
    \/ Navigate \/ ToggleAutoProxy \/ ToggleJpgProxy \/ MouseDown \/ MouseUp
    \/ \E d \in Depth : SetDepthSize(d)
    \/ \E n \in Size : Resize(n)
    \/ \E a \in Algorithm : SetAlgorithm(a)

Decoding == \E l \in loads : Decode(l)

Next ==
    \/ ExecutePost \/ RenderPost \/ JobChanges \/ UpdateParsed
    \/ PostDone \/ PostFails \/ Retry
    \/ \E s \in Slot : RenderGet(s) \/ GetDone(s) \/ GetFails(s)
    \/ User
    \/ Decoding \/ Frame \/ InvalidatingFrame
    \/ \E l \in loads : DecodeFails(l)

Spec == Init /\ [][Next]_vars

\* Decoding ends and frames are drawn.
FairSpec == Spec /\ WF_vars(Decoding) /\ WF_vars(Frame)

-----------------------------------------------------------------------------
(* Properties.                                                             *)

Revision == 0 .. MaxEdits + MaxChanges + MaxFailures + 2
Url == [kind : Kind, depth : Depth, size : Size]

\* The state has its types; and Canvas.js: "We have decided to let ap_useAutoProxy
\* override ap_useJpgProxy".
TypeOK ==
    /\ mode.ap => url.kind = "ap"
    /\ {model, known, img} \subseteq Revision /\ known <= model /\ img <= model
    /\ mode \in [ap : BOOLEAN, jpg : BOOLEAN, depth : Depth]
    /\ url \in Url /\ snapshotURL \in Kind
    /\ {imageLoading, pending, timer, outrun} \subseteq BOOLEAN
    /\ post.at \in {"none", "asked", "updated", "answered"}
    /\ \A s \in Slot : get[s].at \in {"none", "asked", "answered"}
    /\ ProxyType(Revision)

\* When nothing is under way, the image is that of the model as the browser
\* knows it, unless it has been outrun: by an older image that arrived later,
\* by an update that was parsed between the rendering of a POST's image and its
\* arrival, by a GET that failed, or by a change of the depth size.
Quiet == post = None /\ ~timer /\ \A s \in Slot : get[s] = None
ImageIsCurrent == Quiet /\ ~outrun => img >= known /\ ~imageLoading

\* A model that is being loaded is complete and in use one day, so that there is
\* a place for the next, unless one of its images was broken or nothing is drawn.
ProxiesKeepComing ==
    being.state # 0 ~> being.state = 0 \/ failures > 0 \/ ~mode.ap

\* Canvas.js: "Therefore the image we received is a perfect match for our
\* current exposedmodel".
CompleteIsMatch ==
    [][imageLoading /\ ~imageLoading' => img' >= known']_vars
=============================================================================
