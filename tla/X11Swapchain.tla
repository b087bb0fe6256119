---------------------------- MODULE X11Swapchain ----------------------------
(***************************************************************************)
(* One swapchain of src/wsi/swapchain_base.cpp driven by the X11 presenter *)
(* of src/wsi/x11/swapchain.cpp, together with the X server it talks to.   *)
(*                                                                         *)
(* Threads: the application (one, since Vulkan calls on a swapchain are    *)
(* externally synchronised), the page-flip thread (FIFO only: the X11      *)
(* presenter asks for it unless the mode is MAILBOX) and the X11 present   *)
(* event thread.  In MAILBOX present_image runs inline on the application  *)
(* thread.  m_thread_status_lock makes every step of present_image,        *)
(* get_free_buffer and the event loop atomic with respect to the others;   *)
(* a wait on m_thread_status_cond releases it.  The condition variable is  *)
(* modelled exactly: a waiter sleeps in `waiting` until a notify_all.      *)
(*                                                                         *)
(* The X server executes sent presents in order.  For each it sends a      *)
(* COMPLETE_NOTIFY and, once it no longer reads the pixmap, an             *)
(* IDLE_NOTIFY.  With ServerOrder = "copy" the IDLE of a present is sent   *)
(* before its COMPLETE (a copy is done when it completes); with "any" the  *)
(* IDLE may follow later (a flip releases the pixmap at the next flip).    *)
(* Pending completions are counted per image; the serials only match a     *)
(* COMPLETE to its image.                                                  *)
(***************************************************************************)
EXTENDS Integers, Sequences, FiniteSets, FiniteSetsExt

CONSTANTS
    NumImages,              \* images of the swapchain
    MinImageCount,          \* surface minImageCount (forward-progress rule)
    Modes,                  \* present modes the application may choose
    MaxPendingCompletions,  \* X11_SWAPCHAIN_MAX_PENDING_COMPLETIONS (128)
    ServerOrder,            \* "copy" | "any": may IDLE follow COMPLETE?
    MaxConfigure,           \* bound on CONFIGURE_NOTIFY events
    MayDisconnect,          \* may the X connection break?
    MaxPayloadFailures      \* bound on failing image_wait_present calls

Img == 0..(NumImages - 1)
NoImg == -1

ASSUME /\ NumImages \in Nat \ {0} /\ MinImageCount \in 1..NumImages
       /\ Modes \subseteq {"FIFO", "MAILBOX"} /\ Modes # {}
       /\ MaxPendingCompletions \in Nat \ {0}
       /\ ServerOrder \in {"copy", "any"}
       /\ MaxConfigure \in Nat /\ MayDisconnect \in BOOLEAN
       /\ MaxPayloadFailures \in Nat

Status == {"INVALID", "ACQUIRED", "PENDING", "FREE"}
\* m_error_state; DEVICE_LOST stands for any failure of image_wait_present
ErrState == {"SUCCESS", "SUBOPTIMAL", "SURFACE_LOST", "DEVICE_LOST"}
AcqResult == {"NONE", "SUCCESS", "NOT_READY", "OUT_OF_DATE"} \cup ErrState
Event == [kind : {"IDLE", "COMPLETE"}, img : Img]
         \cup [kind : {"CONFIGURE"}, img : {"lost", "resize"}]

VARIABLES
    mode,         \* m_present_mode, fixed at creation
    status,       \* m_swapchain_images[i].status
    freeSem,      \* count of m_free_image_semaphore
    pfSem,        \* count of m_page_flip_semaphore
    pending,      \* m_pending_buffer_pool
    pfRun,        \* m_page_flip_thread_run
    pfAlive,      \* the page-flip thread has not returned
    pf,           \* page-flip thread: [at, img]
    app,          \* application thread: [at, img, left, caller, res]
    lastAcq,      \* result and image of the last acquire_next_image
    err,          \* m_error_state
    comps,        \* pending_completions.size() of each image
    pool,         \* m_free_buffer_pool (pixmaps named by their image)
    evRun,        \* m_present_event_thread_run
    evPc,         \* "start" | "loop" | "xwait" | "exited"
    evJoined,     \* m_present_event_thread has been joined
    waiting,      \* threads asleep in m_thread_status_cond.wait
    srvQ,         \* presents the X server has not completed, in order
    idleOwed,     \* per image, IDLE_NOTIFYs the server still owes
    xq,           \* special-event queue of the connection
    configures,   \* CONFIGURE_NOTIFYs sent so far
    connLost,     \* the X connection is broken
    payloadFailures

vars == <<mode, status, freeSem, pfSem, pending, pfRun, pfAlive, pf, app, lastAcq,
          err, comps, pool, evRun, evPc, evJoined, waiting, srvQ, idleOwed,
          xq, configures, connLost, payloadFailures>>

UseThread == mode # "MAILBOX"           \* x11 init_platform
CountIn(S) == Quantify(Img, LAMBDA i : status[i] \in S)
FreeImgs == {i \in Img : status[i] = "FREE"}
Failed == err # "SUCCESS"               \* error_has_occured()
Notify == waiting' = {}                 \* m_thread_status_cond.notify_all()

AppIdle == [at |-> "idle", img |-> NoImg, left |-> 0, caller |-> "none",
            res |-> "NONE"]
PfWait == [at |-> "wait", img |-> NoImg]

\* unpresent_image in a non-shared mode: the image is FREE and the
\* free-image semaphore is posted
Unpresent(S) ==
    /\ status' = [i \in Img |-> IF i \in S THEN "FREE" ELSE status[i]]
    /\ freeSem' = freeSem + Cardinality(S)

\* the event-thread loop head sees a completion to wait for
AwaitsCompletion == \E i \in Img : status[i] # "INVALID" /\ comps[i] > 0

(***************************************************************************)
(* present_event_thread (x11/swapchain.cpp 522-619).                       *)
(***************************************************************************)
EvUnchanged == UNCHANGED <<mode, status, freeSem, pfSem, pending, pfRun, pfAlive,
                           pf, app, lastAcq, srvQ, idleOwed, configures,
                           connLost, payloadFailures>>

\* the thread body starts by setting m_present_event_thread_run
EvStart ==
    /\ evPc = "start"
    /\ evRun' = TRUE /\ evPc' = "loop"
    /\ EvUnchanged /\ UNCHANGED <<err, comps, pool, evJoined, waiting, xq>>

\* leaving the loop: m_present_event_thread_run = false; notify_all
EvExit == evRun' = FALSE /\ evPc' = "exited" /\ Notify

\* loop head, under m_thread_status_lock: the run flag is clear, or a
\* completion is pending and error_has_occured()
EvStop ==
    /\ evPc = "loop" /\ "ev" \notin waiting
    /\ ~evRun \/ (AwaitsCompletion /\ Failed)
    /\ EvExit
    /\ EvUnchanged /\ UNCHANGED <<err, comps, pool, evJoined, xq>>

\* no image awaits a completion: sleep on m_thread_status_cond
EvSleep ==
    /\ evPc = "loop" /\ "ev" \notin waiting
    /\ evRun /\ ~AwaitsCompletion
    /\ waiting' = waiting \cup {"ev"}
    /\ EvUnchanged /\ UNCHANGED <<err, comps, pool, evRun, evPc, evJoined, xq>>

\* unlock and block in xcb_wait_for_special_event
EvToX ==
    /\ evPc = "loop" /\ "ev" \notin waiting
    /\ evRun /\ AwaitsCompletion /\ ~Failed
    /\ evPc' = "xwait"
    /\ EvUnchanged /\ UNCHANGED <<err, comps, pool, evRun, evJoined, waiting, xq>>

\* an event arrives; the thread relocks and handles it
EvReceive(kind) ==
    /\ evPc = "xwait" /\ xq # <<>> /\ Head(xq).kind = kind
    /\ xq' = Tail(xq) /\ evPc' = "loop"

\* CONFIGURE_NOTIFY: pixmap_flags bit 0 gives SURFACE_LOST, a new window
\* size gives SUBOPTIMAL; set_error_state overwrites whatever was there
EvConfigure ==
    /\ EvReceive("CONFIGURE")
    /\ err' = IF Head(xq).img = "lost" THEN "SURFACE_LOST" ELSE "SUBOPTIMAL"
    /\ EvUnchanged /\ UNCHANGED <<comps, pool, evRun, evJoined, waiting>>

\* IDLE_NOTIFY: the pixmap goes to m_free_buffer_pool
EvIdle ==
    /\ EvReceive("IDLE")
    /\ pool' = Append(pool, Head(xq).img) /\ Notify
    /\ EvUnchanged /\ UNCHANGED <<err, comps, evRun, evJoined>>

\* mutant: a COMPLETE_NOTIFY also returns the pixmap to the pool
EvCompleteFrees ==
    /\ EvReceive("COMPLETE")
    /\ LET i == Head(xq).img
       IN  comps' = [comps EXCEPT ![i] = IF @ > 0 THEN @ - 1 ELSE @]
    /\ pool' = Append(pool, Head(xq).img) /\ Notify
    /\ EvUnchanged /\ UNCHANGED <<err, evRun, evJoined>>

\* COMPLETE_NOTIFY of kind PIXMAP: erase the completion with that serial
EvComplete ==
    /\ EvReceive("COMPLETE")
    /\ LET i == Head(xq).img
       IN  comps' = [comps EXCEPT ![i] = IF @ > 0 THEN @ - 1 ELSE @]
    /\ Notify
    /\ EvUnchanged /\ UNCHANGED <<err, pool, evRun, evJoined>>

\* xcb_wait_for_special_event returns NULL: the connection is broken
EvDisconnected ==
    /\ evPc = "xwait" /\ xq = <<>> /\ connLost
    /\ err' = "SURFACE_LOST" /\ EvExit
    /\ EvUnchanged /\ UNCHANGED <<comps, pool, evJoined, xq>>

EventThread == EvStart \/ EvStop \/ EvSleep \/ EvToX \/ EvConfigure
               \/ EvIdle \/ EvComplete \/ EvDisconnected

(***************************************************************************)
(* present_image (x11/swapchain.cpp 621-660), run by the page-flip thread  *)
(* in FIFO and inline by the application in MAILBOX.                       *)
(***************************************************************************)
Presenter == IF UseThread THEN "pf" ELSE "app"
Ctx == IF UseThread THEN pf ELSE app
CtxAt(at) == Ctx.at = at /\ Presenter \notin waiting
SetCtx(at) ==
    IF UseThread THEN pf' = [pf EXCEPT !.at = at] /\ UNCHANGED app
                 ELSE app' = [app EXCEPT !.at = at] /\ UNCHANGED pf
Return == IF UseThread THEN pf' = PfWait /\ UNCHANGED app
                       ELSE app' = AppIdle /\ UNCHANGED pf

PrUnchanged == UNCHANGED <<mode, pfSem, pending, pfRun, pfAlive, lastAcq, err,
                           pool, evRun, evPc, evJoined, idleOwed, xq,
                           configures, connLost, payloadFailures>>

\* the image has MAX_PENDING_COMPLETIONS outstanding and the event thread
\* is gone: give the image back at once
PresentGiveBack ==
    /\ CtxAt("present")
    /\ comps[Ctx.img] = MaxPendingCompletions /\ ~evRun
    /\ Unpresent({Ctx.img}) /\ Return
    /\ PrUnchanged /\ UNCHANGED <<comps, waiting, srvQ>>

\* ... or wait for the event thread to erase one
PresentFull ==
    /\ CtxAt("present")
    /\ comps[Ctx.img] = MaxPendingCompletions /\ evRun
    /\ waiting' = waiting \cup {Presenter}
    /\ PrUnchanged /\ UNCHANGED <<status, freeSem, pf, app, comps, srvQ>>

\* mutant: present_image gives the image back at once, as headless does
PresentSendUnpresent ==
    /\ CtxAt("present")
    /\ comps[Ctx.img] < MaxPendingCompletions
    /\ srvQ' = Append(srvQ, Ctx.img)
    /\ comps' = [comps EXCEPT ![Ctx.img] = @ + 1] /\ Notify
    /\ IF mode = "FIFO" THEN SetCtx("fifo") ELSE Return
    /\ Unpresent({Ctx.img})
    /\ PrUnchanged

\* xcb_present_pixmap, then the completion is recorded and notified; in
\* FIFO the thread goes on to wait for it
PresentSend ==
    /\ CtxAt("present")
    /\ comps[Ctx.img] < MaxPendingCompletions
    /\ srvQ' = Append(srvQ, Ctx.img)
    /\ comps' = [comps EXCEPT ![Ctx.img] = @ + 1] /\ Notify
    /\ IF mode = "FIFO" THEN SetCtx("fifo") ELSE Return
    /\ PrUnchanged /\ UNCHANGED <<status, freeSem>>

\* FIFO: the completion arrived, or the event thread has stopped
PresentFifoDone ==
    /\ CtxAt("fifo")
    /\ comps[Ctx.img] = 0 \/ ~evRun
    /\ Return
    /\ PrUnchanged /\ UNCHANGED <<status, freeSem, comps, waiting, srvQ>>

PresentFifoWait ==
    /\ CtxAt("fifo")
    /\ comps[Ctx.img] > 0 /\ evRun
    /\ waiting' = waiting \cup {Presenter}
    /\ PrUnchanged /\ UNCHANGED <<status, freeSem, pf, app, comps, srvQ>>

PresentStep == PresentGiveBack \/ PresentFull \/ PresentSend
               \/ PresentFifoDone \/ PresentFifoWait

(***************************************************************************)
(* page_flip_thread (swapchain_base.cpp 56-123) and call_present.          *)
(***************************************************************************)
PfUnchanged == UNCHANGED <<mode, app, lastAcq, comps, pool, evRun, evPc, evJoined,
                           waiting, srvQ, idleOwed, xq, configures, connLost>>

PFTake ==
    /\ pfAlive /\ pf.at = "wait" /\ pfRun /\ pfSem > 0
    /\ pfSem' = pfSem - 1
    /\ pf' = [at |-> "payload", img |-> Head(pending)]
    /\ pending' = Tail(pending)
    /\ PfUnchanged
    /\ UNCHANGED <<status, freeSem, pfRun, pfAlive, err, payloadFailures>>

PFExit ==
    /\ pfAlive /\ pf.at = "wait" /\ ~pfRun
    /\ pfAlive' = FALSE
    /\ PfUnchanged
    /\ UNCHANGED <<status, freeSem, pfSem, pending, pfRun, pf, err,
                   payloadFailures>>

\* image_wait_present fails: set_error_state; post the free semaphore;
\* continue.  The image stays PENDING and nobody notifies the condition.
PFPayloadFails ==
    /\ pf.at = "payload" /\ payloadFailures < MaxPayloadFailures
    /\ payloadFailures' = payloadFailures + 1
    /\ err' = "DEVICE_LOST" /\ freeSem' = freeSem + 1 /\ pf' = PfWait
    /\ PfUnchanged /\ UNCHANGED <<status, pfSem, pending, pfRun, pfAlive>>

\* the fence signalled: call_present -> present_image
PFPayloadReady ==
    /\ pf.at = "payload"
    /\ pf' = [pf EXCEPT !.at = "present"]
    /\ PfUnchanged
    /\ UNCHANGED <<status, freeSem, pfSem, pending, pfRun, pfAlive, err,
                   payloadFailures>>

PageFlipThread == PFTake \/ PFExit \/ PFPayloadReady

(***************************************************************************)
(* The application thread: acquire_next_image, queue_present,              *)
(* release_images and vkDestroySwapchainKHR.                               *)
(***************************************************************************)
SrvUnchanged == UNCHANGED <<mode, srvQ, idleOwed, xq, configures, connLost>>
PoolImgs == {pool[k] : k \in DOMAIN pool}

\* acquire_next_image once wait_for_free_buffer returned r: the sticky
\* error, else the first FREE image.  With no FREE image the release build
\* (assert compiled out) returns VK_SUCCESS without writing an index.
AcqFinish(r) ==
    CASE r # "SUCCESS" ->
            lastAcq' = [res |-> r, img |-> NoImg] /\ UNCHANGED status
      [] Failed ->
            lastAcq' = [res |-> err, img |-> NoImg] /\ UNCHANGED status
      [] FreeImgs = {} ->
            lastAcq' = [res |-> "SUCCESS", img |-> NoImg] /\ UNCHANGED status
      [] OTHER ->
            LET i == Min(FreeImgs)
            IN  /\ status' = [status EXCEPT ![i] = "ACQUIRED"]
                /\ lastAcq' = [res |-> "SUCCESS", img |-> i]

\* an infinite timeout is valid only while forward progress is guaranteed
MayBlock(t) == t = "acqInf" => CountIn({"ACQUIRED"}) <= NumImages - MinImageCount

\* m_free_image_semaphore.wait(0) succeeds: the whole acquire
AcquireFast(t) ==
    /\ app.at = "idle" /\ MayBlock(t) /\ freeSem > 0
    /\ freeSem' = freeSem - 1 /\ AcqFinish("SUCCESS")
    /\ UNCHANGED <<pfSem, pending, pfRun, pfAlive, pf, app, err, comps, pool,
                   evRun, evPc, evJoined, waiting, payloadFailures>>
    /\ SrvUnchanged

\* no token: get_free_buffer(timeout) under m_thread_status_lock
AcquireSlow(t) ==
    /\ app.at = "idle" /\ MayBlock(t) /\ freeSem = 0
    /\ app' = [AppIdle EXCEPT !.at = "gfb", !.caller = t]
    /\ UNCHANGED <<status, freeSem, pfSem, pending, pfRun, pfAlive, pf,
                   lastAcq, err, comps, pool, evRun, evPc, evJoined, waiting,
                   payloadFailures>>
    /\ SrvUnchanged

GfbUnchanged == UNCHANGED <<pfSem, pending, pfRun, pfAlive, pf, lastAcq, err,
                            comps, evRun, evPc, evJoined, payloadFailures>>
                /\ SrvUnchanged

\* mutant: a found image is taken without re-waiting the semaphore
GfbFoundNoRewait ==
    /\ app.at = "gfb" /\ "app" \notin waiting
    /\ FreeImgs \cup PoolImgs # {}
    /\ status' = [i \in Img |-> IF i \in PoolImgs THEN "FREE" ELSE status[i]]
    /\ freeSem' = freeSem + Len(pool)
    /\ app' = [app EXCEPT !.at = "wfbDone", !.res = "SUCCESS"]
    /\ pool' = <<>>
    /\ UNCHANGED waiting /\ GfbUnchanged

\* mutant: the FREE scan runs before the pool is drained
GfbFoundScanFirst ==
    /\ app.at = "gfb" /\ "app" \notin waiting
    /\ FreeImgs # {}
    /\ status' = [i \in Img |-> IF i \in PoolImgs THEN "FREE" ELSE status[i]]
    /\ LET posted == freeSem + Len(pool)
       IN  /\ freeSem' = IF posted > 0 THEN posted - 1 ELSE 0
           /\ app' = [app EXCEPT !.at = "wfbDone",
                        !.res = IF posted > 0 THEN "SUCCESS" ELSE "NOT_READY"]
    /\ pool' = <<>>
    /\ UNCHANGED waiting /\ GfbUnchanged

\* free_image_found(): every pixmap of the pool is unpresented, then some
\* image is FREE; wait_for_free_buffer re-waits the semaphore with timeout 0
GfbFound ==
    /\ app.at = "gfb" /\ "app" \notin waiting
    /\ FreeImgs \cup PoolImgs # {}
    /\ status' = [i \in Img |-> IF i \in PoolImgs THEN "FREE" ELSE status[i]]
    /\ LET posted == freeSem + Len(pool)
       IN  /\ freeSem' = IF posted > 0 THEN posted - 1 ELSE 0
           /\ app' = [app EXCEPT !.at = "wfbDone",
                        !.res = IF posted > 0 THEN "SUCCESS" ELSE "NOT_READY"]
    /\ pool' = <<>>
    /\ UNCHANGED waiting /\ GfbUnchanged

\* nothing found: timeout 0 gives VK_NOT_READY, a stopped event thread
\* VK_ERROR_OUT_OF_DATE_KHR
GfbNotFound ==
    /\ app.at = "gfb" /\ "app" \notin waiting
    /\ FreeImgs = {} /\ pool = <<>>
    /\ app.caller = "acq0" \/ ~evRun
    /\ app' = [app EXCEPT !.at = "wfbDone",
                 !.res = IF app.caller = "acq0" THEN "NOT_READY" ELSE "OUT_OF_DATE"]
    /\ UNCHANGED <<status, freeSem, pool, waiting>> /\ GfbUnchanged

GfbSleep ==
    /\ app.at = "gfb" /\ "app" \notin waiting
    /\ FreeImgs = {} /\ pool = <<>>
    /\ app.caller # "acq0" /\ evRun
    /\ waiting' = waiting \cup {"app"}
    /\ UNCHANGED <<status, freeSem, pool, app>> /\ GfbUnchanged

\* the rest of acquire_next_image after wait_for_free_buffer
AcqScan ==
    /\ app.at = "wfbDone" /\ app.caller \in {"acq0", "acqInf"}
    /\ AcqFinish(app.res) /\ app' = AppIdle
    /\ UNCHANGED <<freeSem, pfSem, pending, pfRun, pfAlive, pf, err, comps,
                   pool, evRun, evPc, evJoined, waiting, payloadFailures>>
    /\ SrvUnchanged

AppUnchanged == UNCHANGED <<lastAcq, err, comps, pool, evRun, evPc, evJoined,
                            waiting>> /\ SrvUnchanged

\* queue_present in FIFO: notify_presentation_engine marks the image
\* PENDING, pushes the request and posts the page-flip semaphore
PresentEnqueue(i) ==
    /\ app.at = "idle" /\ UseThread /\ status[i] = "ACQUIRED"
    /\ status' = [status EXCEPT ![i] = "PENDING"]
    /\ pending' = Append(pending, i) /\ pfSem' = pfSem + 1
    /\ AppUnchanged
    /\ UNCHANGED <<freeSem, pfRun, pfAlive, pf, app, payloadFailures>>

\* queue_present in MAILBOX waits for the image's previous payload first;
\* a failure returns before anything changes
PresentWaitFails(i) ==
    /\ app.at = "idle" /\ ~UseThread /\ status[i] = "ACQUIRED"
    /\ payloadFailures < MaxPayloadFailures
    /\ payloadFailures' = payloadFailures + 1
    /\ AppUnchanged
    /\ UNCHANGED <<status, freeSem, pfSem, pending, pfRun, pfAlive, pf, app>>

\* ... otherwise the image is PENDING and call_present runs inline
PresentInline(i) ==
    /\ app.at = "idle" /\ ~UseThread /\ status[i] = "ACQUIRED"
    /\ status' = [status EXCEPT ![i] = "PENDING"]
    /\ app' = [AppIdle EXCEPT !.at = "present", !.img = i]
    /\ AppUnchanged
    /\ UNCHANGED <<freeSem, pfSem, pending, pfRun, pfAlive, pf, payloadFailures>>

\* release_images: unpresent_image of an ACQUIRED image
Release(i) ==
    /\ app.at = "idle" /\ status[i] = "ACQUIRED"
    /\ Unpresent({i})
    /\ AppUnchanged
    /\ UNCHANGED <<pfSem, pending, pfRun, pfAlive, pf, app, payloadFailures>>

(***************************************************************************)
(* ~swapchain (x11/swapchain.cpp 82-106), then teardown (swapchain_base    *)
(* 346-415) of a swapchain without ancestor or descendant.                 *)
(***************************************************************************)
TdAt(at, k) == [AppIdle EXCEPT !.at = at, !.left = k, !.caller = "td"]

\* the loop of wait_for_pending_buffers with k tokens still to take
TDLoop(k) == app' = IF k > 0 THEN TdAt("tdWait", k) ELSE TdAt("tdStopPf", 0)

\* teardown(): no descendant; unless the error state is set,
\* wait_for_pending_buffers takes size - acquired - 1 tokens
TDStart == TDLoop(IF Failed THEN 0 ELSE NumImages - CountIn({"ACQUIRED"}) - 1)

TdUnchanged == UNCHANGED <<pfSem, pending, pfAlive, pf, lastAcq, err, comps,
                           pool, evRun, evPc, evJoined, waiting,
                           payloadFailures>> /\ SrvUnchanged

\* mutant: the destructor clears the run flag without notify_all
DtorBeginNoNotify ==
    /\ app.at = "idle"
    /\ IF evRun
         THEN /\ evRun' = FALSE /\ UNCHANGED waiting
              /\ app' = TdAt("join", 0)
         ELSE /\ TDStart /\ UNCHANGED <<evRun, waiting>>
    /\ UNCHANGED <<status, freeSem, pfSem, pending, pfRun, pfAlive, pf, lastAcq,
                   err, comps, pool, evPc, evJoined, payloadFailures>>
    /\ SrvUnchanged

\* the destructor stops and joins the event thread only if
\* m_present_event_thread_run is still set
DtorBegin ==
    /\ app.at = "idle"
    /\ IF evRun
         THEN /\ evRun' = FALSE /\ Notify
              /\ app' = TdAt("join", 0)
         ELSE /\ TDStart /\ UNCHANGED <<evRun, waiting>>
    /\ UNCHANGED <<status, freeSem, pfSem, pending, pfRun, pfAlive, pf, lastAcq,
                   err, comps, pool, evPc, evJoined, payloadFailures>>
    /\ SrvUnchanged

DtorJoin ==
    /\ app.at = "join" /\ evPc = "exited"
    /\ evJoined' = TRUE /\ TDStart
    /\ UNCHANGED <<status, freeSem, pfSem, pending, pfRun, pfAlive, pf, lastAcq,
                   err, comps, pool, evRun, evPc, waiting, payloadFailures>>
    /\ SrvUnchanged

\* mutant: the result of m_free_image_semaphore.wait(0) is not checked
TDWaitNoCheck ==
    /\ app.at = "tdWait"
    /\ freeSem' = freeSem - 1 /\ TDLoop(app.left - 1)
    /\ UNCHANGED <<status, pfRun>> /\ TdUnchanged

\* wait_for_free_buffer(UINT64_MAX): a token at once, or get_free_buffer
TDWait ==
    /\ app.at = "tdWait"
    /\ IF freeSem > 0
         THEN freeSem' = freeSem - 1 /\ TDLoop(app.left - 1)
         ELSE app' = [app EXCEPT !.at = "gfb"] /\ UNCHANGED freeSem
    /\ UNCHANGED <<status, pfRun>> /\ TdUnchanged

\* its result is ignored: --wait whatever get_free_buffer returned
TDNext ==
    /\ app.at = "wfbDone" /\ app.caller = "td"
    /\ TDLoop(app.left - 1)
    /\ UNCHANGED <<status, freeSem, pfRun>> /\ TdUnchanged

DestroyImages == status' = [i \in Img |-> "INVALID"]

\* m_page_flip_thread_run = false and join, then destroy_image of each
TDStopPf ==
    /\ app.at = "tdStopPf"
    /\ IF UseThread
         THEN pfRun' = FALSE /\ app' = TdAt("tdJoinPf", 0) /\ UNCHANGED status
         ELSE DestroyImages /\ app' = TdAt("done", 0) /\ UNCHANGED pfRun
    /\ UNCHANGED freeSem /\ TdUnchanged

TDJoinPf ==
    /\ app.at = "tdJoinPf" /\ ~pfAlive
    /\ DestroyImages /\ app' = TdAt("done", 0)
    /\ UNCHANGED <<freeSem, pfRun>> /\ TdUnchanged

(***************************************************************************)
(* The X server.                                                           *)
(***************************************************************************)
ThreadsUnchanged == UNCHANGED <<mode, status, freeSem, pfSem, pending, pfRun,
                                pfAlive, pf, app, lastAcq, err, comps, pool,
                                evRun, evPc, evJoined, waiting, payloadFailures>>

\* the oldest sent present is shown: COMPLETE, with the IDLE before it or
\* (ServerOrder = "any") owed for later
ServerComplete ==
    /\ ~connLost /\ srvQ # <<>>
    /\ LET i == Head(srvQ)
           idle == [kind |-> "IDLE", img |-> i]
           done == [kind |-> "COMPLETE", img |-> i]
       IN  \/ xq' = xq \o <<idle, done>> /\ UNCHANGED idleOwed
           \/ /\ ServerOrder = "any"
              /\ xq' = Append(xq, done)
              /\ idleOwed' = [idleOwed EXCEPT ![i] = @ + 1]
    /\ srvQ' = Tail(srvQ)
    /\ ThreadsUnchanged /\ UNCHANGED <<configures, connLost>>

ServerIdle ==
    /\ ~connLost
    /\ \E i \in Img :
          /\ idleOwed[i] > 0
          /\ idleOwed' = [idleOwed EXCEPT ![i] = @ - 1]
          /\ xq' = Append(xq, [kind |-> "IDLE", img |-> i])
    /\ ThreadsUnchanged /\ UNCHANGED <<srvQ, configures, connLost>>

ServerConfigure ==
    /\ ~connLost /\ configures < MaxConfigure
    /\ \E k \in {"lost", "resize"} :
          xq' = Append(xq, [kind |-> "CONFIGURE", img |-> k])
    /\ configures' = configures + 1
    /\ ThreadsUnchanged /\ UNCHANGED <<srvQ, idleOwed, connLost>>

ServerDisconnect ==
    /\ MayDisconnect /\ ~connLost
    /\ connLost' = TRUE
    /\ ThreadsUnchanged /\ UNCHANGED <<srvQ, idleOwed, xq, configures>>

(***************************************************************************)
(* Specification                                                           *)
(***************************************************************************)

\* after init(): every image allocated and FREE, the free semaphore at the
\* image count, the event thread created but not yet running
Init ==
    /\ mode \in Modes
    /\ status = [i \in Img |-> "FREE"]
    /\ freeSem = NumImages
    /\ pfSem = 0 /\ pending = <<>>
    /\ pfRun = UseThread /\ pfAlive = UseThread /\ pf = PfWait
    /\ app = AppIdle
    /\ lastAcq = [res |-> "NONE", img |-> NoImg]
    /\ err = "SUCCESS"
    /\ comps = [i \in Img |-> 0] /\ pool = <<>>
    /\ evRun = FALSE /\ evPc = "start" /\ evJoined = FALSE
    /\ waiting = {}
    /\ srvQ = <<>> /\ idleOwed = [i \in Img |-> 0] /\ xq = <<>>
    /\ configures = 0 /\ connLost = FALSE
    /\ payloadFailures = 0

\* the destroyed swapchain: nothing left to do
Finished == app.at = "done" /\ UNCHANGED vars

AppCall ==
    \/ \E t \in {"acq0", "acqInf"} : AcquireFast(t) \/ AcquireSlow(t)
    \/ \E i \in Img : PresentEnqueue(i) \/ PresentWaitFails(i)
                      \/ PresentInline(i) \/ Release(i)
    \/ DtorBegin

AppBusy == GfbFound \/ GfbNotFound \/ GfbSleep \/ AcqScan \/ DtorJoin
           \/ TDWait \/ TDNext \/ TDStopPf \/ TDJoinPf

Server == ServerComplete \/ ServerIdle \/ ServerConfigure \/ ServerDisconnect

Next == AppCall \/ AppBusy \/ PresentStep \/ PageFlipThread \/ PFPayloadFails
        \/ EventThread \/ Server \/ Finished

\* Threads that are running keep running; the server eventually shows what
\* it was sent and releases it.  Application calls, failures, window
\* changes and a disconnect may never happen.
Fairness ==
    /\ WF_vars(EventThread)
    /\ WF_vars(PageFlipThread \/ PFPayloadFails)
    /\ WF_vars(PresentStep)
    /\ WF_vars(AppBusy)
    /\ WF_vars(ServerComplete)
    /\ WF_vars(ServerIdle)

Spec == Init /\ [][Next]_vars /\ Fairness

(***************************************************************************)
(* Properties                                                              *)
(***************************************************************************)
AppAt == {"idle", "gfb", "wfbDone", "present", "join", "tdWait", "tdStopPf",
          "tdJoinPf", "done"}

TypeOK ==
    /\ mode \in Modes
    /\ status \in [Img -> Status]
    /\ freeSem \in Nat /\ pfSem \in Nat /\ pending \in Seq(Img)
    /\ pfRun \in BOOLEAN /\ pfAlive \in BOOLEAN
    /\ pf \in [at : {"wait", "payload", "present", "fifo"}, img : Img \cup {NoImg}]
    /\ app \in [at : AppAt, img : Img \cup {NoImg}, left : Nat,
                caller : {"none", "acq0", "acqInf", "td"}, res : AcqResult]
    /\ lastAcq \in [res : AcqResult, img : Img \cup {NoImg}]
    /\ err \in ErrState
    /\ comps \in [Img -> 0..MaxPendingCompletions]
    /\ pool \in Seq(Img)
    /\ evRun \in BOOLEAN /\ evJoined \in BOOLEAN
    /\ evPc \in {"start", "loop", "xwait", "exited"}
    /\ waiting \subseteq {"ev", "pf", "app"}
    /\ srvQ \in Seq(Img) /\ idleOwed \in [Img -> Nat] /\ xq \in Seq(Event)
    /\ configures \in 0..MaxConfigure /\ connLost \in BOOLEAN
    /\ payloadFailures \in 0..MaxPayloadFailures

\* The server still reads image i: a sent present not yet shown, an IDLE
\* not yet sent or read, or a pixmap in the free-buffer pool.
InFlight(i) ==
    \/ \E k \in DOMAIN srvQ : srvQ[k] = i
    \/ idleOwed[i] > 0
    \/ \E k \in DOMAIN xq : xq[k] = [kind |-> "IDLE", img |-> i]
    \/ i \in PoolImgs

\* An image the application owns or may acquire is never still read by the
\* X server: present_image leaves it PENDING and only an IDLE_NOTIFY,
\* drained by free_image_found, makes it FREE again.
ServerNeverReadsOwnedImage ==
    \A i \in Img : status[i] \in {"ACQUIRED", "FREE"} => ~InFlight(i)

\* Outside teardown and with no error, the free-image semaphore counts the
\* FREE images exactly, less the token an acquire holds between
\* get_free_buffer and its scan: free_image_found posts one token per
\* unpresented pixmap and acquire takes one per image it marks ACQUIRED.
TokensMatchFreeImages ==
    (~Failed /\ app.caller # "td")
        => freeSem + (IF app.at = "wfbDone" /\ app.res = "SUCCESS" THEN 1 ELSE 0)
           = Cardinality(FreeImgs)

\* vkDestroySwapchainKHR returns: the destructor's joins and the token loop
\* of wait_for_pending_buffers all end.
DestructorReturns == app.caller = "td" ~> app.at = "done"

\* acquire_next_image returns, within the forward-progress rule for an
\* infinite timeout.
AcquireReturns == app.caller \in {"acq0", "acqInf"} ~> app.at = "idle"

\* When the destructor is done, the event thread has been joined: a
\* std::thread still joinable at destruction calls std::terminate.
DestructorJoinsEventThread == app.at = "done" => evJoined

\* A success code from acquire_next_image (VK_SUCCESS or VK_SUBOPTIMAL_KHR)
\* comes with an acquired image index.
AcquireSuccessYieldsImage ==
    lastAcq.res \in {"SUCCESS", "SUBOPTIMAL"} => lastAcq.img # NoImg
=============================================================================
