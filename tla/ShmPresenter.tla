---------------------------- MODULE ShmPresenter ----------------------------
(***************************************************************************)
(* The X11 shared-memory presenter (src/wsi/x11/shm_presenter.cpp).  It   *)
(* copies a host-visible image into a SysV shared-memory segment attached  *)
(* to the X server and asks the server to blit it with ShmPutImage.  The   *)
(* server reads the segment only when it processes that request, so the    *)
(* client must not write the segment again before then.  Two mechanisms   *)
(* pace the client: an XSync fence the server awaits (when init_fence_sync *)
(* succeeded) or, failing that, a GetGeometry round trip whose reply the   *)
(* next present waits for.  Each image may own a second ("alt") segment    *)
(* that presents alternate with the first.                                 *)
(*                                                                         *)
(* The client's requests form one ordered stream on the connection; the   *)
(* X server takes them one at a time and blocks on an AwaitFence until    *)
(* the fence is triggered.  Pixel data is abstracted away: a segment is    *)
(* an image and a flag for its alt buffer.                                 *)
(*                                                                         *)
(* The second part gives the pixel copy as pure operators: which           *)
(* destination pixels copy_pixels_optimized writes, and how many times.    *)
(***************************************************************************)
EXTENDS Naturals, Sequences, SequencesExt

CONSTANTS
    Img,            \* the images of the swapchain
    MaxPresents,    \* bound on present_image calls
    Widths,         \* swapchain image widths
    Heights,        \* swapchain image heights
    Paddings,       \* row pitch of the host layout minus the width, in pixels
    Concurrency,    \* values std::thread::hardware_concurrency() may return
    Threshold       \* THREADING_PIXEL_THRESHOLD, scaled down with the sizes

MAX_WORKER_THREADS == 8
SIMD_VECTOR_SIZE == 4
LOOP_UNROLL_BOUNDARY == 3

Seg == Img \X BOOLEAN          \* <<image, is the alt segment>>
Op == {"put", "await", "reset", "trigger", "geometry"}
Put(s) == [op |-> "put", seg |-> s]
Req(o) == [op |-> o, seg |-> <<>>]
Request == {Put(s) : s \in Seg} \cup {Req(o) : o \in Op \ {"put"}}

-----------------------------------------------------------------------------
(***************************************************************************)
(* The pixel copy of present_image for 32-bit pixels, as the sequence of   *)
(* destination pixels <<row, column>> it writes.  The scaling table is     *)
(* always empty (present_image clears it because the GPU and display      *)
(* widths are both image_data->width), so the NEON and the scalar copies  *)
(* write the same pixels.                                                  *)
(***************************************************************************)
Interval(a, b) == [k \in 1..(b - a) |-> a + k - 1]     \* a .. b-1 in order

(* The columns one row loop writes: blocks of SIMD_VECTOR_SIZE while       *)
(* dst_x + LOOP_UNROLL_BOUNDARY < dst_width, then one at a time.           *)
RECURSIVE RowColumns(_, _)
RowColumns(dx, w) ==
    IF dx + LOOP_UNROLL_BOUNDARY < w
    THEN Interval(dx, dx + SIMD_VECTOR_SIZE) \o RowColumns(dx + SIMD_VECTOR_SIZE, w)
    ELSE Interval(dx, w)

Pixels(rows, cols) ==
    FlattenSeq([k \in 1..Len(rows) |-> [c \in 1..Len(cols) |-> <<rows[k], cols[c]>>]])

(* copy_pixels_scalar over rows a .. b-1.                                  *)
CopyPixelsScalar(stride, w, a, b) ==
    IF stride = w THEN Pixels(Interval(a, b), Interval(0, w))
    ELSE Pixels(Interval(a, b), RowColumns(0, w))

(* Mutant: the last worker does not take the rows left by the division.   *)
RECURSIVE ThreadRangesNoRemainder(_, _, _)
ThreadRangesNoRemainder(t, n, h) ==
    LET rpt == h \div n
    IN IF t >= n \/ t * rpt >= h THEN <<>>
       ELSE <<<<t * rpt, (t + 1) * rpt>>>> \o ThreadRangesNoRemainder(t + 1, n, h)

(* The row ranges of the worker threads of copy_pixels_threaded.           *)
RECURSIVE ThreadRanges(_, _, _)
ThreadRanges(t, n, h) ==
    LET rpt   == h \div n
        start == t * rpt
        stop  == IF t = n - 1 THEN h ELSE (t + 1) * rpt
    IN IF t >= n \/ start >= h THEN <<>>
       ELSE <<<<start, IF stop > h THEN h ELSE stop>>>> \o ThreadRanges(t + 1, n, h)

CopyPixelsThreaded(stride, w, h, hw) ==
    LET n == IF hw < MAX_WORKER_THREADS THEN hw ELSE MAX_WORKER_THREADS
        rs == ThreadRanges(0, n, h)
    IN CASE w = 0 \/ h = 0 -> <<>>
         [] w * h > Threshold /\ n > 1 ->
               FlattenSeq([k \in 1..Len(rs) |->
                             CopyPixelsScalar(stride, w, rs[k][1], rs[k][2])])
         [] OTHER -> CopyPixelsScalar(stride, w, 0, h)

(* copy_pixels_optimized: one memcpy when the rows are contiguous.         *)
CopyPixelsOptimized(stride, w, h, hw) ==
    IF stride = w THEN Pixels(Interval(0, h), Interval(0, w))
    ELSE CopyPixelsThreaded(stride, w, h, hw)

-----------------------------------------------------------------------------
VARIABLES
    phase,           \* "uninit", "ready", "failed" (init returned an error), "destroyed"
    fenceAvailable,  \* m_fence_available
    fenceTriggered,  \* the server-side state of m_presentation_fence
    firstFrame,      \* m_first_frame
    syncPending,     \* m_sync_pending
    res,             \* res[i]: "none", "primary", or "both" segments attached
    useAlt,          \* useAlt[i]: image_data->use_alt_buffer
    reqs,            \* requests sent and not yet processed by the server
    presentFailed,   \* some present_image call has returned an error
    presents,        \* present_image calls made
    width, height,   \* image_data->width, image_data->height
    rowPitch,        \* the host layout's rowPitch, in pixels
    hwThreads,       \* std::thread::hardware_concurrency()
    written          \* the destination pixels the last present_image wrote

geom == <<width, height, rowPitch, hwThreads>>
vars == <<phase, fenceAvailable, fenceTriggered, firstFrame, syncPending,
          res, useAlt, reqs, presentFailed, presents, geom, written>>

-----------------------------------------------------------------------------
(* The constructor.  The swapchain's extent, the row pitch of its linear  *)
(* host-visible images and the machine's processor count are fixed for    *)
(* the presenter's life.                                                   *)
Init ==
    /\ phase = "uninit"
    /\ fenceAvailable = FALSE
    /\ fenceTriggered = FALSE
    /\ firstFrame = TRUE
    /\ syncPending = FALSE
    /\ res = [i \in Img |-> "none"]
    /\ useAlt = [i \in Img |-> FALSE]
    /\ reqs = <<>>
    /\ presentFailed = FALSE
    /\ presents = 0
    /\ width \in Widths /\ height \in Heights
    /\ rowPitch \in {width + p : p \in Paddings}
    /\ hwThreads \in Concurrency
    /\ written = <<>>

(* init_fence_sync: the fence exists only if the XSync extension is        *)
(* present, the checked CreateFence succeeded and the round trip after it  *)
(* returned.  The fence is created untriggered.                            *)
InitFenceSync(ok) ==
    /\ fenceAvailable' = ok
    /\ fenceTriggered' = FALSE

(* init: a failed create_graphics_context returns before the fence is set  *)
(* up; the refresh-rate and XRandR set-up only affect frame pacing.        *)
InitPresenter ==
    /\ phase = "uninit"
    /\ \/ /\ phase' = "failed"
          /\ UNCHANGED <<fenceAvailable, fenceTriggered>>
       \/ /\ phase' = "ready"
          /\ \E ok \in BOOLEAN : InitFenceSync(ok)
    /\ UNCHANGED <<firstFrame, syncPending, res, useAlt, reqs, presentFailed, presents, geom, written>>

(* create_image_resources: the primary segment may fail (OUT_OF_HOST_MEMORY *)
(* with nothing attached); a failed alt segment is only logged.  The call  *)
(* ends with a GetInputFocus round trip, so it returns only once the       *)
(* server has processed every request sent before it.                      *)
CreateImageResources(i) ==
    /\ phase = "ready"
    /\ res[i] = "none"
    /\ reqs = <<>>
    /\ res' \in {[res EXCEPT ![i] = r] : r \in {"none", "primary", "both"}}
    /\ UNCHANGED <<phase, fenceAvailable, fenceTriggered, firstFrame, syncPending,
                   useAlt, reqs, presentFailed, presents, geom, written>>

(* Mutant: the reply is polled and not waited for.                         *)
EnsureSyncCompletionNoWait == TRUE

(* ensure_sync_completion blocks on the GetGeometry reply, which the       *)
(* server sends when it processes the request.                             *)
EnsureSyncCompletion ==
    \A k \in 1..Len(reqs) : reqs[k].op # "geometry"

(* wait_for_presentation_fence: AwaitFence then ResetFence, both only     *)
(* queued; the client itself does not wait.                                *)
WaitForPresentationFenceResetFirst == <<Req("reset"), Req("await")>>
WaitForPresentationFence == <<Req("await"), Req("reset")>>

(* trigger_presentation_fence and start_async_sync.                        *)
TriggerPresentationFence == <<Req("trigger")>>
StartAsyncSync == <<Req("geometry")>>

(* present_image: wait for the previous frame (fence or geometry reply),  *)
(* toggle the image's buffer, copy into the active segment and queue the  *)
(* ShmPutImage followed by a trigger or a new GetGeometry.  A missing      *)
(* segment, an image that is not host visible or a failed map returns an   *)
(* error after the fence requests were already queued.                     *)
PresentImage(i) ==
    /\ phase = "ready"
    /\ presents < MaxPresents
    /\ ~fenceAvailable /\ syncPending => EnsureSyncCompletion
    /\ LET wait == IF fenceAvailable /\ ~firstFrame THEN WaitForPresentationFence ELSE <<>>
           alt  == ~useAlt[i]
           seg  == <<i, alt /\ res[i] = "both">>
       IN /\ useAlt' = [useAlt EXCEPT ![i] = alt]
          /\ \/ /\ res[i] # "none"
                /\ reqs' = reqs \o wait \o <<Put(seg)>>
                           \o (IF fenceAvailable THEN TriggerPresentationFence
                               ELSE StartAsyncSync)
                /\ syncPending' = IF fenceAvailable THEN syncPending ELSE TRUE
                /\ written' = CopyPixelsOptimized(rowPitch, width, height, hwThreads)
                /\ UNCHANGED presentFailed
             \/ /\ reqs' = reqs \o wait
                /\ syncPending' = (syncPending /\ fenceAvailable)
                /\ written' = <<>>
                /\ presentFailed' = TRUE
    /\ firstFrame' = FALSE
    /\ presents' = presents + 1
    /\ UNCHANGED <<phase, fenceAvailable, fenceTriggered, res, geom>>

(* destroy_image_resources: detach and unmap both segments and clear the  *)
(* alt flag.  The detach requests have no effect the properties see.      *)
DestroyImageResources(i) ==
    /\ phase = "ready"
    /\ res[i] # "none"
    /\ res' = [res EXCEPT ![i] = "none"]
    /\ useAlt' = [useAlt EXCEPT ![i] = FALSE]
    /\ UNCHANGED <<phase, fenceAvailable, fenceTriggered, firstFrame, syncPending,
                   reqs, presentFailed, presents, geom, written>>

(* cleanup_fence_sync.                                                     *)
CleanupFenceSync == fenceAvailable' = FALSE

(* ~shm_presenter: wait for an outstanding GetGeometry, then drop the      *)
(* fence.                                                                   *)
Destroy ==
    /\ phase \in {"ready", "failed"}
    /\ syncPending => EnsureSyncCompletion
    /\ phase' = "destroyed"
    /\ syncPending' = FALSE
    /\ CleanupFenceSync
    /\ UNCHANGED <<fenceTriggered, firstFrame, res, useAlt, reqs, presentFailed, presents, geom, written>>

(* The X server processes the next request of the connection.  It blocks  *)
(* on an AwaitFence of an untriggered fence.                               *)
ServerStep ==
    /\ reqs # <<>>
    /\ Head(reqs).op = "await" => fenceTriggered
    /\ fenceTriggered' = CASE Head(reqs).op = "reset"   -> FALSE
                           [] Head(reqs).op = "trigger" -> TRUE
                           [] OTHER                     -> fenceTriggered
    /\ reqs' = Tail(reqs)
    /\ UNCHANGED <<phase, fenceAvailable, firstFrame, syncPending, res, useAlt,
                   presentFailed, presents, geom, written>>

Next ==
    \/ InitPresenter
    \/ Destroy
    \/ ServerStep
    \/ \E i \in Img : CreateImageResources(i) \/ PresentImage(i)
                      \/ DestroyImageResources(i)

(* The X server keeps processing requests it is not blocked on.            *)
Spec == Init /\ [][Next]_vars /\ WF_vars(ServerStep)

-----------------------------------------------------------------------------
(***************************************************************************)
(* Properties of the request stream.                                       *)
(***************************************************************************)
Queued(s) == Contains(reqs, Put(s))
PutCount(q, s) == Len(SelectSeq(q, LAMBDA r : r = Put(s)))

(* With geometry-based sync, present_image never writes a segment the      *)
(* server has a ShmPutImage for that it has not yet processed: the         *)
(* GetGeometry reply ensure_sync_completion waits for follows the previous *)
(* put in the stream.  (With the fence the client never waits; see the     *)
(* README.)                                                                *)
GeometrySyncNeverOverwritesQueued ==
    [][~fenceAvailable =>
         \A s \in Seg : PutCount(reqs', s) > PutCount(reqs, s) => ~Queued(s)]_vars

ServerBlocked ==
    reqs # <<>> /\ Head(reqs).op = "await" /\ ~fenceTriggered

(* As long as every present_image has succeeded, the server never blocks   *)
(* on the AwaitFence that present_image queues: the first frame skips the  *)
(* wait and every later await follows the trigger of the frame before.     *)
AwaitNeverBlocks == presentFailed \/ ~ServerBlocked

(* Every present_image copy writes each pixel of the destination segment *)
(* exactly once and nothing outside it, whatever the extent, row pitch and *)
(* processor count: the worker row ranges of copy_pixels_threaded          *)
(* partition the rows (the last worker takes the remainder) and the        *)
(* unrolled column loop stops before the row's end.                        *)
CopyWritesEveryPixelOnce ==
    written # <<>> =>
        /\ ToSet(written) = (0..(height - 1)) \X (0..(width - 1))
        /\ Len(written) = height * width
=============================================================================
