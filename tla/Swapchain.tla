----------------------------- MODULE Swapchain -----------------------------
(***************************************************************************)
(* The swapchain engine of src/wsi/swapchain_base.cpp, driven by the       *)
(* headless presenter of src/wsi/headless/swapchain.cpp.                   *)
(*                                                                         *)
(* A chain of swapchains is created one after another on one surface; each *)
(* new one names the previous one as its oldSwapchain, so the previous one *)
(* becomes its ancestor and is deprecated.  Per swapchain the model keeps  *)
(* the image statuses, the free-image and page-flip semaphores (counts),   *)
(* the ring buffer of pending presents, the page-flip thread, the          *)
(* start-present semaphore, the sticky error state, the acquire lock and   *)
(* the ancestor/descendant links.  Actors: up to AppThreads application    *)
(* threads, each running one Vulkan call at a time (calls on one          *)
(* swapchain are externally synchronised, as Vulkan requires), and one     *)
(* page-flip thread per swapchain.                                         *)
(*                                                                         *)
(* call_present is a context of its own (cp): it runs on the page-flip     *)
(* thread, or inline on the presenting application thread when the         *)
(* presenter opted out of the thread (SHARED_DEMAND on headless).          *)
(***************************************************************************)
EXTENDS Integers, Sequences, FiniteSets, FiniteSetsExt

CONSTANTS
    Chain,              \* <<s1, s2, ...>>: swapchains in creation order
    NoSC,               \* VK_NULL_HANDLE for a swapchain link
    NumImages,          \* minImageCount of a swapchain in a non-shared mode
    Modes,              \* presentModes the application creates swapchains with
    RingSize,           \* capacity of m_pending_buffer_pool (MAX_SWAPCHAIN_IMAGE_COUNT)
    Deferred,           \* VK_SWAPCHAIN_CREATE_DEFERRED_MEMORY_ALLOCATION_BIT_EXT
    AppThreads,         \* application threads calling into the layer
    MaxAllocFailures,   \* bound on failing deferred allocations
    MaxPayloadFailures  \* bound on failing image_wait_present calls

SC == {Chain[k] : k \in 1..Len(Chain)}
Img == 0..(NumImages - 1)

(* The present modes of the headless surface (m_supported_modes).          *)
PresentModes == {"FIFO", "FIFO_RELAXED", "SHARED_DEMAND", "SHARED_CONTINUOUS"}

ASSUME /\ Len(Chain) >= 1 /\ Cardinality(SC) = Len(Chain) /\ NoSC \notin SC
       /\ NumImages \in Nat \ {0}
       /\ Modes \subseteq PresentModes /\ Modes # {}
       /\ RingSize >= NumImages
       /\ Deferred \in BOOLEAN
       /\ AppThreads \in Nat \ {0}
       /\ MaxAllocFailures \in Nat /\ MaxPayloadFailures \in Nat

Status == {"INVALID", "ACQUIRED", "PENDING", "PRESENTED", "FREE", "UNALLOCATED"}

VARIABLES
    created,        \* how many swapchains of Chain vkCreateSwapchainKHR has made
    mode,           \* m_present_mode
    phase,          \* "unused" | "live" | "teardown" | "destroyed"
    status,         \* m_swapchain_images[i].status
    freeSem,        \* count of m_free_image_semaphore
    pfSem,          \* count of m_page_flip_semaphore
    pending,        \* m_pending_buffer_pool (image indices, FIFO)
    pfRun,          \* m_page_flip_thread_run
    pfAlive,        \* the page-flip thread has not returned
    cp,             \* call_present / page-flip context
    firstPresent,   \* m_first_present
    started,        \* m_started_presenting
    startSem,       \* count of m_start_present_semaphore
    err,            \* m_error_state # VK_SUCCESS
    ancestor,       \* m_ancestor
    descendant,     \* m_descendant
    td,             \* teardown() in progress on an application thread
    acqLock,        \* holder of m_image_acquire_lock in wait_for_pending_buffers
    allocFailures,  \* failing deferred allocations so far
    payloadFailures \* failing image_wait_present calls so far

vars == <<created, mode, phase, status, freeSem, pfSem, pending, pfRun, pfAlive, cp,
          firstPresent, started, startSem, err, ancestor, descendant, td,
          acqLock, allocFailures, payloadFailures>>

UseThread(m) == m # "SHARED_DEMAND"     \* headless init_platform
SharedMode(s) == mode[s] \in {"SHARED_DEMAND", "SHARED_CONTINUOUS"}

(* A shared present mode requires minImageCount = 1 (a Vulkan valid-usage  *)
(* rule), so such a swapchain has image 0 only.                            *)
ImagesOf(m) == IF m \in {"SHARED_DEMAND", "SHARED_CONTINUOUS"} THEN {0} ELSE Img

Latest == Chain[created]
Retired(s) == \E k \in 1..(created - 1) : Chain[k] = s
CountIn(s, S) == Quantify(Img, LAMBDA i : status[s][i] \in S)
Acquirable(s) == {i \in Img : status[s][i] \in {"FREE", "UNALLOCATED"}}
DescStarted(s) ==                       \* has_descendant_started_presenting
    descendant[s] # NoSC /\ started[descendant[s]]

IdleCp == [pc |-> "idle", img |-> 0, anc |-> NoSC, left |-> 0]
NoTd == [pc |-> "none", d |-> NoSC, left |-> 0]

(* An application thread is blocked inside a call on s. *)
InlineBusy(s) == ~UseThread(mode[s]) /\ cp[s].pc # "idle"
Busy(s) == td[s].pc # "none" \/ InlineBusy(s)
FreeThread == Quantify(SC, Busy) < AppThreads
AppMay(s) == FreeThread /\ phase[s] = "live" /\ ~InlineBusy(s)

NewImages(m) == [i \in Img |-> CASE i \notin ImagesOf(m) -> "INVALID"
                                  [] Deferred -> "UNALLOCATED"
                                  [] OTHER -> "FREE"]

-----------------------------------------------------------------------------
(* swapchain_base::unpresent_image: the new status and semaphore count.    *)
UnpresentStatus(s) == IF SharedMode(s) THEN "ACQUIRED" ELSE "FREE"
UnpresentPost(s) == IF SharedMode(s) THEN 0 ELSE 1

(* headless present_image: unpresent_image at once (the present id is     *)
(* only recorded).                                                         *)
PresentImage(s, i) ==
    /\ status' = [status EXCEPT ![s][i] = UnpresentStatus(s)]
    /\ freeSem' = [freeSem EXCEPT ![s] = @ + UnpresentPost(s)]

(* headless destroy_image on the images S of one swapchain's row: each one  *)
(* not yet INVALID has its VkImage destroyed and becomes INVALID.           *)
DestroyImages(row, S) == [i \in Img |-> IF i \in S THEN "INVALID" ELSE row[i]]

(* swapchain_base::deprecate: destroy_image on every FREE image.           *)
Deprecate(row) == DestroyImages(row, {i \in Img : row[i] = "FREE"})

(* init: with use_presentation_thread, init_page_flip_thread sets          *)
(* m_page_flip_thread_run and launches page_flip_thread.                   *)
InitPageFlipThread(s, m) ==
    /\ pfRun' = [pfRun EXCEPT ![s] = UseThread(m)]
    /\ pfAlive' = [pfAlive EXCEPT ![s] = UseThread(m)]

(* Mutant: the presenter never unpresents the image.                       *)
PresentDoneNoUnpresent(s, i) ==
    /\ startSem' = IF firstPresent[s] THEN [startSem EXCEPT ![s] = @ + 1]
                                      ELSE startSem
    /\ firstPresent' = [firstPresent EXCEPT ![s] = FALSE]
    /\ UNCHANGED <<status, freeSem>>
    /\ cp' = [cp EXCEPT ![s] = IdleCp]

(* call_present after any wait on the ancestor: post start-present on the *)
(* first present, then headless present_image, which unpresents at once.  *)
PresentDone(s, i) ==
    /\ startSem' = IF firstPresent[s] THEN [startSem EXCEPT ![s] = @ + 1]
                                      ELSE startSem
    /\ firstPresent' = [firstPresent EXCEPT ![s] = FALSE]
    /\ PresentImage(s, i)
    /\ cp' = [cp EXCEPT ![s] = IdleCp]

(* call_present: the first present of a swapchain with an ancestor waits   *)
(* for the ancestor's pending buffers.                                     *)
CallPresent(s, i) ==
    IF firstPresent[s] /\ ancestor[s] # NoSC
    THEN /\ cp' = [cp EXCEPT ![s] = [pc |-> "ancLock", img |-> i,
                                     anc |-> ancestor[s], left |-> 0]]
         /\ UNCHANGED <<startSem, firstPresent, status, freeSem>>
    ELSE PresentDone(s, i)

-----------------------------------------------------------------------------
(* vkCreateSwapchainKHR: swapchain_base::init of the next swapchain of     *)
(* Chain, with the current one (if still alive) as oldSwapchain, which is  *)
(* then deprecated: its FREE images are destroyed.                         *)
Create ==
    /\ FreeThread
    /\ created < Len(Chain)
    /\ phase[Latest] \in {"live", "destroyed"}
    /\ ~InlineBusy(Latest)
    /\ LET s == Chain[created + 1]
           a == IF phase[Latest] = "live" THEN Latest ELSE NoSC
       IN \E m \in Modes :
          /\ created' = created + 1
          /\ mode' = [mode EXCEPT ![s] = m]
          /\ phase' = [phase EXCEPT ![s] = "live"]
          /\ status' = [t \in SC |->
                CASE t = s -> NewImages(m)
                  [] t = a -> Deprecate(status[t])
                  [] OTHER -> status[t]]
          /\ freeSem' = [freeSem EXCEPT ![s] = Cardinality(ImagesOf(m))]
          /\ InitPageFlipThread(s, m)
          /\ ancestor' = [ancestor EXCEPT ![s] = a]
          /\ descendant' = IF a = NoSC THEN descendant
                            ELSE [descendant EXCEPT ![a] = s]
    /\ UNCHANGED <<pfSem, pending, cp, firstPresent, started, startSem, err,
                   td, acqLock, allocFailures, payloadFailures>>

(* acquire_next_image, under m_image_acquire_lock: take a free-image token  *)
(* (wait_for_free_buffer; with none it times out, a stutter step); with    *)
(* the error state set return the error, the token spent; otherwise the    *)
(* lowest FREE or UNALLOCATED image becomes ACQUIRED, an UNALLOCATED one   *)
(* after allocate_and_bind_swapchain_image.  Acquiring from a retired      *)
(* swapchain is invalid usage.                                             *)
AcquireMay(s) == AppMay(s) /\ ~Retired(s) /\ acqLock[s] = "free" /\ freeSem[s] > 0

AcquireError(s) ==
    /\ AcquireMay(s) /\ err[s]
    /\ freeSem' = [freeSem EXCEPT ![s] = @ - 1]
    /\ UNCHANGED <<created, mode, phase, status, pfSem, pending, pfRun, pfAlive, cp,
                   firstPresent, started, startSem, err, ancestor, descendant,
                   td, acqLock, allocFailures, payloadFailures>>

(* Mutant: acquire that hands out an image without taking a token.        *)
AcquireNoWait(s) ==
    /\ AcquireMay(s) /\ ~err[s]
    /\ Acquirable(s) # {}
    /\ status' = [status EXCEPT ![s][Min(Acquirable(s))] = "ACQUIRED"]
    /\ UNCHANGED <<created, mode, phase, freeSem, pfSem, pending, pfRun, pfAlive, cp,
                   firstPresent, started, startSem, err, ancestor, descendant,
                   td, acqLock, allocFailures, payloadFailures>>

Acquire(s) ==
    /\ AcquireMay(s) /\ ~err[s]
    /\ Acquirable(s) # {}
    /\ freeSem' = [freeSem EXCEPT ![s] = @ - 1]
    /\ status' = [status EXCEPT ![s][Min(Acquirable(s))] = "ACQUIRED"]
    /\ UNCHANGED <<created, mode, phase, pfSem, pending, pfRun, pfAlive, cp,
                   firstPresent, started, startSem, err, ancestor, descendant,
                   td, acqLock, allocFailures, payloadFailures>>

(* headless allocate_and_bind_swapchain_image fails: before the status is  *)
(* set the VkImage is destroyed and the image stays UNALLOCATED; after it, *)
(* destroy_image makes it INVALID.  Either way the token is not returned.  *)
AcquireAllocFails(s) ==
    /\ AcquireMay(s) /\ ~err[s]
    /\ Acquirable(s) # {}
    /\ status[s][Min(Acquirable(s))] = "UNALLOCATED"
    /\ allocFailures < MaxAllocFailures
    /\ allocFailures' = allocFailures + 1
    /\ freeSem' = [freeSem EXCEPT ![s] = @ - 1]
    /\ \E outcome \in {"UNALLOCATED", "INVALID"} :
          status' = [status EXCEPT ![s][Min(Acquirable(s))] = outcome]
    /\ UNCHANGED <<created, mode, phase, pfSem, pending, pfRun, pfAlive, cp,
                   firstPresent, started, startSem, err, ancestor, descendant,
                   td, acqLock, payloadFailures>>

(* queue_present -> notify_presentation_engine, descendant already         *)
(* presenting: the image is FREE again and VK_ERROR_OUT_OF_DATE_KHR.        *)
(* A retired SHARED_CONTINUOUS swapchain keeps re-presenting image 0, so   *)
(* every present answered out-of-date posts one more token; the model stops *)
(* such presents once the count reaches the bound MaxFreeCount.            *)
MaxFreeCount == NumImages + 1

PresentOutOfDate(s, i) ==
    /\ AppMay(s) /\ status[s][i] = "ACQUIRED"
    /\ DescStarted(s)
    /\ freeSem[s] < MaxFreeCount
    /\ status' = [status EXCEPT ![s][i] = "FREE"]
    /\ freeSem' = [freeSem EXCEPT ![s] = @ + 1]
    /\ UNCHANGED <<created, mode, phase, pfSem, pending, pfRun, pfAlive, cp,
                   firstPresent, started, startSem, err, ancestor, descendant,
                   td, acqLock, allocFailures, payloadFailures>>

(* notify_presentation_engine with the page-flip thread running: push the  *)
(* request to the ring buffer and post the page-flip semaphore.  The ring  *)
(* buffer's push_back fails when it is full; the result is only asserted   *)
(* (line 596), so in a release build the request is dropped.  The model    *)
(* stops presenting once RingSize presents are unconsumed (a bound).       *)
RingPush(q, i) == IF Len(q) < RingSize THEN Append(q, i) ELSE q

PresentEnqueue(s, i) ==
    /\ AppMay(s) /\ status[s][i] = "ACQUIRED"
    /\ ~DescStarted(s) /\ pfRun[s]
    /\ pfSem[s] <= RingSize
    /\ status' = [status EXCEPT ![s][i] = "PENDING"]
    /\ started' = [started EXCEPT ![s] = TRUE]
    /\ pending' = [pending EXCEPT ![s] = RingPush(@, i)]
    /\ pfSem' = [pfSem EXCEPT ![s] = @ + 1]
    /\ UNCHANGED <<created, mode, phase, freeSem, pfRun, pfAlive, cp, firstPresent,
                   startSem, err, ancestor, descendant, td, acqLock,
                   allocFailures, payloadFailures>>

(* notify_presentation_engine without the thread: call_present inline.     *)
PresentInline(s, i) ==
    /\ AppMay(s) /\ status[s][i] = "ACQUIRED"
    /\ ~DescStarted(s) /\ ~pfRun[s]
    /\ started' = [started EXCEPT ![s] = TRUE]
    /\ IF firstPresent[s] /\ ancestor[s] # NoSC
       THEN /\ status' = [status EXCEPT ![s][i] = "PENDING"]
            /\ cp' = [cp EXCEPT ![s] = [pc |-> "ancLock", img |-> i,
                                        anc |-> ancestor[s], left |-> 0]]
            /\ UNCHANGED <<startSem, firstPresent, freeSem>>
       ELSE PresentDone(s, i)
    /\ UNCHANGED <<created, mode, phase, pfSem, pending, pfRun, pfAlive, err,
                   ancestor, descendant, td, acqLock, allocFailures,
                   payloadFailures>>

(* release_images (VK_EXT_swapchain_maintenance1): unpresent_image on an   *)
(* ACQUIRED image.                                                         *)
Release(s, i) ==
    /\ AppMay(s) /\ status[s][i] = "ACQUIRED"
    /\ status' = [status EXCEPT ![s][i] = UnpresentStatus(s)]
    /\ freeSem' = [freeSem EXCEPT ![s] = @ + UnpresentPost(s)]
    /\ UNCHANGED <<created, mode, phase, pfSem, pending, pfRun, pfAlive, cp,
                   firstPresent, started, startSem, err, ancestor, descendant,
                   td, acqLock, allocFailures, payloadFailures>>

-----------------------------------------------------------------------------
(* Mutant: the page-flip thread pops the newest request, not the oldest.  *)
PFTakeNewest(s) ==
    /\ mode[s] # "SHARED_CONTINUOUS"
    /\ pfAlive[s] /\ pfRun[s] /\ cp[s].pc = "idle"
    /\ pfSem[s] > 0 /\ pending[s] # <<>>
    /\ pfSem' = [pfSem EXCEPT ![s] = @ - 1]
    /\ pending' = [pending EXCEPT ![s] = SubSeq(@, 1, Len(@) - 1)]
    /\ cp' = [cp EXCEPT ![s] = [IdleCp EXCEPT !.pc = "payload",
                                              !.img = pending[s][Len(pending[s])]]]
    /\ UNCHANGED <<created, mode, phase, status, freeSem, pfRun, pfAlive,
                   firstPresent, started, startSem, err, ancestor, descendant,
                   td, acqLock, allocFailures, payloadFailures>>

(* page_flip_thread, one loop iteration: wait on the page-flip semaphore    *)
(* and pop the oldest pending request.  The 250 ms timeout of the wait      *)
(* only re-reads m_page_flip_thread_run, so it is not a step of its own.    *)
PFTake(s) ==
    /\ mode[s] # "SHARED_CONTINUOUS"
    /\ pfAlive[s] /\ pfRun[s] /\ cp[s].pc = "idle"
    /\ pfSem[s] > 0 /\ pending[s] # <<>>
    /\ pfSem' = [pfSem EXCEPT ![s] = @ - 1]
    /\ pending' = [pending EXCEPT ![s] = Tail(@)]
    /\ cp' = [cp EXCEPT ![s] = [IdleCp EXCEPT !.pc = "payload",
                                              !.img = Head(pending[s])]]
    /\ UNCHANGED <<created, mode, phase, status, freeSem, pfRun, pfAlive,
                   firstPresent, started, startSem, err, ancestor, descendant,
                   td, acqLock, allocFailures, payloadFailures>>

(* In SHARED_CONTINUOUS only the first iteration waits on the page-flip    *)
(* semaphore; every iteration presents image 0 and pops nothing.           *)
PFContinuous(s) ==
    /\ mode[s] = "SHARED_CONTINUOUS"
    /\ pfAlive[s] /\ pfRun[s] /\ cp[s].pc = "idle"
    /\ firstPresent[s] => pfSem[s] > 0
    /\ pfSem' = IF firstPresent[s] THEN [pfSem EXCEPT ![s] = @ - 1] ELSE pfSem
    /\ cp' = [cp EXCEPT ![s] = [IdleCp EXCEPT !.pc = "payload", !.img = 0]]
    /\ UNCHANGED <<created, mode, phase, status, freeSem, pending, pfRun,
                   pfAlive, firstPresent, started, startSem, err, ancestor,
                   descendant, td, acqLock, allocFailures, payloadFailures>>

(* The loop condition m_page_flip_thread_run is false: the thread returns. *)
PFExit(s) ==
    /\ pfAlive[s] /\ ~pfRun[s] /\ cp[s].pc = "idle"
    /\ pfAlive' = [pfAlive EXCEPT ![s] = FALSE]
    /\ UNCHANGED <<created, mode, phase, status, freeSem, pfSem, pending, pfRun, cp,
                   firstPresent, started, startSem, err, ancestor, descendant,
                   td, acqLock, allocFailures, payloadFailures>>

(* image_wait_present fails with other than VK_TIMEOUT: set the error      *)
(* state and post the free-image semaphore; the image stays PENDING.       *)
PFPayloadFails(s) ==
    /\ cp[s].pc = "payload"
    /\ payloadFailures < MaxPayloadFailures
    /\ payloadFailures' = payloadFailures + 1
    /\ err' = [err EXCEPT ![s] = TRUE]
    /\ freeSem' = [freeSem EXCEPT ![s] = @ + 1]
    /\ cp' = [cp EXCEPT ![s] = IdleCp]
    /\ UNCHANGED <<created, mode, phase, status, pfSem, pending, pfRun, pfAlive,
                   firstPresent, started, startSem, ancestor, descendant, td,
                   acqLock, allocFailures>>

(* image_wait_present succeeds (its VK_TIMEOUT retries are stutter): then   *)
(* call_present.                                                           *)
PFPayloadReady(s) ==
    /\ cp[s].pc = "payload"
    /\ CallPresent(s, cp[s].img)
    /\ UNCHANGED <<created, mode, phase, pfSem, pending, pfRun, pfAlive, started,
                   err, ancestor, descendant, td, acqLock, allocFailures,
                   payloadFailures>>

(* wait_for_pending_buffers on the ancestor, called by call_present: take  *)
(* the ancestor's acquire lock and count its ACQUIRED images under the     *)
(* status lock; it then waits for size - acquired - 1 free-image tokens.   *)
(* Mutants: wait for every non-acquired image, the pending one included;  *)
(* or for one token fewer than the code.                                   *)
PendingWaitCountAll(a) == Cardinality(ImagesOf(mode[a])) - CountIn(a, {"ACQUIRED"})
PendingWaitCountOneLess(a) == Cardinality(ImagesOf(mode[a])) - CountIn(a, {"ACQUIRED"}) - 2

PendingWaitCount(a) == Cardinality(ImagesOf(mode[a])) - CountIn(a, {"ACQUIRED"}) - 1

AncLock(s) ==
    LET a == cp[s].anc IN
    /\ cp[s].pc = "ancLock"
    /\ acqLock[a] = "free"
    /\ acqLock' = [acqLock EXCEPT ![a] = "descendant"]
    /\ cp' = [cp EXCEPT ![s].pc = "ancWait", ![s].left = PendingWaitCount(a)]
    /\ UNCHANGED <<created, mode, phase, status, freeSem, pfSem, pending, pfRun,
                   pfAlive, firstPresent, started, startSem, err, ancestor,
                   descendant, td, allocFailures, payloadFailures>>

(* One wait_for_free_buffer(UINT64_MAX) of that loop on the ancestor.      *)
AncTake(s) ==
    LET a == cp[s].anc IN
    /\ cp[s].pc = "ancWait" /\ cp[s].left > 0
    /\ freeSem[a] > 0
    /\ freeSem' = [freeSem EXCEPT ![a] = @ - 1]
    /\ cp' = [cp EXCEPT ![s].left = @ - 1]
    /\ UNCHANGED <<created, mode, phase, status, pfSem, pending, pfRun, pfAlive,
                   firstPresent, started, startSem, err, ancestor, descendant,
                   td, acqLock, allocFailures, payloadFailures>>

(* The loop ends, the lock is released and call_present goes on.           *)
AncDone(s) ==
    LET a == cp[s].anc IN
    /\ cp[s].pc = "ancWait" /\ cp[s].left <= 0
    /\ acqLock' = [acqLock EXCEPT ![a] = "free"]
    /\ PresentDone(s, cp[s].img)
    /\ UNCHANGED <<created, mode, phase, pfSem, pending, pfRun, pfAlive, started,
                   err, ancestor, descendant, td, allocFailures,
                   payloadFailures>>

-----------------------------------------------------------------------------
(* vkDestroySwapchainKHR -> teardown().  If the descendant has started     *)
(* presenting, wait on its start-present semaphore; else, unless the error *)
(* state is set, wait_for_pending_buffers on this swapchain.  Then stop    *)
(* and join the page-flip thread, unlink and destroy every image.          *)
TDBegin(s) ==
    /\ AppMay(s)
    /\ phase' = [phase EXCEPT ![s] = "teardown"]
    /\ td' = [td EXCEPT ![s] =
                CASE DescStarted(s) -> [NoTd EXCEPT !.pc = "waitStart",
                                                    !.d = descendant[s]]
                  [] ~err[s]        -> [NoTd EXCEPT !.pc = "lock"]
                  [] OTHER          -> [NoTd EXCEPT !.pc = "join"]]
    /\ pfRun' = IF DescStarted(s) \/ ~err[s] THEN pfRun
                ELSE [pfRun EXCEPT ![s] = FALSE]
    /\ UNCHANGED <<created, mode, status, freeSem, pfSem, pending, pfAlive, cp,
                   firstPresent, started, startSem, err, ancestor, descendant,
                   acqLock, allocFailures, payloadFailures>>

(* sem_wait on the descendant's start-present semaphore, then stop the     *)
(* page-flip thread.                                                       *)
TDWaitStart(s) ==
    LET d == td[s].d IN
    /\ td[s].pc = "waitStart"
    /\ startSem[d] > 0
    /\ startSem' = [startSem EXCEPT ![d] = @ - 1]
    /\ td' = [td EXCEPT ![s].pc = "join"]
    /\ pfRun' = [pfRun EXCEPT ![s] = FALSE]
    /\ UNCHANGED <<created, mode, phase, status, freeSem, pfSem, pending, pfAlive,
                   cp, firstPresent, started, err, ancestor, descendant,
                   acqLock, allocFailures, payloadFailures>>

TDLock(s) ==
    /\ td[s].pc = "lock"
    /\ acqLock[s] = "free"
    /\ acqLock' = [acqLock EXCEPT ![s] = "teardown"]
    /\ td' = [td EXCEPT ![s].pc = "wait", ![s].left = PendingWaitCount(s)]
    /\ UNCHANGED <<created, mode, phase, status, freeSem, pfSem, pending, pfRun,
                   pfAlive, cp, firstPresent, started, startSem, err,
                   ancestor, descendant, allocFailures, payloadFailures>>

(* Mutant: take a token without blocking when there is none.              *)
TDTakeNoBlock(s) ==
    /\ td[s].pc = "wait" /\ td[s].left > 0
    /\ freeSem' = [freeSem EXCEPT ![s] = @ - 1]
    /\ td' = [td EXCEPT ![s].left = @ - 1]
    /\ UNCHANGED <<created, mode, phase, status, pfSem, pending, pfRun, pfAlive, cp,
                   firstPresent, started, startSem, err, ancestor, descendant,
                   acqLock, allocFailures, payloadFailures>>

TDTake(s) ==
    /\ td[s].pc = "wait" /\ td[s].left > 0
    /\ freeSem[s] > 0
    /\ freeSem' = [freeSem EXCEPT ![s] = @ - 1]
    /\ td' = [td EXCEPT ![s].left = @ - 1]
    /\ UNCHANGED <<created, mode, phase, status, pfSem, pending, pfRun, pfAlive, cp,
                   firstPresent, started, startSem, err, ancestor, descendant,
                   acqLock, allocFailures, payloadFailures>>

TDWaitDone(s) ==
    /\ td[s].pc = "wait" /\ td[s].left <= 0
    /\ acqLock' = [acqLock EXCEPT ![s] = "free"]
    /\ td' = [td EXCEPT ![s].pc = "join"]
    /\ pfRun' = [pfRun EXCEPT ![s] = FALSE]
    /\ UNCHANGED <<created, mode, phase, status, freeSem, pfSem, pending, pfAlive,
                   cp, firstPresent, started, startSem, err, ancestor,
                   descendant, allocFailures, payloadFailures>>

(* Mutant: teardown that does not clear_ancestor on its descendant.        *)
TDJoinKeepAncestor(s) ==
    /\ td[s].pc = "join"
    /\ ~pfAlive[s]
    /\ descendant' = IF ancestor[s] = NoSC THEN descendant
                     ELSE [descendant EXCEPT ![ancestor[s]] = NoSC]
    /\ status' = [status EXCEPT ![s] = DestroyImages(@, Img)]
    /\ phase' = [phase EXCEPT ![s] = "destroyed"]
    /\ td' = [td EXCEPT ![s] = NoTd]
    /\ UNCHANGED <<created, mode, freeSem, pfSem, pending, pfRun, pfAlive, cp,
                   firstPresent, started, startSem, err, ancestor, acqLock,
                   allocFailures, payloadFailures>>

(* join the page-flip thread; clear_ancestor on the descendant,            *)
(* clear_descendant on the ancestor; destroy_image on every image.         *)
TDJoin(s) ==
    /\ td[s].pc = "join"
    /\ ~pfAlive[s]
    /\ ancestor' = IF descendant[s] = NoSC THEN ancestor
                   ELSE [ancestor EXCEPT ![descendant[s]] = NoSC]
    /\ descendant' = IF ancestor[s] = NoSC THEN descendant
                     ELSE [descendant EXCEPT ![ancestor[s]] = NoSC]
    /\ status' = [status EXCEPT ![s] = DestroyImages(@, Img)]
    /\ phase' = [phase EXCEPT ![s] = "destroyed"]
    /\ td' = [td EXCEPT ![s] = NoTd]
    /\ UNCHANGED <<created, mode, freeSem, pfSem, pending, pfRun, pfAlive, cp,
                   firstPresent, started, startSem, err, acqLock,
                   allocFailures, payloadFailures>>

(* Every swapchain of Chain has been created and destroyed.                *)
Finished ==
    /\ created = Len(Chain)
    /\ \A s \in SC : phase[s] = "destroyed"
    /\ UNCHANGED vars

-----------------------------------------------------------------------------
Init ==
    /\ created = 1
    /\ \E m \in Modes : mode = [s \in SC |-> m]
    /\ phase = [s \in SC |-> IF s = Chain[1] THEN "live" ELSE "unused"]
    /\ status = [s \in SC |-> IF s = Chain[1] THEN NewImages(mode[s])
                                               ELSE [i \in Img |-> "INVALID"]]
    /\ freeSem = [s \in SC |-> IF s = Chain[1] THEN Cardinality(ImagesOf(mode[s]))
                                               ELSE 0]
    /\ pfSem = [s \in SC |-> 0]
    /\ pending = [s \in SC |-> <<>>]
    /\ pfRun = [s \in SC |-> s = Chain[1] /\ UseThread(mode[s])]
    /\ pfAlive = [s \in SC |-> s = Chain[1] /\ UseThread(mode[s])]
    /\ cp = [s \in SC |-> IdleCp]
    /\ firstPresent = [s \in SC |-> TRUE]
    /\ started = [s \in SC |-> FALSE]
    /\ startSem = [s \in SC |-> 0]
    /\ err = [s \in SC |-> FALSE]
    /\ ancestor = [s \in SC |-> NoSC]
    /\ descendant = [s \in SC |-> NoSC]
    /\ td = [s \in SC |-> NoTd]
    /\ acqLock = [s \in SC |-> "free"]
    /\ allocFailures = 0
    /\ payloadFailures = 0

AppStep ==
    \/ Create
    \/ \E s \in SC :
          \/ Acquire(s) \/ AcquireError(s) \/ AcquireAllocFails(s)
          \/ TDBegin(s)
          \/ \E i \in Img : \/ PresentOutOfDate(s, i) \/ PresentEnqueue(s, i)
                            \/ PresentInline(s, i) \/ Release(s, i)

(* Steps of a thread that is already running: the page-flip thread (or an *)
(* inline call_present on the presenting application thread), and a       *)
(* teardown in progress on the destroying application thread.             *)
PageFlipStep(s) ==
    \/ PFTake(s) \/ PFContinuous(s) \/ PFExit(s) \/ PFPayloadReady(s)
    \/ AncLock(s) \/ AncTake(s) \/ AncDone(s)

TeardownStep(s) ==
    \/ TDWaitStart(s) \/ TDLock(s) \/ TDTake(s) \/ TDWaitDone(s) \/ TDJoin(s)

RunningStep(s) == PageFlipStep(s) \/ TeardownStep(s)

Next ==
    \/ AppStep
    \/ \E s \in SC : RunningStep(s) \/ PFPayloadFails(s)
    \/ Finished

(* Threads that are running keep running: weak fairness on the steps of    *)
(* each of them.  Application calls and failures are not fair.             *)
Fairness == \A s \in SC : WF_vars(PageFlipStep(s)) /\ WF_vars(TeardownStep(s))

Spec == Init /\ [][Next]_vars /\ Fairness

-----------------------------------------------------------------------------
TypeOK ==
    /\ created \in 1..Len(Chain)
    /\ mode \in [SC -> Modes]
    /\ phase \in [SC -> {"unused", "live", "teardown", "destroyed"}]
    /\ status \in [SC -> [Img -> Status]]
    /\ freeSem \in [SC -> Nat] /\ pfSem \in [SC -> Nat]
    /\ startSem \in [SC -> Nat]
    /\ pending \in [SC -> Seq(Img)] /\ \A s \in SC : Len(pending[s]) <= RingSize
    /\ pfRun \in [SC -> BOOLEAN] /\ pfAlive \in [SC -> BOOLEAN]
    /\ cp \in [SC -> [pc : {"idle", "payload", "ancLock", "ancWait"},
                      img : Img, anc : SC \cup {NoSC}, left : Int]]
    /\ td \in [SC -> [pc : {"none", "waitStart", "lock", "wait", "join"},
                      d : SC \cup {NoSC}, left : Int]]
    /\ firstPresent \in [SC -> BOOLEAN] /\ started \in [SC -> BOOLEAN]
    /\ err \in [SC -> BOOLEAN]
    /\ ancestor \in [SC -> SC \cup {NoSC}]
    /\ descendant \in [SC -> SC \cup {NoSC}]
    /\ acqLock \in [SC -> {"free", "descendant", "teardown"}]
    /\ allocFailures \in 0..MaxAllocFailures
    /\ payloadFailures \in 0..MaxPayloadFailures

(* acquire_next_image asserts (line 451) that once it holds a free-image   *)
(* token it finds a FREE or UNALLOCATED image: on a swapchain that may     *)
(* still be acquired from and has no error, every token is backed by such  *)
(* an image, whatever the presents, releases, out-of-date returns and      *)
(* failed allocations did before.                                          *)
TokenBackedByImage ==
    \A s \in SC :
        phase[s] = "live" /\ ~Retired(s) /\ ~err[s]
            => freeSem[s] <= Cardinality(Acquirable(s))

(* Neither a page-flip thread waiting in the ancestor's                    *)
(* wait_for_pending_buffers nor a teardown waiting on the descendant's     *)
(* start-present semaphore works on a swapchain that has been destroyed.   *)
NoUseOfDestroyedSwapchain ==
    \A s \in SC :
        /\ cp[s].pc \in {"ancLock", "ancWait"} => phase[cp[s].anc] # "destroyed"
        /\ td[s].pc = "waitStart" => phase[td[s].d] # "destroyed"

(* The comment in wait_for_pending_buffers: a descendant's first present   *)
(* goes ahead while at most one image of its ancestor is still PENDING,    *)
(* and the ancestor (now answering presents with out-of-date) queues no    *)
(* more while the descendant exists.                                       *)
AncestorAtMostOneInFlight ==
    \A s \in SC :
        LET a == ancestor[s] IN
        phase[s] \in {"live", "teardown"} /\ a # NoSC /\ ~firstPresent[s] /\ ~err[a] /\ phase[a] # "destroyed"
            => CountIn(a, {"PENDING"}) <= 1

(* notify_presentation_engine asserts (line 596) that the ring buffer      *)
(* takes every request: a present that posts the page-flip semaphore has   *)
(* its request queued for the page-flip thread.                            *)
RingPushSucceeds ==
    [][\A s \in SC : pfSem'[s] = pfSem[s] + 1
                        => Len(pending'[s]) = Len(pending[s]) + 1]_vars

(* vkDestroySwapchainKHR returns: a teardown that has begun finishes.      *)
TeardownTerminates ==
    \A s \in SC : phase[s] = "teardown" ~> phase[s] = "destroyed"

(* A present handed to the page-flip thread is eventually shown and the    *)
(* image unpresented, unless the error state is set or the swapchain is    *)
(* torn down.                                                              *)
PendingEventuallyReleased ==
    \A s \in SC, i \in Img :
        status[s][i] = "PENDING"
            ~> status[s][i] # "PENDING" \/ err[s]


-----------------------------------------------------------------------------
(* Refinement of ImageOwnership.  An INVALID image is owned by nobody, a   *)
(* FREE or UNALLOCATED one by the pool (acquire may hand it out), an      *)
(* ACQUIRED one by the application, a PENDING one by the engine.  The     *)
(* engine's queue is the request call_present is working on followed by   *)
(* the ring buffer.  SHARED_CONTINUOUS never pops the ring: its queue is  *)
(* image 0 while that image is PENDING, unless the first present failed    *)
(* its wait (the only page-flip post is then spent, and the request lost). *)
OwnerOf(st) == CASE st = "INVALID" -> "none"
                 [] st \in {"FREE", "UNALLOCATED"} -> "pool"
                 [] st = "ACQUIRED" -> "app"
                 [] OTHER -> "engine"

EngineQueue(s) ==
    CASE phase[s] = "destroyed" -> <<>>
      [] mode[s] = "SHARED_CONTINUOUS" ->
            IF status[s][0] = "PENDING"
               /\ ~(firstPresent[s] /\ pfSem[s] = 0 /\ cp[s].pc = "idle")
            THEN <<0>> ELSE <<>>
      [] OTHER ->
            (IF cp[s].pc # "idle" THEN <<cp[s].img>> ELSE <<>>) \o pending[s]

Ownership == INSTANCE ImageOwnership WITH
    owner <- [s \in SC |-> [i \in Img |-> OwnerOf(status[s][i])]],
    queue <- [s \in SC |-> EngineQueue(s)],
    keeps <- [s \in SC |-> SharedMode(s)]

(* The swapchain keeps ImageOwnership's promise: the application is given  *)
(* only pool images, the engine shows presented images in present order    *)
(* and returns each to the pool (or, shared, to the application), and     *)
(* keeps showing while presents are queued: the page-flip thread pops the *)
(* ring from the front and call_present/unpresent_image hand the image    *)
(* back.                                                                   *)
ImplementsImageOwnership == Ownership!Spec

=============================================================================
