--------------------------- MODULE ImageOwnership ---------------------------
(***************************************************************************)
(* What a chain of swapchains promises the application about its images,  *)
(* independent of semaphores, threads and presenters.  Every image of a   *)
(* swapchain is owned by nobody (not created, or destroyed), by the pool   *)
(* (the application may acquire it), by the application, or by the       *)
(* presentation engine.  The engine shows presented images in the order    *)
(* they were presented; after showing one it returns it to the pool, or,   *)
(* for a swapchain whose images stay with the application (the shared      *)
(* present modes), to the application.  A present whose wait fails is      *)
(* dropped from the queue and its image stays with the engine until the   *)
(* swapchain is destroyed.                                                 *)
(***************************************************************************)
EXTENDS Sequences

CONSTANTS SC, Img

Owner == {"none", "pool", "app", "engine"}

VARIABLES
    owner,   \* owner[s][i]
    queue,   \* queue[s]: images presented and not yet shown, oldest first
    keeps    \* keeps[s]: a shown image goes back to the application

avars == <<owner, queue, keeps>>

Init ==
    /\ owner \in [SC -> [Img -> {"none", "pool"}]]
    /\ queue = [s \in SC |-> <<>>]
    /\ keeps \in [SC -> BOOLEAN]

(* A new swapchain gets images in the pool; the swapchain it replaces     *)
(* gives up images of its pool.                                            *)
Create(s) ==
    /\ \A i \in Img : owner[s][i] = "none"
    /\ owner'[s] \in [Img -> {"none", "pool"}]
    /\ \A t \in SC \ {s}, i \in Img :
          owner'[t][i] = owner[t][i]
          \/ (owner[t][i] = "pool" /\ owner'[t][i] = "none")
    /\ keeps' \in [SC -> BOOLEAN] /\ \A t \in SC \ {s} : keeps'[t] = keeps[t]
    /\ UNCHANGED queue

Move(s, i, from, to) ==
    /\ owner[s][i] = from
    /\ owner' = [owner EXCEPT ![s][i] = to]

Acquire(s, i) == Move(s, i, "pool", "app") /\ UNCHANGED <<queue, keeps>>

GiveBack(s, i) == Move(s, i, "app", "pool") /\ UNCHANGED <<queue, keeps>>

Drop(s, i) == Move(s, i, "pool", "none") /\ UNCHANGED <<queue, keeps>>

Present(s, i) ==
    /\ Move(s, i, "app", "engine")
    /\ queue' = [queue EXCEPT ![s] = Append(@, i)]
    /\ UNCHANGED keeps

Show(s) ==
    /\ queue[s] # <<>>
    /\ Move(s, Head(queue[s]), "engine", IF keeps[s] THEN "app" ELSE "pool")
    /\ queue' = [queue EXCEPT ![s] = Tail(@)]
    /\ UNCHANGED keeps

Lose(s) ==
    /\ queue[s] # <<>>
    /\ queue' = [queue EXCEPT ![s] = Tail(@)]
    /\ UNCHANGED <<owner, keeps>>

Destroy(s) ==
    /\ owner' = [owner EXCEPT ![s] = [i \in Img |-> "none"]]
    /\ queue' = [queue EXCEPT ![s] = <<>>]
    /\ UNCHANGED keeps

Next ==
    \E s \in SC :
        \/ Create(s) \/ Show(s) \/ Lose(s) \/ Destroy(s)
        \/ \E i \in Img : Acquire(s, i) \/ GiveBack(s, i) \/ Drop(s, i)
                          \/ Present(s, i)

(* The engine keeps showing while it has presents queued.                  *)
Spec == Init /\ [][Next]_avars /\ \A s \in SC : WF_avars(Show(s) \/ Lose(s))

=============================================================================
