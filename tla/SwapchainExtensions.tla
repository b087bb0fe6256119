------------------------ MODULE SwapchainExtensions ------------------------
(***************************************************************************)
(* The per-swapchain extension registry and what the headless swapchain    *)
(* does with it: wsi_ext_maintainer::add_extension                         *)
(* (src/wsi/extensions/wsi_extension.cpp), add_required_extensions         *)
(* (src/wsi/headless/swapchain.cpp), the extension part of                 *)
(* swapchain_base::init and of swapchain_base::queue_present               *)
(* (src/wsi/swapchain_base.cpp), and the maintenance1 create-info and      *)
(* mode-switch handlers (src/wsi/extensions/swapchain_maintenance.cpp).    *)
(*                                                                         *)
(* A swapchain's init and its presents are sequential code (the            *)
(* application synchronises its calls on one swapchain), so each is an     *)
(* operator from its inputs to its result and the swapchain's extension    *)
(* state.  The inputs are the device's enabled features, the create info's *)
(* chained structures, the one allocation that fails (if any), and the     *)
(* value of wsi_ext_swapchain_maintenance1::m_present_mode, a member no    *)
(* constructor initialises: any present mode, or a value that names none.  *)
(***************************************************************************)
EXTENDS Naturals, Sequences, SequencesExt

CONSTANTS
    Modes,          \* the VkPresentModeKHR values of create and present infos
    Garbage,        \* an indeterminate VkPresentModeKHR naming no present mode
    MaxModeList,    \* bound on VkSwapchainPresentModesCreateInfoEXT::presentModeCount
    NoList,         \* no VkSwapchainPresentModesCreateInfoEXT in the create info
    NoSwitch,       \* no VkSwapchainPresentModeInfoEXT on the present
    Experimental    \* the build defines VULKAN_WSI_LAYER_EXPERIMENTAL

(* The device_private_data flags that select swapchain extensions.         *)
DeviceFeatures == {"compression", "present_id", "maintenance1", "frame_boundary"}

(* The extension types, in the order add_required_extensions adds them.   *)
AddOrder == <<"compression", "present_id", "maintenance1", "frame_boundary", "present_timing">>
ExtTypes == ToSet(AddOrder)

(* What can fail during the extension part of init: the allocation or     *)
(* registration of one extension type, or m_present_modes.try_resize.      *)
InitFaults == {"none", "resize"} \cup ExtTypes

CreateInfos ==
    [compression : BOOLEAN,                             \* VkImageCompressionControlEXT chained
     timing : IF Experimental THEN BOOLEAN ELSE {FALSE}, \* VK_SWAPCHAIN_CREATE_PRESENT_TIMING_BIT_EXT
     modes : {NoList} \cup (BoundedSeq(Modes, MaxModeList) \ {<<>>}),
     scaling : BOOLEAN]                                 \* a nonzero scaling or gravity request

(* A present as far as the extensions see it: whether                     *)
(* add_presentation_entry's allocation fails, the mode switch requested,   *)
(* and how the rest of queue_present ends: a failed wait or submit, an     *)
(* out-of-date notify, or a present the presenter later carries out.       *)
PresentCalls(dev) ==
    [timingFails : BOOLEAN,
     switch : IF "maintenance1" \in dev THEN {NoSwitch} \cup Modes ELSE {NoSwitch},
     engine : {"failed", "out_of_date", "presented"}]

-----------------------------------------------------------------------------
(* populate_present_mode_compatibilities of the headless surface: FIFO and *)
(* FIFO_RELAXED may switch to each other, the shared modes only to         *)
(* themselves.                                                              *)
CompatibleModes ==
    [m \in {"FIFO", "FIFO_RELAXED", "SHARED_DEMAND", "SHARED_CONTINUOUS"} |->
        IF m \in {"FIFO", "FIFO_RELAXED"} THEN {"FIFO", "FIFO_RELAXED"} ELSE {m}]

(* is_compatible_present_modes: b is listed for a; a value that is no      *)
(* present mode has no entry.                                              *)
IsCompatiblePresentModes(a, b) ==
    a \in DOMAIN CompatibleModes /\ b \in CompatibleModes[a]

(* get_extension<T>: the registered extension of type t, or nullptr.      *)
GetExtension(exts, t) == t \in ToSet(exts)

(* Mutant: the result of try_push_back is dropped and the add reports      *)
(* success.                                                                 *)
AddExtensionIgnorePushFailure(exts, t, fails) ==
    CASE t \in ToSet(exts) -> [ok |-> TRUE, exts |-> exts]
      [] fails            -> [ok |-> TRUE, exts |-> exts]
      [] OTHER            -> [ok |-> TRUE, exts |-> Append(exts, t)]

(* add_swapchain_extension(make_unique<T>(...)): a null extension (failed  *)
(* allocation) is refused; a duplicate replaces the registered one; else   *)
(* try_push_back, which fails when the vector cannot grow.                 *)
AddExtension(exts, t, fails) ==
    CASE fails            -> [ok |-> FALSE, exts |-> exts]
      [] t \in ToSet(exts) -> [ok |-> TRUE, exts |-> exts]
      [] OTHER            -> [ok |-> TRUE, exts |-> Append(exts, t)]

(* Whether add_required_extensions asks for type t.                       *)
Wanted(t, dev, ci) ==
    CASE t = "compression"    -> "compression" \in dev /\ ci.compression
      [] t = "present_timing" -> ci.timing
      [] OTHER                -> t \in dev

(* add_required_extensions: add each wanted type in order, returning       *)
(* VK_ERROR_OUT_OF_HOST_MEMORY at the first add that fails.                *)
AddRequired(acc, t, dev, ci, fault) ==
    LET a == AddExtension(acc.exts, t, fault = t)
    IN CASE acc.res # "SUCCESS" \/ ~Wanted(t, dev, ci) -> acc
         [] a.ok  -> [acc EXCEPT !.exts = a.exts]
         [] OTHER -> [res |-> "OUT_OF_HOST_MEMORY", exts |-> a.exts]

AddRequiredExtensions(dev, ci, fault) ==
    LET add(acc, k) == AddRequired(acc, AddOrder[k], dev, ci, fault)
    IN add(add(add(add(add([res |-> "SUCCESS", exts |-> <<>>], 1), 2), 3), 4), 5)

(* handle_swapchain_present_modes_create_info: without the structure       *)
(* nothing is recorded; otherwise resize m_present_modes and record each   *)
(* listed mode after checking it against m_present_mode (uninit).          *)
HandlePresentModesCreateInfo(ci, uninit, fault) ==
    CASE ci.modes = NoList -> [res |-> "SUCCESS", modes |-> <<>>]
      [] fault = "resize"  -> [res |-> "OUT_OF_HOST_MEMORY", modes |-> <<>>]
      [] \A i \in 1..Len(ci.modes) : IsCompatiblePresentModes(uninit, ci.modes[i])
                           -> [res |-> "SUCCESS", modes |-> ci.modes]
      [] OTHER             -> [res |-> "INITIALIZATION_FAILED", modes |-> <<>>]

(* handle_scaling_create_info against the headless surface, which reports *)
(* no supported scaling or gravity: any nonzero request fails.             *)
HandleScalingCreateInfo(ci) ==
    IF ci.scaling THEN "INITIALIZATION_FAILED" ELSE "SUCCESS"

(* The extension part of swapchain_base::init: add_required_extensions,    *)
(* then, when maintenance1 was registered, its two create-info handlers.   *)
InitExtensions(dev, ci, fault, uninit) ==
    LET r  == AddRequiredExtensions(dev, ci, fault)
        pm == HandlePresentModesCreateInfo(ci, uninit, fault)
        res == CASE r.res # "SUCCESS"                    -> r.res
                 [] ~GetExtension(r.exts, "maintenance1") -> "SUCCESS"
                 [] pm.res # "SUCCESS"                   -> pm.res
                 [] OTHER                                -> HandleScalingCreateInfo(ci)
    IN [res |-> res, exts |-> r.exts, modes |-> pm.modes, mode |-> uninit, timing |-> 0]

(* handle_switching_presentation_mode: switch only to a mode of the list  *)
(* recorded at creation, else VK_ERROR_SURFACE_LOST_KHR (after asserting   *)
(* that a list was recorded).                                               *)
HandleSwitchingPresentationMode(sc, m) ==
    IF m \in ToSet(sc.modes) THEN [res |-> "SUCCESS", mode |-> m]
    ELSE [res |-> "SURFACE_LOST", mode |-> sc.mode]

(* The extension steps of queue_present, in the code's order, and the     *)
(* headless present_image.  add_presentation_entry may fail and end the    *)
(* present.  A mode switch looks maintenance1 up as required and, when it  *)
(* is there, may end the present with SURFACE_LOST.  The rest of the       *)
(* present may fail or be out of date; a present carried out reaches       *)
(* present_image, which requires present_id when the device enabled it     *)
(* and calls set_present_id through the pointer.  missing holds the        *)
(* required lookups that found no extension.                               *)
QueuePresentExtensions(sc, dev, c) ==
    LET timed     == GetExtension(sc.exts, "present_timing")
        maint     == GetExtension(sc.exts, "maintenance1")
        switching == c.switch # NoSwitch /\ maint
        sw        == HandleSwitchingPresentationMode(sc, c.switch)
        swMiss    == IF c.switch # NoSwitch /\ ~maint THEN {"maintenance1"} ELSE {}
        idMiss    == IF "present_id" \in dev /\ ~GetExtension(sc.exts, "present_id")
                     THEN {"present_id"} ELSE {}
        sc1       == IF timed THEN [sc EXCEPT !.timing = @ + 1] ELSE sc
        sc2       == IF switching THEN [sc1 EXCEPT !.mode = sw.mode] ELSE sc1
    IN CASE timed /\ c.timingFails         -> [res |-> "OUT_OF_HOST_MEMORY", sc |-> sc, missing |-> {}]
         [] switching /\ sw.res # "SUCCESS" -> [res |-> sw.res, sc |-> sc1, missing |-> {}]
         [] c.engine = "failed"             -> [res |-> "ERROR", sc |-> sc2, missing |-> swMiss]
         [] c.engine = "out_of_date"        -> [res |-> "OUT_OF_DATE", sc |-> sc2, missing |-> swMiss]
         [] OTHER                           -> [res |-> "SUCCESS", sc |-> sc2, missing |-> swMiss \cup idMiss]

-----------------------------------------------------------------------------
(* Every swapchain whose init succeeds has registered exactly the          *)
(* extensions its device features and create info ask for, once each, so   *)
(* each later lookup finds the one init made, and the lookups that         *)
(* queue_present and present_image require to succeed                      *)
(* (get_swapchain_extension(true)) never find nothing, whichever           *)
(* allocation of init failed and whatever m_present_mode held.  A          *)
(* constant: TLC evaluates it once.                                         *)
ExtensionContract ==
    \A dev \in SUBSET DeviceFeatures, ci \in CreateInfos, f \in InitFaults,
       u \in Modes \cup {Garbage} :
        LET sc == InitExtensions(dev, ci, f, u)
        IN sc.res = "SUCCESS" =>
             /\ \A t \in ExtTypes : GetExtension(sc.exts, t) = Wanted(t, dev, ci)
             /\ IsInjective(sc.exts)
             /\ \A c \in PresentCalls(dev) : QueuePresentExtensions(sc, dev, c).missing = {}
=============================================================================
