----------------------------- MODULE LayerSetup -----------------------------
(***************************************************************************)
(* The layer's interposed vkCreateInstance, vkCreateDevice,                *)
(* vkDestroyInstance and vkDestroyDevice (src/layer/layer.cpp), with the   *)
(* extension lists they pass down (src/util/extension_list.cpp).           *)
(*                                                                         *)
(* The layer keeps its per-instance and per-device data in a registry     *)
(* keyed by the dispatchable handle (instance_private_data::associate and *)
(* device_private_data::associate).  Handles are addresses the next layer *)
(* or driver hands out, and an address is reused once its object is       *)
(* destroyed.  Several application threads may create and destroy         *)
(* instances and devices at the same time; each registry operation is     *)
(* atomic (the registry is locked), the calls as a whole are not.          *)
(*                                                                         *)
(* Every call of the next layer and every allocation may fail; the         *)
(* failures are bounded by MaxFailures.                                    *)
(***************************************************************************)
EXTENDS Naturals, Sequences, SequencesExt, FiniteSets, DisplayProperties, SwapchainExtensions

CONSTANTS
    Thread,             \* application threads
    Addr,               \* handle addresses the driver may return
    Gen,                \* identities of creations, to tell reused addresses apart
    SurfaceExt,         \* VK_KHR_surface
    PlatformExts,       \* the surface extensions of platforms the layer handles
    HeadlessExt,        \* VK_EXT_headless_surface, in PlatformExts
    DisplayExt,         \* VK_KHR_display, in PlatformExts
    LayerInstanceExts,  \* the four instance extensions create_instance adds
    LayerDeviceExts,    \* what add_extensions_required_by_layer adds
    AppInstanceExts,    \* the ppEnabledExtensionNames an application may pass
    AppDeviceExts,
    Props2Ext,          \* VK_KHR_get_physical_device_properties2
    SurfaceCaps2Ext,    \* VK_KHR_get_surface_capabilities2
    SwapchainExt,       \* VK_KHR_swapchain
    InstanceQueries,    \* names the application passes to vkGetInstanceProcAddr
    DeviceQueries,      \* names the application passes to vkGetDeviceProcAddr
    MaxFailures         \* bound on failed calls and allocations

Kind == {"instance", "device"}       \* the dispatchable objects
ObjKind == Kind \cup {"surface"}
NoAddr == "none"
NoEntry == [gen |-> "none", platforms |-> {}, exts |-> {}]
EmptyName == "" \* a default-constructed VkExtensionProperties name

-----------------------------------------------------------------------------
(***************************************************************************)
(* util::extension_list as a sequence of names.                            *)
(***************************************************************************)

(* Mutant: the copied names are written from index 0, not after the       *)
(* existing entries.                                                        *)
ExtListAddNoOffset(l, names) ==
    [i \in 1..(Len(l) + Len(names)) |->
        IF i <= Len(names) THEN names[i] ELSE IF i <= Len(l) THEN l[i] ELSE EmptyName]

(* add(extensions, count): grow by count and copy the names after the      *)
(* existing entries.  It does not skip names already in the list.          *)
ExtListAdd(l, names) ==
    [i \in 1..(Len(l) + Len(names)) |->
        IF i <= Len(l) THEN l[i] ELSE names[i - Len(l)]]

(* get_extension_strings: append the list's names to out.                  *)
ExtensionStrings(out, l) == out \o l

(* contains(extension_name).                                               *)
ExtListContains(l, n) == \E i \in 1..Len(l) : l[i] = n

(* wsi::find_enabled_layer_platforms: the handled platforms whose surface  *)
(* extension the application enabled.                                      *)
PlatformsOf(exts) == ToSet(exts) \cap PlatformExts

(* The list create_instance passes down: with a handled platform, the      *)
(* application's extensions followed by the layer's.                       *)
InstanceExtensions(app) ==
    IF PlatformsOf(app) = {} THEN app
    ELSE ExtensionStrings(<<>>, ExtListAdd(ExtListAdd(<<>>, app), LayerInstanceExts))

(* The same in create_device, for the platforms the instance enabled;      *)
(* wsi::add_extensions_required_by_layer adds LayerDeviceExts.             *)
DeviceExtensions(app, platforms) ==
    IF platforms = {} THEN app
    ELSE ExtensionStrings(<<>>, ExtListAdd(ExtListAdd(<<>>, app), LayerDeviceExts))

-----------------------------------------------------------------------------
(***************************************************************************)
(* The entry points wsi_layer_vkGetInstanceProcAddr and                   *)
(* wsi_layer_vkGetDeviceProcAddr return as the layer's own (GET_PROC_ADDR).*)
(***************************************************************************)
InstanceGlobalFns == {"vkGetDeviceProcAddr", "vkGetInstanceProcAddr", "vkCreateInstance",
                      "vkDestroyInstance", "vkCreateDevice",
                      "vkGetPhysicalDevicePresentRectanglesKHR", "vkGetPhysicalDeviceFeatures2"}
SurfaceFns == {"vkGetPhysicalDeviceSurfaceSupportKHR", "vkGetPhysicalDeviceSurfaceCapabilitiesKHR",
               "vkGetPhysicalDeviceSurfaceFormatsKHR",
               "vkGetPhysicalDeviceSurfacePresentModesKHR", "vkDestroySurfaceKHR"}
Surface2Fns == {"vkGetPhysicalDeviceSurfaceCapabilities2KHR",
                "vkGetPhysicalDeviceSurfaceFormats2KHR"}
SwapchainFns == {"vkCreateSwapchainKHR", "vkDestroySwapchainKHR", "vkGetSwapchainImagesKHR",
                 "vkAcquireNextImageKHR", "vkQueuePresentKHR", "vkAcquireNextImage2KHR",
                 "vkGetDeviceGroupPresentCapabilitiesKHR",
                 "vkGetDeviceGroupSurfacePresentModesKHR"}
DeviceCoreFns == {"vkDestroyDevice", "vkCreateImage", "vkBindImageMemory2"}

(* wsi_layer_vkGetInstanceProcAddr: TRUE when it returns the layer's entry *)
(* point for fn, FALSE when it passes fn to the next layer; exts are the   *)
(* instance's enabled extensions (is_instance_extension_enabled).          *)
InstanceProcAddr(fn, exts) ==
    \/ fn \in InstanceGlobalFns
    \/ fn = "vkGetPhysicalDeviceFeatures2KHR" /\ Props2Ext \in exts
    \/ /\ SurfaceExt \in exts
       /\ \/ fn \in SurfaceFns
          \/ fn \in Surface2Fns /\ SurfaceCaps2Ext \in exts

(* wsi_layer_vkGetDeviceProcAddr, with the device's enabled extensions.     *)
DeviceProcAddr(fn, exts) ==
    \/ fn \in SwapchainFns /\ SwapchainExt \in exts
    \/ fn \in DeviceCoreFns

-----------------------------------------------------------------------------
VARIABLES
    live,      \* live[k]: the addresses of the driver's objects of kind k
    reg,       \* reg[k][a]: the layer's private data associated with address a;
               \* for a surface, the wsi::surface add_surface recorded
    owned,     \* owned[k]: the handles the application holds
    pc,        \* pc[t]: the call thread t is in, and its locals
    result,    \* result[t]: what thread t's last call returned; for a
               \* vkGet*ProcAddr, whether it was the layer's entry point
    failures   \* failures injected so far

vars == <<live, reg, owned, pc, result, failures>>

(* A call's VkResult, or a lookup's name and whether the layer answered.   *)
NoResult == [code |-> "none", k |-> "none", fn |-> "none", app |-> <<>>, layer |-> FALSE]

Idle == [op |-> "idle", h |-> NoAddr, gen |-> "none", parent |-> NoAddr,
         plat |-> {}, app |-> <<>>, list |-> <<>>, k |-> 0]

InUse == UNION {{o.gen : o \in owned[k]} \cup {reg[k][a].gen : a \in Addr} : k \in ObjKind}
         \cup {pc[t].gen : t \in Thread}

ExtName == UNION {ToSet(l) : l \in AppInstanceExts \cup AppDeviceExts}
           \cup ToSet(LayerInstanceExts) \cup ToSet(LayerDeviceExts)

Handle == [h : Addr, gen : Gen, parent : Addr \cup {NoAddr}, app : Seq(ExtName)]

TypeOK ==
    /\ live \in [ObjKind -> SUBSET Addr]
    /\ reg \in [ObjKind -> [Addr -> {NoEntry} \cup [gen : Gen, platforms : SUBSET PlatformExts,
                                                 exts : SUBSET ExtName]]]
    /\ owned \in [ObjKind -> SUBSET Handle]
    /\ \A t \in Thread : pc[t].op \in {"idle", "ciAssociate", "ciSetExts", "cdAssociate",
                                       "cdSetExts", "diStep", "ddStep"}
    /\ \A t \in Thread : pc[t].app \in Seq(ExtName) /\ pc[t].list \in Seq(ExtName)
    /\ result \in [Thread -> [code : {"none", "SUCCESS", "ERROR", "EXTENSION_NOT_PRESENT"},
                              k : Kind \cup {"none"},
                              fn : InstanceQueries \cup DeviceQueries \cup {"none"},
                              app : Seq(ExtName), layer : BOOLEAN]]
    /\ failures \in 0..MaxFailures

Init ==
    /\ live = [k \in ObjKind |-> {}]
    /\ reg = [k \in ObjKind |-> [a \in Addr |-> NoEntry]]
    /\ owned = [k \in ObjKind |-> {}]
    /\ pc = [t \in Thread |-> Idle]
    /\ result = [t \in Thread |-> NoResult]
    /\ failures = 0

Fail == failures < MaxFailures /\ failures' = failures + 1
Return(t, r) == pc' = [pc EXCEPT ![t] = Idle] /\ result' = [result EXCEPT ![t] = [NoResult EXCEPT !.code = r]]

(* The next layer's vkCreate* returns a new object at a free address, or  *)
(* the call (or an allocation before it) fails with nothing created.      *)
CreateDownstream(t, k, op, parent, plat, app, list) ==
    \/ /\ Fail
       /\ Return(t, "ERROR")
       /\ UNCHANGED <<live, reg, owned>>
    \/ \E a \in Addr \ live[k], g \in Gen \ InUse :
          /\ live' = [live EXCEPT ![k] = @ \cup {a}]
          /\ pc' = [pc EXCEPT ![t] = [Idle EXCEPT !.op = op, !.h = a, !.gen = g,
                                         !.parent = parent, !.plat = plat,
                                         !.app = app, !.list = list]]
          /\ UNCHANGED <<reg, owned, result, failures>>

-----------------------------------------------------------------------------
(***************************************************************************)
(* create_instance, up to the call of the next layer.  The loader always   *)
(* supplies the link and loader-data chain entries and a vkCreateInstance, *)
(* so the INITIALIZATION_FAILED returns before it are not taken.           *)
(***************************************************************************)
CreateInstance(t) ==
    /\ pc[t] = Idle
    /\ \E app \in AppInstanceExts :
          \/ /\ PlatformsOf(app) # {}
             /\ ~ExtListContains(ExtListAdd(<<>>, app), SurfaceExt)
             /\ Return(t, "EXTENSION_NOT_PRESENT")
             /\ UNCHANGED <<live, reg, owned, failures>>
          \/ /\ PlatformsOf(app) # {} => ExtListContains(ExtListAdd(<<>>, app), SurfaceExt)
             /\ CreateDownstream(t, "instance", "ciAssociate", NoAddr, PlatformsOf(app),
                                 app, InstanceExtensions(app))

(* Populate the dispatch table and associate the private data; when       *)
(* either fails, destroy the new object through the table and return.     *)
Associate(t, k, next) ==
    LET a == pc[t].h
    IN \/ /\ Fail
          /\ live' = [live EXCEPT ![k] = @ \ {a}]
          /\ Return(t, "ERROR")
          /\ UNCHANGED <<reg, owned>>
       \/ /\ reg' = [reg EXCEPT ![k][a] = [gen |-> pc[t].gen, platforms |-> pc[t].plat,
                                                      exts |-> {}]]
          /\ pc' = [pc EXCEPT ![t].op = next]
          /\ UNCHANGED <<live, owned, result, failures>>

(* set_instance_enabled_extensions (set_device_enabled_extensions) on the  *)
(* data just associated stores the names recorded; on failure              *)
(* disassociate, destroy and return.                                       *)
RecordExtensions(t, k, recorded) ==
    LET a == pc[t].h
    IN /\ reg[k][a].gen = pc[t].gen       \* get(*pInstance) finds the data
       /\ \/ /\ Fail
             /\ reg' = [reg EXCEPT ![k][a] = NoEntry]
             /\ live' = [live EXCEPT ![k] = @ \ {a}]
             /\ Return(t, "ERROR")
             /\ UNCHANGED owned
          \/ /\ reg' = [reg EXCEPT ![k][a].exts = ToSet(recorded)]
             /\ owned' = [owned EXCEPT ![k] = @ \cup
                            {[h |-> a, gen |-> pc[t].gen, parent |-> pc[t].parent,
                              app |-> pc[t].app]}]
             /\ Return(t, "SUCCESS")
             /\ UNCHANGED <<live, failures>>

CIAssociate(t) == pc[t].op = "ciAssociate" /\ Associate(t, "instance", "ciSetExts")
(* Mutant: the instance records the modified list, as create_device does. *)
CISetExtsModifiedList(t) == pc[t].op = "ciSetExts" /\ RecordExtensions(t, "instance", pc[t].list)

(* create_instance records pCreateInfo's names, the application's own.    *)
CISetExts(t) == pc[t].op = "ciSetExts" /\ RecordExtensions(t, "instance", pc[t].app)

-----------------------------------------------------------------------------
(***************************************************************************)
(* create_device, on a physical device of an instance the application     *)
(* holds; instance_private_data::get gives the platforms it enabled.       *)
(***************************************************************************)
CreateDevice(t) ==
    /\ pc[t] = Idle
    /\ \E p \in owned["instance"], app \in AppDeviceExts :
          /\ reg["instance"][p.h].gen = p.gen
          /\ LET plat == reg["instance"][p.h].platforms
             IN CreateDownstream(t, "device", "cdAssociate", p.h, plat, app,
                                 DeviceExtensions(app, plat))

CDAssociate(t) == pc[t].op = "cdAssociate" /\ Associate(t, "device", "cdSetExts")
(* create_device records modified_info's names, the layer's included.    *)
CDSetExts(t) == pc[t].op = "cdSetExts" /\ RecordExtensions(t, "device", pc[t].list)

-----------------------------------------------------------------------------
(***************************************************************************)
(* wsi_layer_vkDestroyInstance and wsi_layer_vkDestroyDevice: read the     *)
(* next layer's destroy function from the private data, then the two      *)
(* registry and driver steps in the order below.                           *)
(***************************************************************************)
DestroyInstanceOrderSwapped == <<"destroy", "disassociate">>
DestroyInstanceOrder == <<"disassociate", "destroy">>
DestroyDeviceOrder == <<"disassociate", "destroy">>

(* The application destroys a handle it holds; an instance only once its  *)
(* devices and surfaces are gone and no vkCreateDevice on it is in        *)
(* progress (valid usage).                                                 *)
DestroyBegin(t, k, op) ==
    /\ pc[t] = Idle
    /\ \E o \in owned[k] :
          /\ reg[k][o.h].gen = o.gen          \* get(instance).disp
          /\ k = "instance" =>
                /\ \A d \in owned["device"] \cup owned["surface"] : d.parent # o.h
                /\ \A u \in Thread : pc[u].parent # o.h
          /\ owned' = [owned EXCEPT ![k] = @ \ {o}]
          /\ pc' = [pc EXCEPT ![t] = [Idle EXCEPT !.op = op, !.h = o.h, !.gen = o.gen,
                                                 !.parent = o.parent, !.k = 1]]
    /\ UNCHANGED <<live, reg, result, failures>>

DestroyStep(t, k, order) ==
    LET a == pc[t].h
    IN /\ IF order[pc[t].k] = "disassociate"
          THEN reg' = [reg EXCEPT ![k][a] = NoEntry] /\ UNCHANGED live
          ELSE live' = [live EXCEPT ![k] = @ \ {a}] /\ UNCHANGED reg
       /\ IF pc[t].k = Len(order) THEN Return(t, "SUCCESS")
          ELSE pc' = [pc EXCEPT ![t].k = @ + 1] /\ UNCHANGED result
       /\ UNCHANGED <<owned, failures>>

DestroyInstance(t) == DestroyBegin(t, "instance", "diStep")
DIStep(t) == pc[t].op = "diStep" /\ DestroyStep(t, "instance", DestroyInstanceOrder)
DestroyDevice(t) == DestroyBegin(t, "device", "ddStep")
DDStep(t) == pc[t].op = "ddStep" /\ DestroyStep(t, "device", DestroyDeviceOrder)

-----------------------------------------------------------------------------
(***************************************************************************)
(* vkGetInstanceProcAddr and vkGetDeviceProcAddr on a handle the           *)
(* application holds: one read of its private data.                        *)
(***************************************************************************)
GetInstanceProcAddr(t) ==
    /\ pc[t] = Idle
    /\ \E o \in owned["instance"], fn \in InstanceQueries :
          result' = [result EXCEPT ![t] =
                       [NoResult EXCEPT !.k = "instance", !.fn = fn, !.app = o.app,
                                        !.layer = InstanceProcAddr(fn, reg["instance"][o.h].exts)]]

GetDeviceProcAddr(t) ==
    /\ pc[t] = Idle
    /\ \E o \in owned["device"], fn \in DeviceQueries :
          result' = [result EXCEPT ![t] =
                       [NoResult EXCEPT !.k = "device", !.fn = fn, !.app = o.app,
                                        !.layer = DeviceProcAddr(fn, reg["device"][o.h].exts)]]

-----------------------------------------------------------------------------
(***************************************************************************)
(* vkCreateHeadlessSurfaceEXT (src/wsi/headless/surface_properties.cpp)   *)
(* and vkCreateDisplayPlaneSurfaceKHR (src/wsi/display/...), which the     *)
(* layer's vkGetInstanceProcAddr hands out for an instance that enabled    *)
(* the platform: the next layer creates the surface, and                    *)
(* instance_private_data::add_surface records the layer's wsi::surface for *)
(* it.  A call is one step: the surface is new to every other thread, and  *)
(* the instance cannot be destroyed during it (valid usage).                *)
(***************************************************************************)
SurfaceCaller(o, plat) ==
    reg["instance"][o.h].gen = o.gen /\ plat \in reg["instance"][o.h].platforms

(* The next layer created surface a; add_surface records the layer's      *)
(* wsi::surface for it and the call returns it.                             *)
AddSurface(t, o, a, g, plat) ==
    /\ live' = [live EXCEPT !["surface"] = @ \cup {a}]
    /\ reg' = [reg EXCEPT !["surface"][a] = [gen |-> g, platforms |-> {plat}, exts |-> {}]]
    /\ owned' = [owned EXCEPT !["surface"] = @ \cup
                   {[h |-> a, gen |-> g, parent |-> o.h, app |-> <<>>]}]
    /\ Return(t, "SUCCESS")
    /\ UNCHANGED failures

(* The wsi::surface is allocated first; then the next layer's call; when   *)
(* add_surface fails the new surface is destroyed.                          *)
CreateHeadlessSurfaceEXT(t) ==
    /\ pc[t] = Idle
    /\ \E o \in owned["instance"] :
          /\ SurfaceCaller(o, HeadlessExt)
          /\ \/ /\ Fail                      \* make_unique or the next layer fails
                /\ Return(t, "ERROR")
                /\ UNCHANGED <<live, reg, owned>>
             \/ \E a \in Addr \ live["surface"], g \in Gen \ InUse :
                   \/ /\ Fail                 \* add_surface fails; DestroySurfaceKHR
                      /\ Return(t, "ERROR")
                      /\ UNCHANGED <<live, reg, owned>>
                   \/ AddSurface(t, o, a, g, HeadlessExt)

(* The next layer's call comes first, the allocation of the wsi::surface   *)
(* after it: when that allocation fails the call returns                    *)
(* VK_ERROR_OUT_OF_HOST_MEMORY and the surface just created stays live in   *)
(* the next layer with no handle left to destroy it.                        *)
CreateDisplayPlaneSurfaceKHR(t) ==
    /\ pc[t] = Idle
    /\ \E o \in owned["instance"] :
          /\ SurfaceCaller(o, DisplayExt)
          /\ \/ /\ Fail                      \* the next layer fails
                /\ Return(t, "ERROR")
                /\ UNCHANGED <<live, reg, owned>>
             \/ \E a \in Addr \ live["surface"], g \in Gen \ InUse :
                   \/ /\ Fail                 \* make_unique fails
                      /\ live' = [live EXCEPT !["surface"] = @ \cup {a}]
                      /\ Return(t, "ERROR")
                      /\ UNCHANGED <<reg, owned>>
                   \/ /\ Fail                 \* add_surface fails; DestroySurfaceKHR
                      /\ Return(t, "ERROR")
                      /\ UNCHANGED <<live, reg, owned>>
                   \/ AddSurface(t, o, a, g, DisplayExt)

(* vkDestroySurfaceKHR on a surface the application holds: the layer      *)
(* drops its wsi::surface and the next layer destroys the surface.          *)
DestroySurfaceKHR(t) ==
    /\ pc[t] = Idle
    /\ \E s \in owned["surface"] :
          /\ owned' = [owned EXCEPT !["surface"] = @ \ {s}]
          /\ reg' = [reg EXCEPT !["surface"][s.h] = NoEntry]
          /\ live' = [live EXCEPT !["surface"] = @ \ {s.h}]
          /\ Return(t, "SUCCESS")
          /\ UNCHANGED failures

Call(t) ==
    \/ CreateInstance(t) \/ CIAssociate(t) \/ CISetExts(t)
    \/ CreateDevice(t) \/ CDAssociate(t) \/ CDSetExts(t)
    \/ DestroyInstance(t) \/ DIStep(t)
    \/ DestroyDevice(t) \/ DDStep(t)
    \/ CreateHeadlessSurfaceEXT(t) \/ CreateDisplayPlaneSurfaceKHR(t) \/ DestroySurfaceKHR(t)

Next ==
    \E t \in Thread :
        \/ Call(t)
        \/ /\ GetInstanceProcAddr(t) \/ GetDeviceProcAddr(t)
           /\ UNCHANGED <<live, reg, owned, pc, failures>>

Spec == Init /\ [][Next]_vars

-----------------------------------------------------------------------------
(***************************************************************************)
(* Properties.                                                             *)
(***************************************************************************)
HeldBy(k, a) ==
    \E t \in Thread : pc[t].op # "idle" /\ pc[t].h = a /\ (pc[t].op \in
        IF k = "instance" THEN {"ciAssociate", "ciSetExts", "diStep"}
                          ELSE {"cdAssociate", "cdSetExts", "ddStep"})

(* The registry agrees with the driver, whatever the interleaving of       *)
(* creations and destructions on other threads: every handle the           *)
(* application holds, and every creation past its associate, finds its own *)
(* private data (not that of an earlier object at the same address);       *)
(* an entry outlives its object only while a call still holds it; and     *)
(* every driver object is the application's or a call's.  This is what    *)
(* the destroy functions' order (disassociate, then destroy) and the       *)
(* clean-up on every error path of create_instance and create_device are   *)
(* for.  A surface the application holds has its wsi::surface and is live *)
(* in the next layer, and the layer keeps a wsi::surface only for a        *)
(* surface the application holds, whichever step of a surface creation     *)
(* failed.                                                                  *)
RegistryMatchesDriver ==
    /\ \A k \in Kind :
          /\ \A o \in owned[k] : reg[k][o.h].gen = o.gen
          /\ \A t \in Thread :
                pc[t].op \in {"ciSetExts", "cdSetExts"} /\ pc[t].h \in Addr
                /\ (pc[t].op = "ciSetExts") = (k = "instance")
                => reg[k][pc[t].h].gen = pc[t].gen
          /\ \A a \in Addr : reg[k][a] # NoEntry => a \in live[k] \/ HeldBy(k, a)
          /\ \A a \in live[k] : (\E o \in owned[k] : o.h = a) \/ HeldBy(k, a)
    /\ \A s \in owned["surface"] : reg["surface"][s.h].gen = s.gen /\ s.h \in live["surface"]
    /\ \A a \in Addr : reg["surface"][a] # NoEntry => \E s \in owned["surface"] : s.h = a

(* The extension list create_instance and create_device pass to the next  *)
(* layer holds every extension the application enabled and, when a         *)
(* platform is handled, every one the layer requires, and nothing else:    *)
(* extension_list::add appends after the existing entries.                  *)
DriverSeesRequestedExtensions ==
    \A t \in Thread :
        pc[t].op \in {"ciAssociate", "ciSetExts", "cdAssociate", "cdSetExts"} =>
            LET req == IF pc[t].plat = {} THEN <<>>
                       ELSE IF pc[t].op \in {"ciAssociate", "ciSetExts"}
                            THEN LayerInstanceExts ELSE LayerDeviceExts
            IN /\ ToSet(pc[t].list) = ToSet(pc[t].app) \cup ToSet(req)
               /\ Len(pc[t].list) = Len(pc[t].app) + Len(req)
(* What an application may call through the layer: an entry point of an  *)
(* extension is the layer's exactly when the application enabled that      *)
(* extension on that instance or device, whatever extensions the layer     *)
(* enabled downstream for itself.  This is why create_instance records the *)
(* application's names and not the modified list it passes down.          *)
RequiredExts(fn) ==
    CASE fn = "vkGetPhysicalDeviceFeatures2KHR" -> {Props2Ext}
      [] fn \in SurfaceFns -> {SurfaceExt}
      [] fn \in Surface2Fns -> {SurfaceExt, SurfaceCaps2Ext}
      [] fn \in SwapchainFns -> {SwapchainExt}
      [] OTHER -> {}

LayerEntryPoints(k) ==
    IF k = "instance"
    THEN InstanceGlobalFns \cup {"vkGetPhysicalDeviceFeatures2KHR"} \cup SurfaceFns \cup Surface2Fns
    ELSE SwapchainFns \cup DeviceCoreFns

ProcAddrFollowsAppExtensions ==
    \A t \in Thread :
        result[t].fn # "none" =>
            LET r == result[t]
            IN r.layer = (r.fn \in LayerEntryPoints(r.k) /\ RequiredExts(r.fn) \subseteq ToSet(r.app))

(* The display back end's queries, which an application reaches on an     *)
(* instance that enabled VK_KHR_display, answer the two-call enumeration  *)
(* right at every count and hand out only mode handles that                *)
(* vkGetDisplayPlaneCapabilitiesKHR accepts (DisplayContract).             *)
DisplayQueriesFollowContract ==
    \A o \in owned["instance"] :
        DisplayExt \in reg["instance"][o.h].platforms => DisplayContract

(* A device with VK_KHR_swapchain enabled creates swapchains, and every    *)
(* swapchain whose init succeeds finds, at each later lookup, the          *)
(* extensions its device and create info asked for: the ones              *)
(* queue_present and present_image require are never missing, whichever   *)
(* allocation of add_required_extensions failed (ExtensionContract).       *)
SwapchainExtensionsFollowDevice ==
    \A d \in owned["device"] :
        SwapchainExt \in reg["device"][d.h].exts => ExtensionContract
=============================================================================
