-------------------------- MODULE DisplayProperties --------------------------
(***************************************************************************)
(* The DRM display back end's instance-level queries                       *)
(* (src/wsi/display/surface_properties.cpp): the enumerations              *)
(* vkGetPhysicalDeviceDisplayPropertiesKHR,                                *)
(* vkGetPhysicalDeviceDisplayPlanePropertiesKHR,                           *)
(* vkGetDisplayPlaneSupportedDisplaysKHR and vkGetDisplayModePropertiesKHR, *)
(* and vkCreateDisplayModeKHR and vkGetDisplayPlaneCapabilitiesKHR, which   *)
(* take the mode handles the first hand out.                               *)
(*                                                                         *)
(* None of them changes state: each reads drm_display::get_display(), the  *)
(* optional display the layer opened once, and its array of modes.  They   *)
(* are operators of that display and of the application's arguments, and  *)
(* DisplayQueriesFollowContract checks them against the reference          *)
(* definition of the two-call enumeration over every display and argument  *)
(* in the bounds.                                                          *)
(***************************************************************************)
EXTENDS Naturals, Sequences, SequencesExt

CONSTANTS
    ModeWidths,     \* visibleRegion.width of a display mode or request
    ModeHeights,    \* visibleRegion.height
    RefreshRates,   \* refreshRate
    MaxModes,       \* bound on the display's number of modes
    MaxCount,       \* bound on the *pPropertyCount the application passes
    Null            \* a null pProperties (pDisplays): the call only reports the count

DisplayHandle == "display"   \* &display.value()

ModeParams == [w : ModeWidths, h : ModeHeights, r : RefreshRates]
DisplayModes == {m \in ModeParams : m.w # 0 /\ m.h # 0 /\ m.r # 0}

(* The display as get_display() returns it: absent, or present with its  *)
(* array of modes (a mode handle is the index of its drm_display_mode).    *)
Displays ==
    [present : {FALSE}, modes : {<<>>}]
    \cup [present : {TRUE}, modes : BoundedSeq(DisplayModes, MaxModes) \ {<<>>}]

(* What the application passes as pProperties and *pPropertyCount.         *)
Caps == {Null} \cup 0..MaxCount

Reply(res, count, out) == [res |-> res, count |-> count, out |-> out]

(* The count the call leaves in *pPropertyCount when it does not write it. *)
CountIn(cap) == IF cap = Null THEN 0 ELSE cap

MinOf(a, b) == IF a < b THEN a ELSE b

-----------------------------------------------------------------------------
(* Mutant: VK_INCOMPLETE also when every mode was written.                 *)
GetDisplayModePropertiesKHRIncompleteLE(dpy, cap) ==
    LET num == Len(dpy.modes)
    IN IF cap = Null THEN Reply("SUCCESS", num, <<>>)
       ELSE LET n == MinOf(cap, num)
            IN Reply(IF n <= num THEN "INCOMPLETE" ELSE "SUCCESS", n,
                     [i \in 1..n |-> [mode |-> i, params |-> dpy.modes[i]]])

(* GetDisplayModePropertiesKHR: the number of modes, or the first          *)
(* min(pPropertyCount, num_modes) of them, VK_INCOMPLETE when fewer than  *)
(* all were written.                                                        *)
GetDisplayModePropertiesKHR(dpy, cap) ==
    LET num == Len(dpy.modes)
    IN IF cap = Null THEN Reply("SUCCESS", num, <<>>)
       ELSE LET n == MinOf(cap, num)
            IN Reply(IF n < num THEN "INCOMPLETE" ELSE "SUCCESS", n,
                     [i \in 1..n |-> [mode |-> i, params |-> dpy.modes[i]]])

(* GetDisplayPlaneSupportedDisplaysKHR and                                  *)
(* GetPhysicalDeviceDisplayPlanePropertiesKHR: one plane showing the one    *)
(* display; without a display both fail.                                    *)
GetDisplayPlaneSupportedDisplaysKHR(dpy, cap) ==
    CASE ~dpy.present -> Reply("OUT_OF_HOST_MEMORY", CountIn(cap), <<>>)
      [] cap = Null   -> Reply("SUCCESS", 1, <<>>)
      [] cap = 0      -> Reply("INCOMPLETE", 0, <<>>)
      [] OTHER        -> Reply("SUCCESS", 1, <<DisplayHandle>>)

GetPhysicalDeviceDisplayPlanePropertiesKHR(dpy, cap) ==
    CASE ~dpy.present -> Reply("OUT_OF_HOST_MEMORY", CountIn(cap), <<>>)
      [] cap = Null   -> Reply("SUCCESS", 1, <<>>)
      [] cap = 0      -> Reply("INCOMPLETE", 0, <<>>)
      [] OTHER        -> Reply("SUCCESS", 1, <<[currentDisplay |-> DisplayHandle,
                                                currentStackIndex |-> 0]>>)

(* GetPhysicalDeviceDisplayPropertiesKHR: no display is zero displays.    *)
GetPhysicalDeviceDisplayPropertiesKHR(dpy, cap) ==
    CASE ~dpy.present -> Reply("SUCCESS", 0, <<>>)
      [] cap = Null   -> Reply("SUCCESS", 1, <<>>)
      [] cap = 0      -> Reply("INCOMPLETE", 0, <<>>)
      [] OTHER        -> Reply("SUCCESS", 1, <<DisplayHandle>>)

(* CreateDisplayModeKHR does not create a mode: it returns the first of   *)
(* the display's modes with the requested parameters.                       *)
CreateDisplayModeKHR(dpy, p) ==
    LET i == SelectInSeq(dpy.modes, LAMBDA m : m = p)
    IN IF p.w = 0 \/ p.h = 0 \/ p.r = 0 \/ i = 0
       THEN [res |-> "INITIALIZATION_FAILED", mode |-> 0]
       ELSE [res |-> "SUCCESS", mode |-> i]

(* GetDisplayPlaneCapabilitiesKHR: asserts that the mode is one of the     *)
(* display's (by parameters) and reports its extent as the source and      *)
(* destination limits.                                                      *)
GetDisplayPlaneCapabilitiesKHR(dpy, mode) ==
    IF ~dpy.present
    THEN [res |-> "OUT_OF_HOST_MEMORY", assertOk |-> TRUE, maxSrc |-> <<0, 0>>,
          minDst |-> <<0, 0>>, maxDst |-> <<0, 0>>]
    ELSE LET m == dpy.modes[mode]
         IN [res |-> "SUCCESS",
             assertOk |-> \E j \in 1..Len(dpy.modes) : dpy.modes[j] = m,
             maxSrc |-> <<m.w, m.h>>, minDst |-> <<m.w, m.h>>, maxDst |-> <<m.w, m.h>>]

-----------------------------------------------------------------------------
(* The reference: the two-call enumeration of the Vulkan specification    *)
(* over the list avail of what there is to enumerate.                       *)
Enumerates(reply, avail, cap) ==
    IF cap = Null
    THEN reply.res = "SUCCESS" /\ reply.count = Len(avail)
    ELSE LET n == MinOf(cap, Len(avail))
         IN /\ reply.count = n
            /\ reply.out = SubSeq(avail, 1, n)
            /\ reply.res = IF n < Len(avail) THEN "INCOMPLETE" ELSE "SUCCESS"

(* Every display query answers the two-call enumeration right at every    *)
(* count, 0 and exactly-enough included (the boundaries of the             *)
(* std::min / VK_INCOMPLETE code of each function); no display is an empty *)
(* display list; and every mode handle the application can obtain, from    *)
(* vkGetDisplayModePropertiesKHR or from vkCreateDisplayModeKHR, passes     *)
(* vkGetDisplayPlaneCapabilitiesKHR's assertion and yields its own extent. *)
(* vkCreateDisplayModeKHR succeeds exactly for the parameters of an        *)
(* existing mode.  A constant: TLC evaluates it once.                      *)
DisplayContract ==
    \A dpy \in Displays, cap \in Caps :
        LET modes == [i \in 1..Len(dpy.modes) |-> [mode |-> i, params |-> dpy.modes[i]]]
            handles == {e.mode : e \in ToSet(GetDisplayModePropertiesKHR(dpy, cap).out)}
                       \cup {CreateDisplayModeKHR(dpy, p).mode :
                                p \in {q \in ModeParams : CreateDisplayModeKHR(dpy, q).res = "SUCCESS"}}
        IN /\ dpy.present =>
                 /\ Enumerates(GetDisplayModePropertiesKHR(dpy, cap), modes, cap)
                 /\ Enumerates(GetPhysicalDeviceDisplayPropertiesKHR(dpy, cap), <<DisplayHandle>>, cap)
                 /\ Enumerates(GetDisplayPlaneSupportedDisplaysKHR(dpy, cap), <<DisplayHandle>>, cap)
                 /\ Enumerates(GetPhysicalDeviceDisplayPlanePropertiesKHR(dpy, cap),
                               <<[currentDisplay |-> DisplayHandle, currentStackIndex |-> 0]>>, cap)
                 /\ \A h \in handles :
                       LET c == GetDisplayPlaneCapabilitiesKHR(dpy, h)
                       IN c.assertOk /\ c.maxSrc = <<dpy.modes[h].w, dpy.modes[h].h>>
                          /\ c.minDst = c.maxSrc /\ c.maxDst = c.maxSrc
                 /\ \A p \in ModeParams :
                       (CreateDisplayModeKHR(dpy, p).res = "SUCCESS") = (p \in ToSet(dpy.modes))
           /\ ~dpy.present =>
                 Enumerates(GetPhysicalDeviceDisplayPropertiesKHR(dpy, cap), <<>>, cap)
=============================================================================
