---------------------------- MODULE MCLayerSetup ----------------------------
(* LayerSetup instantiated for TLC: two threads, two handle addresses, the *)
(* headless and the display platforms (each selected by its surface        *)
(* extension), and the display back end's queries over every display of   *)
(* at most two modes.                                                       *)
EXTENDS LayerSetup, TLC

CONSTANTS surf, headless, display, props2, caps2, fenceCaps, semCaps, memCaps, fenceFd, swapchain

MCLayerInstanceExts == <<props2, fenceCaps, semCaps, memCaps>>
MCLayerDeviceExts == <<fenceFd>>
MCAppInstanceExts == {<<>>, <<headless>>, <<surf, display>>, <<surf, headless, props2, caps2>>}
MCAppDeviceExts == {<<>>, <<swapchain>>}
MCInstanceQueries == {"vkGetPhysicalDeviceFeatures2KHR", "vkGetPhysicalDeviceSurfaceSupportKHR",
                      "vkGetPhysicalDeviceSurfaceCapabilities2KHR"}
MCDeviceQueries == {"vkCreateSwapchainKHR"}

Symmetry == Permutations(Thread) \cup Permutations(Addr) \cup Permutations(Gen)
=============================================================================
