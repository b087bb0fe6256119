CONSTANTS
    Thread = {t1, t2}
    Addr = {a1, a2}
    Gen = {g1, g2, g3}
    surf = surf
    headless = headless
    display = display
    props2 = props2
    caps2 = caps2
    fenceCaps = fenceCaps
    semCaps = semCaps
    memCaps = memCaps
    fenceFd = fenceFd
    swapchain = swapchain
    SurfaceExt = surf
    PlatformExts = {headless, display}
    HeadlessExt = headless
    DisplayExt = display
    LayerInstanceExts <- MCLayerInstanceExts
    LayerDeviceExts <- MCLayerDeviceExts
    AppInstanceExts <- MCAppInstanceExts
    AppDeviceExts <- MCAppDeviceExts
    Props2Ext = props2
    SurfaceCaps2Ext = caps2
    SwapchainExt = swapchain
    InstanceQueries <- MCInstanceQueries
    DeviceQueries <- MCDeviceQueries
    MaxFailures = 1
    ModeWidths = {0, 1, 2}
    ModeHeights = {0, 1}
    RefreshRates = {0, 1}
    MaxModes = 2
    MaxCount = 3
    Null = Null
    Modes = {"FIFO", "FIFO_RELAXED", "SHARED_DEMAND"}
    Garbage = Garbage
    MaxModeList = 2
    NoList = NoList
    NoSwitch = NoSwitch
    Experimental = TRUE
SYMMETRY Symmetry
SPECIFICATION Spec
INVARIANT TypeOK
INVARIANT RegistryMatchesDriver
INVARIANT DriverSeesRequestedExtensions
INVARIANT ProcAddrFollowsAppExtensions
INVARIANT DisplayQueriesFollowContract
INVARIANT SwapchainExtensionsFollowDevice
