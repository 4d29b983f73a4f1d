CONSTANTS
    None = None
    dev = dev
    f1 = f1
    f2 = f2
    f3 = f3
    f4 = f4
    lin = lin
    t1 = t1
    t2 = t2
    inv = inv
    Devices = {dev}
    Fourccs <- MCFourccs
    KnownFourccs <- MCKnown
    Modifiers <- MCModifiers
    VkFourccs <- MCVk
    Linear = lin
    Invalid = inv
    Capabilities <- MCCapabilities
    Feedbacks <- MCFeedbacks
    Versions = {4, 5}
    MaxFaults = 1
    MaxLate = 1
SPECIFICATION Spec
INVARIANTS
    StartupTypeOK
    AdvertisesInTrancheOrder
    WholeFeedbackNegotiated
    NegotiatesBestOffer
    LoopStartsReady
PROPERTIES
    StartupEnds
    WindowRequested
