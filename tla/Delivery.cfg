SPECIFICATION MCSpec
CONSTANTS
    Services = {"a", "b"}
    Taps <- TapEachOther
    Bundles <- Both
    O2_MAX_TAP_FORWARDING = 3
    MaxSends = 3
    MaxSpecial = 1
INVARIANTS OwnedOnce InSendingOrder BlocksIntact OscIntact
PROPERTY Settles
