SPECIFICATION Spec
CONSTANTS
    Orders = {A, B, H}
    DefaultOrder = A
    InstallOrder = H
    Images = {I}
    NoOrder = NoOrder
    NoImage = NoImage
    BadPath = BadPath
    MaxResets = 0
    MaxCrashes = 0
    MaxFaults = 0
INVARIANT BootOrderRestored
