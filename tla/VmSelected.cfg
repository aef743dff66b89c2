SPECIFICATION Spec
CONSTANTS
    Orders = {A, B, H}
    DefaultOrder = A
    InstallOrder = H
    Images = {I, J}
    NoOrder = NoOrder
    NoImage = NoImage
    BadPath = BadPath
    MaxResets = 1
    MaxCrashes = 0
    MaxFaults = 0
INVARIANT StartOpensSelectedImage
