\* Three boot orders, two images, one reset, one death of the process, one failure.
SPECIFICATION Spec
CONSTANTS
    Orders = {A, B, H}
    DefaultOrder = A
    InstallOrder = H
    Images = {I, J}
    NoOrder = NoOrder
    NoImage = NoImage
    BadPath = BadPath
    MaxResets = 1
    MaxCrashes = 1
    MaxFaults = 1
INVARIANTS TypeOK SessionFollowsMachine FrozenStorageStopsGuest BootOrderKept InstallStateIsDurable
