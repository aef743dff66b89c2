\* The system VM and two DOS boxes.
SPECIFICATION Spec
CONSTANTS
    DosVMs = {d1, d2}
    Windows = W
    NoVM = NoVM
INVARIANTS VgaAuthorityNeedsVga BackgroundIsShutOut OwnerIsServed
