----------------------------- MODULE DurableDisk -----------------------------
(***************************************************************************)
(* What a FAT32 Machine session promises the machine: a disk whose owner   *)
(* may disappear at any moment.  A write that was acknowledged is there    *)
(* when the disk comes back; a write that was still unanswered is there or *)
(* is not, and coming back settles which.                                  *)
(***************************************************************************)
CONSTANTS Blocks, Contents, Initial

VARIABLES
    up,        \* the disk can be read and written
    disk,      \* what a read returns
    possible   \* what a block may hold when the disk comes back

dvars == <<up, disk, possible>>

DInit ==
    /\ up = FALSE
    /\ disk = [b \in Blocks |-> Initial]
    /\ possible = [b \in Blocks |-> {Initial}]

\* A write is received, takes effect, is acknowledged.
Receive(b, x) ==
    /\ up
    /\ possible' = [possible EXCEPT ![b] = @ \cup {x}]
    /\ UNCHANGED <<up, disk>>
Effect(b, x) ==
    /\ up /\ x \in possible[b]
    /\ disk' = [disk EXCEPT ![b] = x]
    /\ UNCHANGED <<up, possible>>
Acknowledge(b) ==
    /\ up
    /\ possible' = [possible EXCEPT ![b] = {disk[b]}]
    /\ UNCHANGED <<up, disk>>
\* The last two in one step.
Complete(b, x) ==
    /\ up /\ x \in possible[b]
    /\ disk' = [disk EXCEPT ![b] = x]
    /\ possible' = [possible EXCEPT ![b] = {x}]
    /\ up' = up

Down ==
    /\ up
    /\ up' = FALSE
    /\ UNCHANGED possible
    /\ disk' = [b \in Blocks |-> Initial]

Return ==
    /\ ~up
    /\ up' = TRUE
    /\ disk' \in [Blocks -> Contents]
    /\ \A b \in Blocks : disk'[b] \in possible[b]
    /\ possible' = [b \in Blocks |-> {disk'[b]}]

DNext ==
    \/ \E b \in Blocks, x \in Contents :
          Receive(b, x) \/ Effect(b, x) \/ Complete(b, x)
    \/ \E b \in Blocks : Acknowledge(b)
    \/ Down
    \/ Return

DSpec == DInit /\ [][DNext]_dvars
=============================================================================
