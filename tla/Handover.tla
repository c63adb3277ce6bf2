------------------------------ MODULE Handover ------------------------------
(***************************************************************************)
(* The last step of a boot: the machine as it is when the files are read,  *)
(* and the one of the two handovers that the entry asks for.  Of a Limine  *)
(* kernel's memory map, which needs machines of another grain, there is a  *)
(* behaviour of its own.                                                   *)
(***************************************************************************)
EXTENDS LimineKernel, LinuxHandover, LimineMap

VARIABLE kind   \* "limine", "map" or "linux"

vars == <<machine, limine, map, handover, kind>>

NoMachine == /\ firmware = [top |-> 0] /\ memory = <<>> /\ free = {} /\ outcome = "open"
NoLimine == kernel = [words |-> <<>>, segments |-> <<>>, modules |-> <<>>]
            /\ loaded = <<>> /\ modules = <<>> /\ root = None /\ identity = 0 /\ hhdm = 0
            /\ mapped = <<>>
NoMap == /\ phase = "none" /\ descriptors = <<>> /\ ranges = <<>> /\ counted = 0 /\ capacity = 0
         /\ allocations = 0 /\ index = 0 /\ cursor = 0 /\ entries = <<>>
NoLinux == linux = [handed |-> FALSE] /\ gop = {} /\ at = <<>> /\ boot_params = <<>> /\ video = {}

Init ==
    \/ kind = "limine" /\ LimineInit /\ NoMap /\ NoLinux
    \/ kind = "map" /\ MapInit /\ NoMachine /\ NoLimine /\ NoLinux
    \/ kind = "linux" /\ LinuxInit /\ NoLimine /\ NoMap

Next ==
    \/ kind = "limine" /\ LimineNext /\ UNCHANGED <<map, handover, kind>>
    \/ kind = "map" /\ MapNext /\ UNCHANGED <<machine, limine, handover, kind>>
    \/ kind = "linux" /\ LinuxNext /\ UNCHANGED <<limine, map, kind>>

Spec == Init /\ [][Next]_vars
=============================================================================
