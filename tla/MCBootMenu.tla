---------------------------- MODULE MCBootMenu -----------------------------
(***************************************************************************)
(* Three entries on pages of two (the last page is short, and Up, Down,    *)
(* Left and Right all cross a page boundary), two seconds, two spinner     *)
(* modes, two visits to the configuration screen.  The last entry is       *)
(* another loader's, with the id of the first.                             *)
(***************************************************************************)
EXTENDS BootMenu

TwoModes == {"off", "graphical"}
TwoCycle == [off |-> "graphical", graphical |-> "off"]

MCIdOf == [e \in 0 .. NumEntries - 1 |-> e % 2]
MCInitialImages == [e \in 0 .. NumEntries - 1 |-> IF e = 0 THEN "nixos" ELSE "none"]
============================================================================
