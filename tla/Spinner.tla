------------------------------ MODULE Spinner ------------------------------
(***************************************************************************)
(* The progress indicator, spinner.rs: lines of text, or a ring of dots    *)
(* drawn into the middle of the framebuffer.  Its operations are conjoined *)
(* to the steps of the boot that call them.                                *)
(***************************************************************************)
EXTENDS Naturals

CONSTANTS
    Frames,   \* FRAMES.len(): characters of the text spinner
    Dots      \* DOTS.len(): dots of the ring

ASSUME SpinnerAssumption == Frames \in Nat \ {0} /\ Dots \in Nat \ {0}

Modes == {"off", "text", "graphical"}

VARIABLES
    spinner,   \* Spinner: [mode, index, position]; is last_position known?
    ring       \* on the screen: "none", one that was "drawn" since the program last
               \* erased it, or one that is "left" as the firmware did not let it

spinnerVars == <<spinner, ring>>

Rings == {"none", "drawn", "left"}
Spinners == [mode : Modes, index : Nat, position : BOOLEAN]

New(mode) == [mode |-> mode, index |-> 0, position |-> FALSE]

TextTick == spinner' = [spinner EXCEPT !.index = (@ + 1) % Frames]

\* screen: there is a graphics protocol, large enough, and the blit works.
Tick(screen) ==
    \/ spinner.mode = "off" /\ UNCHANGED spinnerVars
    \/ spinner.mode = "text" /\ TextTick /\ UNCHANGED ring
    \/ /\ spinner.mode = "graphical"
       /\ IF screen
          THEN /\ spinner' = [spinner EXCEPT !.index = (@ + 1) % Dots, !.position = TRUE]
               /\ ring' = "drawn"
          ELSE UNCHANGED spinnerVars

\* What may be on the screen after clear: the ring goes if its place is known,
\* there is a graphics protocol still and the blit works.
Cleared(s) == IF ring = "none" \/ s.mode = "text" \/ ~s.position THEN {ring} ELSE {"none", "left"}

\* tick's array access and tick_graphical's comparison: in range?
Drawable == spinner.index < (IF spinner.mode = "text" THEN Frames ELSE Dots)
=============================================================================
