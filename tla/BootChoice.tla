---------------------------- MODULE BootChoice -----------------------------
(***************************************************************************)
(* What the boot menu promises whoever stands before it: one entry is      *)
(* marked, and an entry that is booted is the one marked at that moment.   *)
(***************************************************************************)
EXTENDS Integers

CONSTANT Entries  \* the entries of the menu

VARIABLES
    marked,       \* the entry that looks selected
    outcome       \* "open", "boot", or how else the menu was left

\* With a timeout of 0 nobody sees a menu, and the default boots.
Init == marked \in Entries /\ outcome \in {"open", "boot"}

Mark(e) == outcome = "open" /\ marked' = e /\ UNCHANGED outcome

Boot == outcome = "open" /\ outcome' = "boot" /\ UNCHANGED marked

\* A reset, another boot loader, or an error that ends r-boot.
Leave(how) == outcome = "open" /\ outcome' = how /\ UNCHANGED marked

Next ==
    \/ \E e \in Entries : Mark(e)
    \/ Boot
    \/ \E how \in {"reset", "chain", "error"} : Leave(how)

Spec == Init /\ [][Next]_<<marked, outcome>>
============================================================================
