------------------------------ MODULE Machine -------------------------------
(***************************************************************************)
(* Physical memory while r-boot hands a kernel over: what it holds, word   *)
(* by word, and which pages the firmware has left to give away.  Addresses *)
(* count words of eight bytes; sizes are scaled down, not their relations. *)
(***************************************************************************)
EXTENDS Integers, Sequences

CONSTANTS
    PageWords,   \* words in a page, and so entries in a page table
    FourGiB      \* the first address that does not fit 32 bits

ASSUME SizeAssumption == PageWords \in Nat \ {0} /\ FourGiB \in Nat

None == -1
Zero == [is |-> "zero"]
Junk == [is |-> "junk"]     \* what was there before
\* The word at an offset of a file read from the ESP.
FileWord(file, offset) == [is |-> "file", of |-> file, at |-> offset]

Words(address, n) == {a \in address .. address + n : a < address + n}
PagesOf(address, n) == Words(address, n * PageWords)

VARIABLES
    firmware,  \* the machine: [top, used, upward, display], the first address
               \* behind memory, what is not free in it, whether single pages
               \* are taken from below, and the framebuffer or None
    memory,    \* address -> word
    free,      \* addresses EFI_CONVENTIONAL_MEMORY
    outcome    \* "open" while r-boot works, then "kernel" or "error"

machine == <<firmware, memory, free, outcome>>

PowerOn(machines) ==
    /\ firmware \in machines
    /\ memory = [a \in Words(0, firmware.top) |-> Junk]
    /\ free = Words(0, firmware.top) \ firmware.used
    /\ outcome = "open"

Aligned(address) == address % PageWords = 0

\* Where AllocatePages may find n pages below a limit.
Places(available, n, limit) ==
    {a \in available : Aligned(a) /\ a + n * PageWords <= limit
                       /\ PagesOf(a, n) \subseteq available}

\* write_bytes(.., 0, ..) and copy_nonoverlapping.
Zeroed(m, address, n) == [a \in DOMAIN m |-> IF a \in Words(address, n) THEN Zero ELSE m[a]]
Copied(m, address, file, offset, n) ==
    [a \in DOMAIN m |->
        IF a \in Words(address, n) THEN FileWord(file, offset + (a - address)) ELSE m[a]]

\* Mutant: rounded down.
FullPages(words) == words \div PageWords

\* Pages for so many words.
PageCount(words) == (words + PageWords - 1) \div PageWords

Fail == outcome' = "error" /\ UNCHANGED <<firmware, memory, free>>

\* What r-boot was not given it leaves alone.
OthersUntouched == \A a \in DOMAIN memory : a \in free \cup firmware.used => memory[a] = Junk
=============================================================================
