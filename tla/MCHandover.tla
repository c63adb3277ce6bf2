---------------------------- MODULE MCHandover ------------------------------
(***************************************************************************)
(* Pages of three words, so tables of three entries, gigabytes of nine     *)
(* pages, and two of them for the four below 4 GiB.  The larger machines   *)
(* have memory above that and a framebuffer behind it, in the last         *)
(* gigabyte begun or not; the smaller ones end inside the second gigabyte  *)
(* and have not always enough.                                             *)
(***************************************************************************)
EXTENDS Handover

Pages(ps) == UNION {PagesOf(p * PageWords, 1) : p \in ps}
F(top, used, upward, display) ==
    [top |-> top * PageWords, used |-> Pages(used), upward |-> upward, display |-> display]
LimineSmall == {F(17, {0}, u, d) : u \in BOOLEAN, d \in {17 * PageWords, None}}
LimineLarge == {F(25, {0} \cup 3 .. 10, TRUE, 26 * PageWords), F(25, {0} \cup 3 .. 10, FALSE, 28 * PageWords)}
MCLimineMachines == LimineSmall \cup LimineLarge
Low  == {F(9, {0, 4}, TRUE, None)}
High == {F(22, {0, 4} \cup 6 .. 18, TRUE, None)}   \* room on both sides of 4 GiB
MCLinuxMachines == Low \cup High

S(page, offset, file, size, w, x) ==
    [page |-> page, aligned |-> TRUE, offset |-> offset, file |-> file, size |-> size,
     write |-> w, exec |-> x]
Text == S(54, 3, 3, 3, FALSE, TRUE)
Data == S(55, 6, 7, 8, TRUE, FALSE)   \* over the end of a table, and of a page
Bss  == S(63, 0, 0, 4, TRUE, FALSE)
Beside == S(45, 3, 4, 5, TRUE, TRUE)  \* under the same top entry as the window

Code == <<"elf", "code", "code", "base", "rev", "code">>
Requests == <<"common", "hhdm", "null", "common", "other", "null", "common">>
K(words, segments, ms) ==
    [words |-> words, segments |-> segments,
     modules |-> [m \in DOMAIN ms |-> [name |-> IF m = 1 THEN "init" ELSE "console", words |-> ms[m]]]]
Good == { K(Code \o Requests, <<Text, Data>>, <<>>),
          K(Code \o <<"common", "framebuffer", "null">>, <<Beside, S(72, 6, 3, 3, TRUE, FALSE)>>, <<>>),
          K(Code, <<Text, Bss>>, <<4>>),
          K(Code, <<Text>>, <<3, 2>>) }
Refused == { K(Code, <<>>, <<>>),
             K(Code, <<S(54, 3, 3, 2, TRUE, TRUE)>>, <<>>),     \* more in the file
             K(Code, <<S(54, 3, 4, 4, TRUE, TRUE)>>, <<>>),     \* beyond the file
             K(Code, <<S(18, 3, 3, 3, TRUE, TRUE)>>, <<>>),     \* lower half
             K(Code, <<S(54, 2, 3, 3, TRUE, TRUE)>>, <<>>),     \* unaligned
             K(Code, <<[Text EXCEPT !.aligned = FALSE]>>, <<>>),
             K(Code, <<Text, S(72, 3, 0, 0, TRUE, TRUE)>>, <<>>),   \* empty
             K(Code, <<Text>>, <<0>>),                              \* empty module
             K(<<"common", "hhdm", "null">> \o Code, <<Text>>, <<>>) }   \* not loaded
MCKernels == Good \cup Refused

Masks == [c \in Colors |-> CASE c = "red" -> 20 .. 29 [] c = "green" -> 10 .. 19
                             [] c = "blue" -> 0 .. 9 [] c = "reserved" -> {}]
Screen(format, base) == [format |-> format, masks |-> Masks, base |-> base, stride |-> 4]
MCScreens == {{}, {Screen("rgb", 17)}, {Screen("bitmask", 60)}, {Screen("blt", 0)}}

L(initrd, options) ==
    [length |-> 6, image |-> 4, valid |-> TRUE, setup_sects |-> 1, handover_offset |-> 1,
     ramdisk_image |-> 0, initrd |-> initrd, options |-> options, nul |-> FALSE]
MCLinuxes ==
    {L(i, o) : i \in {0, 3, 4}, o \in {None, 0, 2, 3}} \cup
    {[L(3, 2) EXCEPT !.valid = FALSE], [L(3, 2) EXCEPT !.handover_offset = 0],
     [L(3, 2) EXCEPT !.setup_sects = 0], [L(3, 2) EXCEPT !.length = 2], [L(3, 2) EXCEPT !.nul = TRUE],
     L(54, 2)}

(***************************************************************************)
(* For the map sixteen addresses, pages of two, descriptors with and       *)
(* without a gap and some that end where addresses do; up to two ranges,   *)
(* anywhere but on top of each other.  Two allocations can use up more     *)
(* entries than there are to spare, one cannot.                            *)
(***************************************************************************)
D(start, pages, type) == [start |-> start, pages |-> pages, type |-> type]
Layouts == {
    <<D(0, 2, "conventional"), D(4, 2, "other"), D(10, 2, "acpi_reclaim")>>,
    <<D(2, 4, "conventional"), D(12, 2, "boot_services")>>,
    <<D(0, 4, "other"), D(8, 3, "conventional")>> }

Intervals == [base : 0 .. 14, length : {1, 3, 4}, kind : {6}] \cup [base : {5, 14}, length : {2}, kind : {7}]
Apart(r, s) == r.base + r.length <= s.base \/ s.base + s.length <= r.base
RangeLists == {<<>>} \cup {<<r>> : r \in Intervals}
                \cup {rs \in Intervals \X Intervals : Apart(rs[1], rs[2])}

MCMachines == [descriptors : Layouts, ranges : RangeLists]
=============================================================================
