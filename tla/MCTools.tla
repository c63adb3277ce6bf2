------------------------------ MODULE MCTools -------------------------------
(***************************************************************************)
(* A tree in which names are prefixes of each other, a directory shares    *)
(* its name with a file elsewhere, and two names have a common beginning;  *)
(* lines of any five characters, and longer ones by completion.  Three     *)
(* volumes and two known bootloaders besides the fallback.  Three key      *)
(* pairs: one enrolled, one installed and one newly made can all differ.   *)
(***************************************************************************)
EXTENDS Tools, TLC

CONSTANTS p1, p2, p3

MCPairs == {p1, p2, p3}
AnyPair == Permutations(MCPairs)

MCDirs == {<<>>, << <<"a">> >>, << <<"a", "b">> >>, << <<"a">>, <<"b">> >>}
MCFiles == {<< <<"a">>, <<"a", "b">> >>, << <<"a", "b">>, <<"a", "a">> >>, << <<"b">> >>}
MCTyped == {"c", "l", "a", "b", "/", ".", " "}
MCCd == <<"c">>
MCLs == <<"l">>
MCQuits == {<<"b">>}
MCOthers == {<<"l", "b">>}

MCKnown == <<"ubuntu", "grub", "boot">>
MCTitles == [ubuntu |-> "Ubuntu", grub |-> "Ubuntu (GRUB)", boot |-> "Fallback bootloader"]
MCVolumes == <<"disk", "esp", "stick">>
On(disk, esp, stick) == [disk |-> disk, esp |-> esp, stick |-> stick]
MCContents ==
    { On({}, {}, {}), On({"ubuntu"}, {}, {"boot"}), On({"ubuntu", "grub"}, {"ubuntu"}, {}),
      On({"boot"}, {"grub"}, {"ubuntu", "boot"}) }
=============================================================================
