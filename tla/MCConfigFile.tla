--------------------------- MODULE MCConfigFile ----------------------------
(***************************************************************************)
(* Small files: up to two header lines and up to three entries.  The tidy  *)
(* ones are as the installer and r-boot-cli write them, the messy ones as  *)
(* a hand may: repeated and invalid settings, entries without an id or a   *)
(* title, two spellings of the kernel, an unknown kind, no kernel at all.  *)
(***************************************************************************)
EXTENDS ConfigFile

L(key, value) == [key |-> key, value |-> value]

MCU64 == {"0", "5", "9", "big"}
MCU32 == {"0", "5", "9"}
MCLoader == <<L("other", "#"), L("default", "p*"), L("timeout", "junk"), L("timeout", "9")>>
MCOther == <<[id |-> "pq", title |-> "pq", kind |-> "linux", kernel |-> "/k9",
              initrds |-> <<>>, options |-> "none", image |-> "none"]>>
NoSeq == <<>>
NoPrefix == [p \in {} |-> {}]
MCHasPrefix == [p \in {"p*"} |-> {"pq"}]

Seqs(S, n) == UNION {[1 .. m -> S] : m \in 0 .. n}
FilesOver(lines, blocks) == [header : Seqs(lines, 2), blocks : Seqs(blocks, 2)]

MessyLines == {L("other", "#"), L("default", "a"), L("timeout", "junk"), L("timeout", "big"),
               L("spinner", "text"), L("spinner", "junk"), L("logo", "false"), L("logo", "\"false\""),
               L("fastboot", "junk"), L("fastboot", "next-boot"), L("fastboot", "on")}
MessyBlocks == {
    <<L("id", "a"), L("linux", "/k1"), L("image", "junk"), L("other", ""), L("image", "linux")>>,
    <<L("title", "a"), L("kind", "limine"), L("kernel", "/k2")>>,
    <<L("id", "b"), L("kind", "bsd"), L("linux", "/k3")>>,
    <<L("title", "T"), L("linux", "/k1"), L("efi", "/k2"), L("id", "b"), L("initrd", "/i1")>>,
    <<L("id", "b"), L("title", "a")>> }
\* Every header with two of the entries, and every list of entries with one
\* of the headers: header and entries meet only in the default.
MessyFiles ==
    {f \in FilesOver(MessyLines, MessyBlocks) :
        \/ f.header = <<L("other", "#"), L("default", "a")>>
        \/ f.blocks = <<<<L("id", "b"), L("title", "a")>>,
                         <<L("title", "a"), L("kind", "limine"), L("kernel", "/k2")>>>>}

TidyLines == {L("default", "a"), L("timeout", "0"), L("spinner", "text"),
              L("logo", "false"), L("fastboot", "next-boot")}
TidyBlock(id) ==
    CASE id = "a" -> <<L("id", "a"), L("title", "A"), L("kind", "linux"), L("linux", "/k1"),
                       L("image", "nixos"), L("initrd", "/i1"), L("initrd", "/i2"), L("options", "o")>>
      [] id = "b" -> <<L("id", "b"), L("efi", "/k2")>>
      [] id = "c" -> <<L("id", "c"), L("title", "A"), L("linux", "/k1")>>
TidyBlocks == {TidyBlock(id) : id \in {"a", "b", "c"}}
NoneTwice(seq) == \A i, j \in DOMAIN seq : seq[i] = seq[j] => i = j
TidyFiles ==
    [header : {h \in Seqs(TidyLines, 2) : NoneTwice(h)},
     blocks : {<<TidyBlock("a"), TidyBlock("b")>>}]
      \cup [header : {<<L("default", "a")>>}, blocks : {b \in Seqs(TidyBlocks, 3) : NoneTwice(b)}]

\* The tidy ones are edited twice.
MCLives == [file : MessyFiles, edits : {1}] \cup [file : TidyFiles, edits : {2}]

\* The second entry of the README's example, with an id.
KernelLives == {[edits |-> 1, file |-> [header |-> <<L("timeout", "5")>>,
                 blocks |-> <<<<L("id", "a"), L("linux", "/k1")>>,
                              <<L("id", "b"), L("kind", "limine"), L("kernel", "/k2")>>>>]]}
============================================================================
