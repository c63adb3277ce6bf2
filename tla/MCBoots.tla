------------------------------ MODULE MCBoots ------------------------------
(***************************************************************************)
(* Two entries, one with an initrd of its own and one with three, and      *)
(* files without entries, which leave the fixed layout to boot; sets of    *)
(* boot files with some of either missing.                                 *)
(***************************************************************************)
EXTENDS Boots

Config(fast, mode, default, entries) ==
    [text |-> "ok", fastboot |-> fast, spinner |-> mode, default |-> default,
     entries |-> entries]

MCEntries == <<<<"k1", "i1">>, <<"k2", "i1", "i2", "i3">>>>
MCModules == <<"init", "console">>
MCOtherEntries == <<<<"k9">>>>

All == {"k1", "k2", "k9", "i1", "i2", "i3", "vmlinuz", "initramfs", "kernel.elf", "init"}
MCFiles == All \cup {"console", "loader", "cut"}
MCFileSets == {All \cup {"loader"}, All \ {"k2", "i1"}, All \ {"vmlinuz"}, All \ {"initramfs"}}

MCConfigs ==
    {Config(f, s, d, MCEntries) : f \in FastbootModes, s \in {"text", "graphical"}, d \in {1, 2}}
      \cup {Config(f, "graphical", 1, <<>>) : f \in {"off", "next-boot"}}
============================================================================
