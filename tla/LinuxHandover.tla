--------------------------- MODULE LinuxHandover ----------------------------
(***************************************************************************)
(* linux::handover: the firmware loads the kernel's image, three blocks of *)
(* memory are allocated, boot_params is filled in, and the image's 64-bit  *)
(* entry is called.  Addresses have 64 bits and most fields for them 32:   *)
(* what is stored there is the address modulo FourGiB.                     *)
(***************************************************************************)
EXTENDS Machine

CONSTANTS
    LinuxMachines,   \* what firmware may be
    Linuxes,         \* kernels and what they are booted with, see LinuxType
    Screens,         \* sets of at most one framebuffer, see ScreenType
    SectorWords,     \* words in a sector, and in 0x200 bytes
    DefaultOptions   \* words of the options if an entry has none

LinuxType == [length : Nat,         \* of the file
              image : Nat \ {0},    \* of the image once loaded
              valid : BOOLEAN,      \* magic, version and XLF_EFI_HANDOVER_64
              setup_sects : Nat, handover_offset : Nat, ramdisk_image : Nat,
              initrd : Nat, options : Nat \cup {None}, nul : BOOLEAN]
Colors == {"red", "green", "blue", "reserved"}
ScreenType == [format : {"rgb", "bgr", "bitmask", "blt"}, masks : [Colors -> SUBSET (0 .. 31)],
               base : Nat, stride : Nat]

ASSUME LinuxAssumption ==
    /\ \A f \in LinuxMachines : f.top \in Nat
    /\ Linuxes \subseteq LinuxType /\ Screens \subseteq SUBSET ScreenType
    /\ SectorWords \in Nat \ {0} /\ DefaultOptions \in Nat /\ FourGiB > 0

Blocks == {"image", "params", "initrd", "cmdline"}

VARIABLES
    linux,   \* what is booted
    gop,     \* the screen
    at,      \* block -> its address, None before it is allocated
    boot_params,  \* what the kernel is told: field -> number
    video    \* and its screen_info, {} if left empty

handover == <<linux, gop, at, boot_params, video>>

LinuxInit ==
    /\ PowerOn(LinuxMachines)
    /\ linux \in Linuxes /\ gop \in Screens
    /\ at = [b \in Blocks |-> None]
    /\ boot_params = <<>> /\ video = {}

\* Header::parse.
Setup == ((IF linux.setup_sects = 0 THEN 4 ELSE linux.setup_sects) + 1) * SectorWords
Bootable == linux.valid /\ linux.handover_offset # 0 /\ Setup <= linux.length

Options == IF linux.options = None THEN DefaultOptions ELSE linux.options

\* Mutant: no room for the NUL behind the options.
BareOptions == Options

CommandLine == Options + 1

\* Words allocated for a block, and words of the file copied there.
Size(block) ==
    CASE block = "image" -> linux.image [] block = "params" -> PageWords
      [] block = "initrd" -> linux.initrd [] block = "cmdline" -> CommandLine
Content(block) ==
    CASE block = "image" -> linux.image [] block = "params" -> 0
      [] block = "initrd" -> linux.initrd [] block = "cmdline" -> Options

\* The order of the calls; no block for an empty initrd.
Due(block) ==
    /\ at[block] = None
    /\ block = "params" => at["image"] # None
    /\ block = "initrd" => at["params"] # None /\ linux.initrd > 0
    /\ block = "cmdline" => at["params"] # None /\ (at["initrd"] # None \/ linux.initrd = 0)

Allowed(block) ==
    /\ block = "image" => Bootable
    /\ block = "initrd" => linux.initrd < FourGiB
    /\ block = "cmdline" => ~linux.nul

\* LoadImage, allocate_and_zero, allocate_copy and allocate_command_line.
Allocate(block) ==
    /\ outcome = "open" /\ Due(block) /\ Allowed(block)
    /\ \E a \in Places(free, PageCount(Size(block)), firmware.top) :
         /\ at' = [at EXCEPT ![block] = a]
         /\ memory' = Copied(Zeroed(memory, a, PageCount(Size(block)) * PageWords),
                             a, block, 0, Content(block))
         /\ free' = free \ PagesOf(a, PageCount(Size(block)))
    /\ UNCHANGED <<firmware, outcome, linux, gop, boot_params, video>>

\* The header is not one to boot, the firmware rejects the image, the initrd
\* is too large, a NUL is in the options, or memory is short.
Refuse(block) ==
    /\ outcome = "open" /\ Due(block)
    /\ \/ block = "image" \/ ~Allowed(block)
       \/ Places(free, PageCount(Size(block)), firmware.top) = {}
    /\ Fail /\ UNCHANGED handover

u32(n) == n % FourGiB

\* The setup header is copied, then these of its fields are overwritten.
BootParams ==
    [handover_offset |-> linux.handover_offset,
     code32_start    |-> u32(at["image"] + Setup),
     ramdisk_image   |-> IF at["initrd"] = None THEN linux.ramdisk_image ELSE u32(at["initrd"]),
     ramdisk_size    |-> u32(linux.initrd),
     cmd_line_ptr    |-> u32(at["cmdline"]),
     cmdline_size    |-> u32(Options) + 1,
     entry           |-> at["image"] + Setup + linux.handover_offset + SectorWords]

\* find_bits: where the bits of a mask begin, and how many there are.
find_bits(mask) ==
    IF mask = {} THEN [pos |-> 0, size |-> 0]
    ELSE LET low  == CHOOSE b \in mask : \A c \in mask : b <= c
             high == CHOOSE b \in mask : \A c \in mask : c <= b
         IN  [pos |-> low, size |-> 32 - (31 - high) - low]

Bits(screen, color) ==
    IF screen.format = "bitmask" THEN find_bits(screen.masks[color])
    ELSE [size |-> 8,
          pos  |-> CASE color = "green" -> 8 [] color = "reserved" -> 24
                     [] color = "red"  -> IF screen.format = "rgb" THEN 0 ELSE 16
                     [] color = "blue" -> IF screen.format = "rgb" THEN 16 ELSE 0]

\* setup_screen_info; the upper half of the base is written if it is not zero.
ScreenInfo(screen) ==
    LET bits  == [c \in Colors |-> Bits(screen, c)]
        depth == bits["red"].size + bits["green"].size + bits["blue"].size + bits["reserved"].size
    IN  [lfb_base |-> u32(screen.base), ext_lfb_base |-> screen.base \div FourGiB,
         bits |-> bits, lfb_depth |-> depth, lfb_linelength |-> ((screen.stride * depth) \div 8) % 65536]

Jump ==
    /\ outcome = "open" /\ at["cmdline"] # None
    /\ outcome' = "kernel"
    /\ boot_params' = BootParams
    /\ video' = {ScreenInfo(screen) : screen \in {s \in gop : s.format # "blt"}}
    /\ UNCHANGED <<firmware, memory, free, linux, gop, at>>

\* "Linux EFI handover unexpectedly returned"
Return ==
    /\ outcome = "kernel" /\ boot_params # <<>>
    /\ Fail /\ UNCHANGED handover

LinuxNext ==
    \/ \E block \in Blocks : Allocate(block) \/ Refuse(block)
    \/ Jump \/ Return

-----------------------------------------------------------------------------
Holds(address, file, n) ==
    \A i \in Words(0, n) : address + i \in DOMAIN memory /\ memory[address + i] = FileWord(file, i)

\* The fields of boot_params lead to these blocks, and to the framebuffer.
LeadsTo(blocks) ==
    /\ "initrd" \in blocks /\ linux.initrd > 0 =>
         Holds(boot_params.ramdisk_image, "initrd", linux.initrd)
    /\ boot_params.ramdisk_size = linux.initrd
    /\ "cmdline" \in blocks =>
         LET nul == boot_params.cmd_line_ptr + Options
         IN  /\ Holds(boot_params.cmd_line_ptr, "cmdline", Options)
             /\ nul \in DOMAIN memory /\ memory[nul] = Zero
    /\ \A v \in video : \E screen \in gop :
         /\ v.lfb_base + FourGiB * v.ext_lfb_base = screen.base
         /\ screen.format = "bitmask" =>
              \A c \in Colors : screen.masks[c] =
                 {b \in 0 .. 31 : v.bits[c].pos <= b /\ b < v.bits[c].pos + v.bits[c].size}

\* When the kernel is called each block is whole wherever the firmware had room
\* for it, and the initrd and the command line, with the NUL that ends it, are
\* where boot_params says if they begin below 4 GiB; the framebuffer is where
\* both halves of its address say, in its colors, above 4 GiB as well.
LinuxSees ==
    boot_params # <<>> =>
        /\ \A b \in Blocks : at[b] # None => Holds(at[b], b, Content(b))
        /\ LeadsTo({b \in Blocks : at[b] < FourGiB})

\* boot_params is populated so that the kernel finds all it is given, wherever
\* that is.  Violated: nothing keeps the blocks below 4 GiB.
LinuxFindsAll == boot_params # <<>> => LeadsTo(Blocks)
=============================================================================
