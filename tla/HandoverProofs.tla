--------------------------- MODULE HandoverProofs ---------------------------
(***************************************************************************)
(* What the kernel that is entered may rely on, for machines of any size:  *)
(* where boot_params tells Linux that its blocks are, the memory map a     *)
(* Limine kernel gets, and what it sees through its page tables.           *)
(***************************************************************************)
EXTENDS Handover, SequenceTheorems, FiniteSetTheorems, WellFoundedInduction, TLAPS

(***************************************************************************)
(* Linux.  For every kernel, initrd and options, on machines of any size,  *)
(* the firmware may give the handover any pages: each block stays as it    *)
(* was written because later ones get pages that are still free, and       *)
(* boot_params leads to those that begin below 4 GiB.  MCLinuxHigh shows   *)
(* that it does not lead to others.                                        *)
(***************************************************************************)
\* UEFI's masks are runs of bits.
ContiguousMasks ==
    \A s \in Screens : \A screen \in s : \A c \in Colors :
        screen.masks[c] = {} \/ \E lo, hi \in 0 .. 31 : lo <= hi /\ screen.masks[c] = lo .. hi

RoomFor(b) == PageCount(Size(b)) * PageWords

\* A block lies in pages of its own and is as it was written.
Placed(b) ==
    at[b] # None =>
        /\ at[b] \in Nat
        /\ \A a \in Words(at[b], RoomFor(b)) :
             /\ a \in DOMAIN memory /\ a \notin free
             /\ memory[a] = IF a \in Words(at[b], Content(b)) THEN FileWord(b, 0 + (a - at[b])) ELSE Zero

LinuxInv ==
    /\ firmware \in LinuxMachines /\ linux \in Linuxes /\ gop \in Screens
    /\ DOMAIN memory = Words(0, firmware.top) /\ free \subseteq Words(0, firmware.top)
    /\ free \cap firmware.used = {}
    /\ at = [b \in Blocks |-> at[b]]
    /\ \A b \in Blocks : Placed(b)
    /\ at["cmdline"] # None => at["initrd"] # None \/ linux.initrd = 0
    /\ at["initrd"] # None => linux.initrd < FourGiB
    /\ boot_params # <<>> => outcome # "open"
    /\ OthersUntouched

LEMMA InWords ==
    ASSUME NEW x \in Int, NEW n \in Int, NEW a
    PROVE  a \in Words(x, n) <=> a \in Int /\ x <= a /\ a < x + n
BY DEF Words

\* The pages for so many words have room for them.
LEMMA PagesCover ==
    ASSUME NEW w \in Nat
    PROVE  PageCount(w) * PageWords \in Nat /\ w <= PageCount(w) * PageWords
<1>1. PageWords \in Nat \ {0}
  BY SizeAssumption
<1>. DEFINE k == PageWords
            n == w + k - 1
<1>2. n \in Nat /\ n \div k \in Nat /\ n % k \in 0 .. k - 1
  BY <1>1
<1>3. n = ((n \div k) * k) + (n % k)
  BY <1>1, <1>2
<1>. QED BY <1>1, <1>2, <1>3 DEF PageCount

LEMMA Sizes ==
    ASSUME LinuxInv, NEW b \in Blocks
    PROVE  /\ Content(b) \in Nat /\ Size(b) \in Nat /\ RoomFor(b) \in Nat
           /\ Content(b) <= Size(b) /\ Size(b) <= RoomFor(b)
           /\ b = "cmdline" => Content(b) = Options /\ Size(b) = Options + 1
<1>1. linux \in LinuxType /\ PageWords \in Nat \ {0} /\ DefaultOptions \in Nat
  BY LinuxAssumption, SizeAssumption DEF LinuxInv
<1>2. Options \in Nat
  BY <1>1 DEF Options, LinuxType, None
<1>3. Content(b) \in Nat /\ Size(b) \in Nat /\ Content(b) <= Size(b)
  BY <1>1, <1>2 DEF Content, Size, CommandLine, Blocks, LinuxType
<1>4. b = "cmdline" => Content(b) = Options /\ Size(b) = Options + 1
  BY DEF Content, Size, CommandLine
<1>. QED BY <1>3, <1>4, PagesCover DEF RoomFor

LEMMA InitHolds ==
    ASSUME LinuxInit
    PROVE  LinuxInv
<1>1. firmware \in LinuxMachines /\ linux \in Linuxes /\ gop \in Screens
  BY DEF LinuxInit, PowerOn
<1>2. /\ DOMAIN memory = Words(0, firmware.top)
      /\ \A a \in DOMAIN memory : memory[a] = Junk
      /\ free = Words(0, firmware.top) \ firmware.used
  BY DEF LinuxInit, PowerOn
<1>3. OthersUntouched
  BY <1>2 DEF OthersUntouched
<1>4. at = [b \in Blocks |-> None] /\ boot_params = <<>>
  BY DEF LinuxInit
<1>5. at = [b \in Blocks |-> at[b]] /\ \A b \in Blocks : at[b] = None
  BY <1>4
<1>. QED BY <1>1, <1>2, <1>3, <1>4, <1>5 DEF LinuxInv, Placed, Blocks

\* A new block is taken from what is free, so the others keep theirs.
LEMMA AllocateStep ==
    ASSUME LinuxInv, NEW block \in Blocks, Allocate(block)
    PROVE  LinuxInv'
<1>. DEFINE n == PageCount(Size(block))
<1>1. PICK a \in Places(free, n, firmware.top) :
        /\ at' = [at EXCEPT ![block] = a]
        /\ memory' = Copied(Zeroed(memory, a, n * PageWords), a, block, 0, Content(block))
        /\ free' = free \ PagesOf(a, n)
  BY DEF Allocate
<1>2. Due(block) /\ Allowed(block) /\ outcome = "open"
      /\ UNCHANGED <<firmware, outcome, linux, gop, boot_params, video>>
  BY DEF Allocate
<1>3. firmware.top \in Nat
  BY LinuxAssumption DEF LinuxInv
<1>4. /\ Content(block) \in Nat /\ Size(block) \in Nat /\ RoomFor(block) \in Nat
      /\ Content(block) <= Size(block) /\ Size(block) <= RoomFor(block)
      /\ RoomFor(block) = n * PageWords
  BY Sizes DEF RoomFor
<1>5. a \in free /\ Words(a, RoomFor(block)) \subseteq free /\ free \subseteq DOMAIN memory
  BY <1>1, <1>4 DEF Places, PagesOf, LinuxInv
<1>6. a \in Nat
  <2>1. a \in Words(0, firmware.top)
    BY <1>5 DEF LinuxInv
  <2>. QED BY <2>1, <1>3 DEF Words
<1>7. free' = free \ Words(a, RoomFor(block))
  BY <1>1, <1>4 DEF PagesOf
<1>8. DOMAIN memory' = DOMAIN memory
  BY <1>1 DEF Copied, Zeroed
<1>9. \A x \in DOMAIN memory :
        memory'[x] = IF x \in Words(a, Content(block)) THEN FileWord(block, 0 + (x - a))
                     ELSE IF x \in Words(a, RoomFor(block)) THEN Zero ELSE memory[x]
  BY <1>1, <1>4 DEF Copied, Zeroed
<1>10. Words(a, Content(block)) \subseteq Words(a, RoomFor(block))
  BY <1>4, <1>6, InWords
<1>11. \A x \in DOMAIN memory : x \notin Words(a, RoomFor(block)) => memory'[x] = memory[x]
  BY <1>9, <1>10
<1>12. \A b \in Blocks : Size(b)' = Size(b) /\ Content(b)' = Content(b) /\ RoomFor(b)' = RoomFor(b)
  BY <1>2 DEF Size, Content, RoomFor, CommandLine, Options
<1>13. at' = [b \in Blocks |-> at'[b]] /\ at'[block] = a /\ \A b \in Blocks \ {block} : at'[b] = at[b]
  BY <1>1 DEF LinuxInv
<1>14. \A b \in Blocks : Placed(b)'
  <2>. SUFFICES ASSUME NEW b \in Blocks, at'[b] # None
                PROVE  /\ at'[b] \in Nat
                       /\ \A x \in Words(at'[b], RoomFor(b)) :
                            /\ x \in DOMAIN memory' /\ x \notin free'
                            /\ memory'[x] = IF x \in Words(at'[b], Content(b))
                                            THEN FileWord(b, 0 + (x - at'[b])) ELSE Zero
    BY <1>12 DEF Placed
  <2>1. CASE b = block
    BY <2>1, <1>5, <1>6, <1>7, <1>8, <1>9, <1>13
  <2>2. CASE b # block
    <3>1. at'[b] = at[b]
      BY <2>2, <1>13
    <3>2. /\ at[b] \in Nat
          /\ \A x \in Words(at[b], RoomFor(b)) :
               /\ x \in DOMAIN memory /\ x \notin free
               /\ memory[x] = IF x \in Words(at[b], Content(b)) THEN FileWord(b, 0 + (x - at[b])) ELSE Zero
      BY <3>1 DEF LinuxInv, Placed
    <3>3. \A x \in Words(at[b], RoomFor(b)) : x \notin Words(a, RoomFor(block)) /\ x \notin free'
      BY <3>2, <1>5, <1>7
    <3>. QED BY <3>1, <3>2, <3>3, <1>8, <1>11
  <2>. QED BY <2>1, <2>2
<1>15. OthersUntouched'
  <2>. SUFFICES ASSUME NEW x \in DOMAIN memory, x \in free' \cup firmware.used
                PROVE  memory'[x] = Junk
    BY <1>2, <1>8 DEF OthersUntouched
  <2>1. x \in free \cup firmware.used /\ x \notin Words(a, RoomFor(block))
    BY <1>5, <1>7 DEF LinuxInv
  <2>. QED BY <2>1, <1>11 DEF LinuxInv, OthersUntouched
<1>16. at'["cmdline"] # None => at'["initrd"] # None \/ linux.initrd = 0
  <2>1. at'["initrd"] = at["initrd"] \/ at'["initrd"] = a
    BY <1>13 DEF Blocks
  <2>2. at'["cmdline"] = at["cmdline"] \/ block = "cmdline"
    BY <1>13 DEF Blocks
  <2>. QED BY <2>1, <2>2, <1>2, <1>6 DEF LinuxInv, Due, None
<1>17. at'["initrd"] # None => linux.initrd < FourGiB
  <2>1. at'["initrd"] = at["initrd"] \/ block = "initrd"
    BY <1>13 DEF Blocks
  <2>. QED BY <2>1, <1>2 DEF LinuxInv, Allowed
<1>18. boot_params' = <<>>
  BY <1>2 DEF LinuxInv
<1>19. free' \subseteq Words(0, firmware.top) /\ free' \cap firmware.used = {}
  BY <1>7 DEF LinuxInv
<1>. QED BY <1>2, <1>8, <1>13, <1>14, <1>15, <1>16, <1>17, <1>18, <1>19 DEF LinuxInv

LEMMA RefuseStep ==
    ASSUME LinuxInv, NEW block \in Blocks, Refuse(block) \/ Return
    PROVE  LinuxInv'
<1>1. UNCHANGED <<firmware, memory, free, linux, gop, at, boot_params, video>> /\ outcome' = "error"
  BY DEF Refuse, Return, Fail, handover
<1>2. \A b \in Blocks : Size(b)' = Size(b) /\ Content(b)' = Content(b)
  BY <1>1 DEF Size, Content, CommandLine, Options
<1>3. \A b \in Blocks : Placed(b)'
  BY <1>1, <1>2 DEF LinuxInv, Placed, RoomFor
<1>4. OthersUntouched'
  BY <1>1 DEF LinuxInv, OthersUntouched
<1>. QED BY <1>1, <1>3, <1>4 DEF LinuxInv

\* A run of bits is what its first bit and its length describe.
LEMMA FindBits ==
    ASSUME NEW mask, mask = {} \/ \E lo, hi \in 0 .. 31 : lo <= hi /\ mask = lo .. hi
    PROVE  mask = {b \in 0 .. 31 : find_bits(mask).pos <= b
                                   /\ b < find_bits(mask).pos + find_bits(mask).size}
<1>1. CASE mask = {}
  BY <1>1 DEF find_bits
<1>2. CASE mask # {}
  <2>1. PICK lo \in 0 .. 31, hi \in 0 .. 31 : lo <= hi /\ mask = lo .. hi
    BY <1>2
  <2>. DEFINE low  == CHOOSE b \in mask : \A c \in mask : b <= c
              high == CHOOSE b \in mask : \A c \in mask : c <= b
  <2>2. low = lo
    BY <2>1
  <2>3. high = hi
    BY <2>1
  <2>4. find_bits(mask) = [pos |-> low, size |-> 32 - (31 - high) - low]
    BY <1>2 DEF find_bits
  <2>. HIDE DEF low, high
  <2>5. find_bits(mask).pos = lo /\ find_bits(mask).size = hi - lo + 1
    BY <2>1, <2>2, <2>3, <2>4
  <2>6. find_bits(mask).pos + find_bits(mask).size = hi + 1
    BY <2>1, <2>5
  <2>7. ASSUME NEW b \in 0 .. 31
        PROVE  b \in mask <=> lo <= b /\ b < hi + 1
    BY <2>1
  <2>8. mask \subseteq 0 .. 31
    BY <2>1
  <2>. QED BY <2>5, <2>6, <2>7, <2>8
<1>. QED BY <1>1, <1>2

\* An address below 4 GiB goes through a 32-bit field.
LEMMA FitsWord ==
    ASSUME NEW n \in Nat, n < FourGiB
    PROVE  u32(n) = n
BY SizeAssumption DEF u32

LEMMA Halves ==
    ASSUME NEW n \in Nat
    PROVE  u32(n) + FourGiB * (n \div FourGiB) = n
BY SizeAssumption, LinuxAssumption DEF u32

\* A block that was written holds its file, then zeroes; below 4 GiB its address
\* fits a field of boot_params.
LEMMA BlockHolds ==
    ASSUME LinuxInv, NEW b \in Blocks, at[b] # None
    PROVE  /\ at[b] < FourGiB => u32(at[b]) = at[b]
           /\ at[b] \in Nat
           /\ Holds(at[b], b, Content(b))
           /\ Content(b) < Size(b) => /\ at[b] + Content(b) \in DOMAIN memory
                                      /\ memory[at[b] + Content(b)] = Zero
<1>1. /\ at[b] \in Nat
      /\ \A a \in Words(at[b], RoomFor(b)) :
           /\ a \in DOMAIN memory
           /\ memory[a] = IF a \in Words(at[b], Content(b)) THEN FileWord(b, 0 + (a - at[b])) ELSE Zero
  BY DEF LinuxInv, Placed
<1>2. /\ Content(b) \in Nat /\ Size(b) \in Nat /\ RoomFor(b) \in Nat
      /\ Content(b) <= Size(b) /\ Size(b) <= RoomFor(b)
  BY Sizes
<1>3. at[b] < FourGiB => u32(at[b]) = at[b]
  BY <1>1, FitsWord
<1>4. Holds(at[b], b, Content(b))
  <2>. SUFFICES ASSUME NEW i \in Words(0, Content(b))
                PROVE  at[b] + i \in DOMAIN memory /\ memory[at[b] + i] = FileWord(b, i)
    BY DEF Holds
  <2>1. i \in Nat /\ i < Content(b)
    BY <1>2, InWords
  <2>2. at[b] + i \in Words(at[b], Content(b)) /\ at[b] + i \in Words(at[b], RoomFor(b))
    BY <1>1, <1>2, <2>1, InWords
  <2>3. 0 + ((at[b] + i) - at[b]) = i
    BY <1>1, <2>1
  <2>. QED BY <1>1, <2>2, <2>3
<1>5. ASSUME Content(b) < Size(b)
      PROVE  at[b] + Content(b) \in DOMAIN memory /\ memory[at[b] + Content(b)] = Zero
  <2>1. at[b] + Content(b) \in Words(at[b], RoomFor(b)) /\ at[b] + Content(b) \notin Words(at[b], Content(b))
    BY <1>1, <1>2, <1>5, InWords
  <2>. QED BY <1>1, <2>1
<1>. QED BY <1>1, <1>3, <1>4, <1>5

LEMMA JumpStep ==
    ASSUME LinuxInv, Jump
    PROVE  LinuxInv'
<1>1. /\ UNCHANGED <<firmware, memory, free, linux, gop, at>>
      /\ outcome' = "kernel"
  BY DEF Jump
<1>2. \A b \in Blocks : Size(b)' = Size(b) /\ Content(b)' = Content(b)
  BY <1>1 DEF Size, Content, CommandLine, Options
<1>3. (\A b \in Blocks : Placed(b)') /\ OthersUntouched'
  BY <1>1, <1>2 DEF LinuxInv, Placed, RoomFor, OthersUntouched
<1>. QED BY <1>1, <1>3 DEF LinuxInv

\* What boot_params is filled with is where things are.
LEMMA JumpTells ==
    ASSUME ContiguousMasks, LinuxInv, Jump
    PROVE  LinuxSees'
<1>. DEFINE low == {b \in Blocks : at[b] < FourGiB}
<1>1. /\ UNCHANGED <<firmware, memory, free, linux, gop, at>>
      /\ outcome = "open" /\ boot_params' = BootParams /\ at["cmdline"] # None
      /\ video' = {ScreenInfo(screen) : screen \in {s \in gop : s.format # "blt"}}
  BY DEF Jump
<1>2. \A b \in Blocks : at[b] # None => Holds(at[b], b, Content(b))
  BY BlockHolds
<1>3. Options' = Options /\ \A b \in Blocks : Content(b)' = Content(b)
  BY <1>1 DEF Options, Content
<1>4. linux.initrd \in Nat /\ linux \in LinuxType
  BY LinuxAssumption DEF LinuxInv, LinuxType
<1>5. "initrd" \in low /\ linux.initrd > 0 => Holds(boot_params'.ramdisk_image, "initrd", linux.initrd)
  <2>. SUFFICES ASSUME "initrd" \in low, linux.initrd > 0
                PROVE  Holds(boot_params'.ramdisk_image, "initrd", linux.initrd)
    OBVIOUS
  <2>1. at["initrd"] # None /\ "initrd" \in Blocks /\ at["initrd"] < FourGiB
    BY <1>1, <1>4 DEF LinuxInv, Blocks
  <2>2. Content("initrd") = linux.initrd
    BY DEF Content
  <2>3. boot_params'.ramdisk_image = u32(at["initrd"])
    BY <1>1, <2>1 DEF BootParams
  <2>. QED BY <2>1, <2>2, <2>3, BlockHolds
<1>6. boot_params'.ramdisk_size = linux.initrd
  <2>1. linux.initrd < FourGiB
    BY <1>1, <1>4, LinuxAssumption, SizeAssumption DEF LinuxInv
  <2>. QED BY <1>1, <1>4, <2>1, FitsWord DEF BootParams
<1>7. "cmdline" \in low =>
        /\ Holds(boot_params'.cmd_line_ptr, "cmdline", Options)
        /\ boot_params'.cmd_line_ptr + Options \in DOMAIN memory
        /\ memory[boot_params'.cmd_line_ptr + Options] = Zero
  <2>. SUFFICES ASSUME at["cmdline"] < FourGiB
                PROVE  /\ Holds(boot_params'.cmd_line_ptr, "cmdline", Options)
                       /\ boot_params'.cmd_line_ptr + Options \in DOMAIN memory
                       /\ memory[boot_params'.cmd_line_ptr + Options] = Zero
    OBVIOUS
  <2>1. Content("cmdline") = Options /\ Size("cmdline") = Options + 1 /\ Options \in Nat
    BY Sizes DEF Blocks
  <2>2. boot_params'.cmd_line_ptr = u32(at["cmdline"])
    BY <1>1 DEF BootParams
  <2>. QED BY <1>1, <2>1, <2>2, BlockHolds DEF Blocks
<1>8. ASSUME NEW v \in video'
      PROVE  \E screen \in gop :
                /\ v.lfb_base + FourGiB * v.ext_lfb_base = screen.base
                /\ screen.format = "bitmask" =>
                     \A c \in Colors : screen.masks[c] =
                        {b \in 0 .. 31 : v.bits[c].pos <= b /\ b < v.bits[c].pos + v.bits[c].size}
  <2>1. PICK screen \in gop : v = ScreenInfo(screen)
    BY <1>1
  <2>2. screen \in ScreenType /\ gop \in Screens
    BY LinuxAssumption DEF LinuxInv
  <2>3. screen.base \in Nat
    BY <2>2 DEF ScreenType
  <2>4. v.lfb_base = u32(screen.base) /\ v.ext_lfb_base = screen.base \div FourGiB
        /\ \A c \in Colors : v.bits[c] = Bits(screen, c)
    BY <2>1 DEF ScreenInfo
  <2>5. v.lfb_base + FourGiB * v.ext_lfb_base = screen.base
    BY <2>3, <2>4, Halves
  <2>6. ASSUME screen.format = "bitmask", NEW c \in Colors
        PROVE  screen.masks[c] = {b \in 0 .. 31 : v.bits[c].pos <= b /\ b < v.bits[c].pos + v.bits[c].size}
    <3>1. v.bits[c] = find_bits(screen.masks[c])
      BY <2>4, <2>6 DEF Bits
    <3>2. screen.masks[c] = {} \/ \E lo, hi \in 0 .. 31 : lo <= hi /\ screen.masks[c] = lo .. hi
      BY <2>2 DEF ContiguousMasks
    <3>3. screen.masks[c] = {b \in 0 .. 31 : find_bits(screen.masks[c]).pos <= b
             /\ b < find_bits(screen.masks[c]).pos + find_bits(screen.masks[c]).size}
      BY <3>2, FindBits
    <3>. QED BY <3>1, <3>3
  <2>. QED BY <2>5, <2>6
<1>9. LeadsTo({b \in Blocks : at[b] < FourGiB})'
  BY <1>1, <1>3, <1>5, <1>6, <1>7, <1>8 DEF LeadsTo, Holds
<1>10. (\A b \in Blocks : at[b] # None => Holds(at[b], b, Content(b)))'
  BY <1>1, <1>2, <1>3 DEF Holds
<1>. QED BY <1>9, <1>10 DEF LinuxSees

LEMMA LinuxStep ==
    ASSUME LinuxInv, LinuxNext
    PROVE  LinuxInv'
<1>1. CASE \E block \in Blocks : Allocate(block)
  BY <1>1, AllocateStep
<1>2. CASE \E block \in Blocks : Refuse(block)
  BY <1>2, RefuseStep
<1>3. CASE Jump
  BY <1>3, JumpStep
<1>4. CASE Return
  <2>1. "image" \in Blocks
    BY DEF Blocks
  <2>. QED BY <1>4, <2>1, RefuseStep
<1>. QED BY <1>1, <1>2, <1>3, <1>4 DEF LinuxNext

LEMMA LinuxStays ==
    ASSUME LinuxInv, UNCHANGED <<machine, handover>>
    PROVE  LinuxInv'
<1>1. UNCHANGED <<firmware, memory, free, outcome, linux, gop, at, boot_params, video>>
  BY DEF machine, handover
<1>2. \A b \in Blocks : Size(b)' = Size(b) /\ Content(b)' = Content(b)
  BY <1>1 DEF Size, Content, CommandLine, Options
<1>3. \A b \in Blocks : Placed(b)'
  BY <1>1, <1>2 DEF LinuxInv, Placed, RoomFor
<1>. QED BY <1>1, <1>3 DEF LinuxInv, OthersUntouched

\* LinuxInv is about a boot of Linux; in others nothing of it is ever set.
LinuxPart ==
    /\ kind = "linux" => LinuxInv
    /\ kind # "linux" => boot_params = <<>>

\* linux::handover: as long as it allocates, each block is where it was put
\* and as it was written, and what is not the handover's is untouched.
THEOREM LinuxInvariance == Spec => []LinuxPart
<1>1. Init => LinuxPart
  BY InitHolds DEF Init, NoLinux, LinuxPart
<1>2. LinuxPart /\ [Next]_vars => LinuxPart'
  <2>. SUFFICES ASSUME LinuxPart, [Next]_vars PROVE LinuxPart'
    OBVIOUS
  <2>1. CASE kind = "limine" /\ LimineNext /\ UNCHANGED <<map, handover, kind>>
    BY <2>1 DEF LinuxPart, handover
  <2>2. CASE kind = "map" /\ MapNext /\ UNCHANGED <<machine, limine, handover, kind>>
    BY <2>2 DEF LinuxPart, handover
  <2>3. CASE kind = "linux" /\ LinuxNext /\ UNCHANGED <<limine, map, kind>>
    BY <2>3, LinuxStep DEF LinuxPart
  <2>4. CASE UNCHANGED vars
    BY <2>4, LinuxStays DEF LinuxPart, vars, handover
  <2>. QED BY <2>1, <2>2, <2>3, <2>4 DEF Next
<1>. QED BY <1>1, <1>2, PTL DEF Spec

\* Once the kernel is told, nothing it was told about changes.
LEMMA ToldStays ==
    ASSUME LinuxPart, LinuxSees, [Next]_vars, boot_params # <<>>
    PROVE  LinuxSees'
<1>1. kind = "linux" /\ outcome # "open"
  BY DEF LinuxPart, LinuxInv
<1>2. UNCHANGED <<memory, linux, gop, at, boot_params, video>>
  <2>1. CASE LinuxNext
    BY <1>1, <2>1 DEF LinuxNext, Allocate, Refuse, Jump, Return, Fail, handover
  <2>2. CASE UNCHANGED vars
    BY <2>2 DEF vars, machine, handover
  <2>. QED BY <1>1, <2>1, <2>2 DEF Next
<1>3. Options' = Options /\ \A b \in Blocks : Content(b)' = Content(b)
  BY <1>2 DEF Options, Content
<1>. QED BY <1>2, <1>3 DEF LinuxSees, LeadsTo, Holds

\* linux::handover: on every machine each block is whole where it was put, and
\* boot_params leads to the framebuffer and to what begins below 4 GiB.
THEOREM LinuxSeesIt ==
    ASSUME ContiguousMasks
    PROVE  Spec => []LinuxSees
<1>1. Init => LinuxSees
  BY DEF Init, NoLinux, LinuxInit, LinuxSees
<1>2. LinuxPart /\ LinuxSees /\ [Next]_vars => LinuxSees'
  <2>. SUFFICES ASSUME LinuxPart, LinuxSees, [Next]_vars PROVE LinuxSees'
    OBVIOUS
  <2>1. CASE boot_params # <<>>
    BY <2>1, ToldStays
  <2>2. CASE boot_params = <<>> /\ boot_params' # <<>>
    <3>1. kind = "linux" /\ Jump
      BY <2>2 DEF Next, LinuxNext, Allocate, Refuse, Return, handover, vars
    <3>. QED BY <3>1, JumpTells DEF LinuxPart
  <2>3. CASE boot_params' = <<>>
    BY <2>3 DEF LinuxSees
  <2>. QED BY <2>1, <2>2, <2>3
<1>. QED BY <1>1, <1>2, LinuxInvariance, PTL DEF Spec

-----------------------------------------------------------------------------
(***************************************************************************)
(* The memory map.  For every one whose descriptors do not overlap,        *)
(* whatever is allocated after the storage was sized and however little    *)
(* fits, the map the kernel gets is safe: what it offers is neither the    *)
(* kernel's nor a module's, and nothing is listed twice.                   *)
(***************************************************************************)
\* A descriptor made by splitting may begin behind Top, if the one split
\* ended there because its sum saturated.
AnyDescriptor == [start : Nat, pages : Nat \ {0}, type : UefiTypes]
AnyEntry == [base : Nat, length : Nat, kind : Nat]

Beside(d, e) == End(d) <= e.start \/ End(e) <= d.start
PairwiseApart(ds) == \A i, j \in DOMAIN ds : i # j => Beside(ds[i], ds[j])

\* UEFI lists no address twice.
DescriptorsApart == \A m \in Machines : PairwiseApart(m.descriptors)

EntryEnd(e) == e.base + e.length

\* An entry is a piece of one of the descriptors converted so far, and of the
\* present one only of what is behind the cursor.
FromDescriptor(e) ==
    \E j \in DOMAIN descriptors :
        /\ j <= index
        /\ descriptors[j].start <= e.base /\ EntryEnd(e) <= End(descriptors[j])
        /\ phase = "populating" /\ j = index => EntryEnd(e) <= cursor

\* Nobody else's: an entry that is offered is in no range.
Offered(e) == e.kind \in {0, 2, 5}
Unclaimed(e) == Offered(e) => \A a \in e.base .. EntryEnd(e) - 1 : RangesAt(a) = {}

TypeInv ==
    /\ phase \in {"boot", "prepared", "populating", "done"}
    /\ descriptors \in Seq(AnyDescriptor) /\ ranges \in Seq(Ranges)
    /\ index \in Nat /\ cursor \in Nat
    /\ entries \in Seq(AnyEntry)

MapInv ==
    /\ TypeInv
    /\ PairwiseApart(descriptors)
    /\ phase \in {"boot", "prepared"} => entries = <<>>
    /\ phase = "populating" => index \in DOMAIN descriptors /\ descriptors[index].start <= cursor
    /\ \A i \in DOMAIN entries : FromDescriptor(entries[i]) /\ Unclaimed(entries[i])
    /\ \A i, j \in DOMAIN entries :
         i # j => EntryEnd(entries[i]) <= entries[j].base \/ EntryEnd(entries[j]) <= entries[i].base

-----------------------------------------------------------------------------
(***************************************************************************)
(* Numbers.                                                                *)
(***************************************************************************)
Less == {ss \in Nat \X Nat : ss[1] < ss[2]}

LEMMA LessWellFounded == IsWellFoundedOn(Less, Nat)
BY NatLessThanWellFounded DEF OpToRel, Less

\* A set of numbers has a least one.
LEMMA LeastExists ==
    ASSUME NEW S \in SUBSET Nat, S # {}
    PROVE  Least(S) \in S /\ \A m \in S : Least(S) <= m
<1>1. PICK x \in S : \A y \in S : ~(<<y, x>> \in Less)
  BY WFMin, LessWellFounded
<1>2. ASSUME NEW y \in S PROVE x <= y
  <2>1. x \in Nat /\ y \in Nat
    OBVIOUS
  <2>2. ~(y < x)
    <3>1. <<y, x>> \in Less <=> y < x
      BY <2>1 DEF Less
    <3>. QED BY <1>1, <3>1
  <2>. QED BY <2>1, <2>2
<1>. QED BY <1>2 DEF Least

LEMMA TimesMonotone ==
    ASSUME NEW a \in Nat, NEW b \in Nat, NEW k \in Nat
    PROVE  a * k \in Nat /\ (a + b) * k = (a * k) + (b * k) /\ a * k <= (a + b) * k
<1>1. a * k \in Nat /\ b * k \in Nat
  OBVIOUS
<1>2. (a + b) * k = (a * k) + (b * k)
  OBVIOUS
<1>. QED BY <1>1, <1>2

LEMMA EndBounded ==
    ASSUME NEW d \in AnyDescriptor
    PROVE  /\ End(d) \in Nat /\ End(d) <= Top
           /\ End(d) <= d.start + (d.pages * PageSize)
           /\ End(d) = Top \/ End(d) = d.start + (d.pages * PageSize)
<1>1. d.start \in Nat /\ d.pages \in Nat /\ PageSize \in Nat /\ Top \in Nat
  BY MapAssumption DEF AnyDescriptor
<1>2. d.pages * PageSize \in Nat
  BY <1>1
<1>. QED BY <1>1, <1>2 DEF End, Saturated

-----------------------------------------------------------------------------
(***************************************************************************)
(* Splitting a descriptor.                                                 *)
(***************************************************************************)
\* A part of a descriptor that is apart from another is apart from it too.
PartOf(p, d) == d.start <= p.start /\ End(p) <= End(d)

LEMMA PartsStayApart ==
    ASSUME NEW p \in AnyDescriptor, NEW d \in AnyDescriptor, NEW e \in AnyDescriptor,
           PartOf(p, d), Beside(d, e) \/ Beside(e, d)
    PROVE  Beside(p, e) /\ Beside(e, p)
<1>1. /\ End(p) \in Nat /\ End(d) \in Nat /\ End(e) \in Nat
      /\ p.start \in Nat /\ d.start \in Nat /\ e.start \in Nat
  BY EndBounded DEF AnyDescriptor
<1>. QED BY <1>1 DEF PartOf, Beside

Spliced(ds, i, ps) == SubSeq(ds, 1, i - 1) \o ps \o SubSeq(ds, i + 1, Len(ds))

\* Where an element of the new sequence comes from.
LEMMA SplicedElements ==
    ASSUME NEW D, NEW ds \in Seq(D), NEW i \in DOMAIN ds, NEW ps \in Seq(D)
    PROVE  /\ Spliced(ds, i, ps) \in Seq(D)
           /\ Len(Spliced(ds, i, ps)) = Len(ds) - 1 + Len(ps)
           /\ \A k \in DOMAIN Spliced(ds, i, ps) :
                Spliced(ds, i, ps)[k] = IF k < i THEN ds[k]
                                        ELSE IF k < i + Len(ps) THEN ps[k - i + 1]
                                        ELSE ds[k + 1 - Len(ps)]
<1>. DEFINE front == SubSeq(ds, 1, i - 1)
            back == SubSeq(ds, i + 1, Len(ds))
            two == front \o ps
<1>1. i \in 1 .. Len(ds) /\ Len(ds) \in Nat /\ Len(ps) \in Nat
  OBVIOUS
<1>2. /\ front \in Seq(D) /\ Len(front) = i - 1
      /\ \A k \in 1 .. i - 1 : front[k] = ds[k]
  BY <1>1
<1>3. /\ back \in Seq(D) /\ Len(back) = Len(ds) - i
      /\ \A k \in 1 .. Len(ds) - i : back[k] = ds[i + k]
  BY <1>1
<1>4. /\ two \in Seq(D) /\ Len(two) = i - 1 + Len(ps)
      /\ \A k \in 1 .. i - 1 + Len(ps) :
           two[k] = IF k < i THEN front[k] ELSE ps[k - i + 1]
  <2>. HIDE DEF front
  <2>1. two \in Seq(D) /\ Len(two) = i - 1 + Len(ps)
    BY <1>1, <1>2
  <2>2. ASSUME NEW k \in 1 .. i - 1 + Len(ps)
        PROVE  two[k] = IF k < i THEN front[k] ELSE ps[k - i + 1]
    BY <1>1, <1>2, SMTT(30)
  <2>. QED BY <2>1, <2>2
<1>5. Spliced(ds, i, ps) = two \o back
  BY DEF Spliced
<1>6. /\ two \o back \in Seq(D) /\ Len(two \o back) = Len(ds) - 1 + Len(ps)
      /\ \A k \in 1 .. Len(ds) - 1 + Len(ps) :
           (two \o back)[k] = IF k < i + Len(ps) THEN two[k] ELSE back[k - (i - 1 + Len(ps))]
  <2>1. two \in Seq(D) /\ back \in Seq(D) /\ Len(two) = i - 1 + Len(ps) /\ Len(back) = Len(ds) - i
    BY <1>3, <1>4
  <2>. HIDE DEF two, back
  <2>2. two \o back \in Seq(D) /\ Len(two \o back) = Len(two) + Len(back)
        /\ \A k \in 1 .. Len(two) + Len(back) :
             (two \o back)[k] = IF k <= Len(two) THEN two[k] ELSE back[k - Len(two)]
    BY <2>1, ConcatProperties, SMTT(30)
  <2>3. Len(two) + Len(back) = Len(ds) - 1 + Len(ps)
    BY <1>1, <2>1
  <2>4. ASSUME NEW k \in 1 .. Len(ds) - 1 + Len(ps)
        PROVE  k <= Len(two) <=> k < i + Len(ps)
    BY <1>1, <2>1, SMTT(30)
  <2>. QED BY <2>1, <2>2, <2>3, <2>4
<1>7. DOMAIN Spliced(ds, i, ps) = 1 .. Len(ds) - 1 + Len(ps)
  <2>. HIDE DEF two, back, front
  <2>1. Spliced(ds, i, ps) \in Seq(D) /\ Len(Spliced(ds, i, ps)) = Len(ds) - 1 + Len(ps)
    BY <1>5, <1>6
  <2>. QED BY <2>1
<1>8. ASSUME NEW k \in 1 .. Len(ds) - 1 + Len(ps)
      PROVE  Spliced(ds, i, ps)[k] = IF k < i THEN ds[k]
                                     ELSE IF k < i + Len(ps) THEN ps[k - i + 1]
                                     ELSE ds[k + 1 - Len(ps)]
  <2>. HIDE DEF two, back, front
  <2>1. CASE k < i
    BY <2>1, <1>1, <1>2, <1>4, <1>5, <1>6, SMTT(30)
  <2>2. CASE ~(k < i) /\ k < i + Len(ps)
    <3>1. k \in 1 .. i - 1 + Len(ps)
      BY <2>2, <1>1
    <3>2. two[k] = ps[k - i + 1]
      BY <2>2, <3>1, <1>4
    <3>. QED BY <2>2, <3>2, <1>5, <1>6
  <2>3. CASE ~(k < i) /\ ~(k < i + Len(ps))
    <3>1. k - (i - 1 + Len(ps)) \in 1 .. Len(ds) - i
      BY <2>3, <1>1
    <3>2. i + (k - (i - 1 + Len(ps))) = k + 1 - Len(ps)
      BY <1>1
    <3>. QED BY <2>3, <3>1, <3>2, <1>3, <1>5, <1>6
  <2>. QED BY <2>1, <2>2, <2>3
<1>. QED BY <1>5, <1>6, <1>7, <1>8

\* Parts of one descriptor in its place leave all of them apart.
LEMMA SplicedApart ==
    ASSUME NEW ds \in Seq(AnyDescriptor), PairwiseApart(ds), NEW i \in DOMAIN ds,
           NEW ps \in Seq(AnyDescriptor), PairwiseApart(ps),
           \A k \in DOMAIN ps : PartOf(ps[k], ds[i])
    PROVE  PairwiseApart(Spliced(ds, i, ps))
<1>. DEFINE new == Spliced(ds, i, ps)
            Old(k) == k \in DOMAIN new /\ (k < i \/ k >= i + Len(ps))
            From(k) == IF k < i THEN k ELSE k + 1 - Len(ps)
<1>1. /\ Len(new) = Len(ds) - 1 + Len(ps) /\ DOMAIN new = 1 .. Len(ds) - 1 + Len(ps)
      /\ Len(ds) \in Nat /\ Len(ps) \in Nat /\ i \in 1 .. Len(ds)
      /\ \A k \in DOMAIN new :
           new[k] = IF k < i THEN ds[k] ELSE IF k < i + Len(ps) THEN ps[k - i + 1]
                    ELSE ds[k + 1 - Len(ps)]
  <2>1. /\ new \in Seq(AnyDescriptor) /\ Len(new) = Len(ds) - 1 + Len(ps)
        /\ \A k \in DOMAIN new :
             new[k] = IF k < i THEN ds[k] ELSE IF k < i + Len(ps) THEN ps[k - i + 1]
                      ELSE ds[k + 1 - Len(ps)]
    BY SplicedElements
  <2>. HIDE DEF new
  <2>. QED BY <2>1
<1>. HIDE DEF new
<1>2. ASSUME NEW k \in DOMAIN new, Old(k)
      PROVE  From(k) \in DOMAIN ds /\ From(k) # i /\ new[k] = ds[From(k)]
  <2>1. From(k) \in 1 .. Len(ds) /\ From(k) # i
    BY <1>1, <1>2
  <2>2. new[k] = ds[From(k)]
    BY <1>1, <1>2
  <2>. QED BY <2>1, <2>2
<1>3. ASSUME NEW k \in DOMAIN new, ~Old(k)
      PROVE  k - i + 1 \in DOMAIN ps /\ new[k] = ps[k - i + 1]
  <2>1. k - i + 1 \in 1 .. Len(ps)
    BY <1>1, <1>3
  <2>2. new[k] = ps[k - i + 1]
    BY <1>1, <1>3
  <2>. QED BY <2>1, <2>2
<1>4. SUFFICES ASSUME NEW a \in DOMAIN new, NEW b \in DOMAIN new, a # b
               PROVE  Beside(new[a], new[b])
  BY DEF PairwiseApart, new
<1>5. CASE Old(a) /\ Old(b)
  <2>1. From(a) # From(b)
    BY <1>1, <1>4, <1>5
  <2>. QED BY <2>1, <1>2, <1>5 DEF PairwiseApart
<1>6. CASE ~Old(a) /\ ~Old(b)
  <2>1. a - i + 1 # b - i + 1
    BY <1>1, <1>4
  <2>. QED BY <2>1, <1>3, <1>6 DEF PairwiseApart
<1>7. ASSUME NEW o \in DOMAIN new, Old(o), NEW p \in DOMAIN new, ~Old(p)
      PROVE  Beside(new[o], new[p]) /\ Beside(new[p], new[o])
  <2>1. /\ From(o) \in DOMAIN ds /\ From(o) # i /\ new[o] = ds[From(o)]
        /\ p - i + 1 \in DOMAIN ps /\ new[p] = ps[p - i + 1]
    BY <1>2, <1>3, <1>7
  <2>2. Beside(ds[i], ds[From(o)]) /\ PartOf(ps[p - i + 1], ds[i])
    BY <2>1 DEF PairwiseApart
  <2>3. ds[i] \in AnyDescriptor /\ ds[From(o)] \in AnyDescriptor /\ ps[p - i + 1] \in AnyDescriptor
    BY <2>1
  <2>. QED BY <2>1, <2>2, <2>3, PartsStayApart
<1>8. CASE Old(a) /\ ~Old(b)
  BY <1>7, <1>8
<1>9. CASE ~Old(a) /\ Old(b)
  BY <1>7, <1>9
<1>. QED BY <1>5, <1>6, <1>8, <1>9

LEMMA TwoAndThree ==
    ASSUME NEW a, NEW b, NEW c
    PROVE  /\ <<a>> \o <<b>> = <<a, b>> /\ <<a, b>> \o <<c>> = <<a, b, c>>
           /\ <<a, b>> \o <<>> = <<a, b>> /\ <<>> \o <<b>> = <<b>>
<1>. DEFINE S == {a, b, c}
<1>1. <<a>> \in Seq(S) /\ <<b>> \in Seq(S) /\ <<c>> \in Seq(S) /\ <<a, b>> \in Seq(S)
      /\ <<a, b, c>> \in Seq(S)
  OBVIOUS
<1>. HIDE DEF S
<1>2. <<a>> \o <<b>> = <<a, b>>
  <2>. DEFINE t == <<a>> \o <<b>>
  <2>1. t \in Seq(S) /\ Len(t) = 2
    BY <1>1
  <2>2. t[1] = a /\ t[2] = b
    BY <1>1
  <2>. HIDE DEF t
  <2>3. t = <<a, b>>
    BY <2>1, <2>2, <1>1
  <2>. QED BY <2>3 DEF t
<1>3. <<a, b>> \o <<c>> = <<a, b, c>>
  <2>. DEFINE t == <<a, b>> \o <<c>>
  <2>1. t \in Seq(S) /\ Len(t) = 3
    BY <1>1
  <2>2. t[1] = a /\ t[2] = b /\ t[3] = c
    BY <1>1
  <2>. HIDE DEF t
  <2>3. t = <<a, b, c>>
    BY <2>1, <2>2, <1>1
  <2>. QED BY <2>3 DEF t
<1>4. <<a, b>> \o <<>> = <<a, b>> /\ <<>> \o <<b>> = <<b>>
  BY <1>1, ConcatEmptySeq
<1>. QED BY <1>2, <1>3, <1>4

\* Concatenations, grouped as AllocatePages and as Spliced have them.
Regroups(a, b, c, d) == ((a \o b) \o c) \o d = a \o ((b \o c) \o d)

LEMMA Regrouped == \A a, b, c, d \in Seq(AnyDescriptor) : Regroups(a, b, c, d)
<1>. SUFFICES ASSUME NEW a \in Seq(AnyDescriptor), NEW b \in Seq(AnyDescriptor),
                     NEW c \in Seq(AnyDescriptor), NEW d \in Seq(AnyDescriptor)
              PROVE  Regroups(a, b, c, d)
  OBVIOUS
<1>. QED BY SMTT(30) DEF Regroups

\* The pages in front, those given away and those behind, as AllocatePages
\* writes them.
Part(d, skip, n, type) ==
    IF n = 0 THEN <<>> ELSE <<[start |-> d.start + skip * PageSize, pages |-> n, type |-> type]>>

LEMMA PartIsPart ==
    ASSUME NEW d \in AnyDescriptor, NEW skip \in Nat, NEW n \in Nat \ {0}, NEW type \in UefiTypes,
           skip + n <= d.pages
    PROVE  LET p == [start |-> d.start + skip * PageSize, pages |-> n, type |-> type]
           IN  /\ p \in AnyDescriptor /\ PartOf(p, d)
               /\ p.start = d.start + (skip * PageSize)
               /\ End(p) <= d.start + ((skip + n) * PageSize)
<1>. DEFINE p == [start |-> d.start + skip * PageSize, pages |-> n, type |-> type]
<1>1. d.start \in Nat /\ d.pages \in Nat /\ PageSize \in Nat /\ Top \in Nat
  BY MapAssumption DEF AnyDescriptor
<1>2. /\ skip * PageSize \in Nat /\ n * PageSize \in Nat
      /\ (skip + n) * PageSize = (skip * PageSize) + (n * PageSize)
  BY <1>1, TimesMonotone
<1>3. (skip + n) * PageSize <= d.pages * PageSize /\ d.pages * PageSize \in Nat
  <2>1. PICK rest \in Nat : d.pages = skip + n + rest
    <3>1. d.pages - (skip + n) \in Nat /\ d.pages = skip + n + (d.pages - (skip + n))
      BY <1>1
    <3>. QED BY <3>1
  <2>2. skip + n \in Nat
    OBVIOUS
  <2>. QED BY <1>1, <2>1, <2>2, TimesMonotone
<1>4. p \in AnyDescriptor
  <2>1. d.start + skip * PageSize \in Nat
    BY <1>1, <1>2
  <2>. QED BY <2>1 DEF AnyDescriptor
<1>5. p.start = d.start + (skip * PageSize) /\ p.pages = n
  OBVIOUS
<1>. HIDE DEF p
<1>6. p.start + (p.pages * PageSize) = d.start + ((skip + n) * PageSize)
  BY <1>1, <1>2, <1>5
<1>7. End(p) = Saturated(d.start + ((skip + n) * PageSize))
  BY <1>6 DEF End
<1>8. End(p) <= End(d) /\ End(p) <= d.start + ((skip + n) * PageSize)
  <2>1. (skip + n) * PageSize \in Nat
    BY <1>2
  <2>. QED BY <1>1, <1>3, <1>7, <2>1 DEF End, Saturated
<1>9. d.start <= p.start
  BY <1>1, <1>2, <1>5
<1>. QED BY <1>4, <1>5, <1>8, <1>9 DEF PartOf, p

Parts(d, before, pages) ==
    Part(d, 0, before, "conventional") \o Part(d, before, pages, "other")
        \o Part(d, before + pages, d.pages - before - pages, "conventional")

LEMMA PartsApart ==
    ASSUME NEW d \in AnyDescriptor, NEW before \in Nat, NEW pages \in Nat \ {0},
           before + pages <= d.pages
    PROVE  /\ Parts(d, before, pages) \in Seq(AnyDescriptor)
           /\ PairwiseApart(Parts(d, before, pages))
           /\ \A k \in DOMAIN Parts(d, before, pages) : PartOf(Parts(d, before, pages)[k], d)
<1>. DEFINE rest == d.pages - before - pages
            a == [start |-> d.start + 0 * PageSize, pages |-> before, type |-> "conventional"]
            b == [start |-> d.start + before * PageSize, pages |-> pages, type |-> "other"]
            c == [start |-> d.start + (before + pages) * PageSize, pages |-> rest,
                  type |-> "conventional"]
<1>1. d.start \in Nat /\ d.pages \in Nat /\ PageSize \in Nat /\ rest \in Nat
      /\ 0 + before = before /\ before + pages + rest = d.pages
  BY MapAssumption DEF AnyDescriptor
<1>2. "conventional" \in UefiTypes /\ "other" \in UefiTypes
  BY DEF UefiTypes
<1>3. /\ b \in AnyDescriptor /\ PartOf(b, d)
      /\ b.start = d.start + (before * PageSize)
      /\ End(b) <= d.start + ((before + pages) * PageSize)
  BY <1>1, <1>2, PartIsPart
<1>4. ASSUME before # 0
      PROVE  a \in AnyDescriptor /\ PartOf(a, d) /\ End(a) <= d.start + (before * PageSize)
  <2>1. /\ a \in AnyDescriptor /\ PartOf(a, d)
        /\ End(a) <= d.start + ((0 + before) * PageSize)
    BY <1>1, <1>2, <1>4, PartIsPart
  <2>. QED BY <1>1, <2>1
<1>5. ASSUME rest # 0
      PROVE  c \in AnyDescriptor /\ PartOf(c, d)
             /\ c.start = d.start + ((before + pages) * PageSize)
  <2>1. before + pages \in Nat /\ rest \in Nat \ {0} /\ (before + pages) + rest <= d.pages
    BY <1>1, <1>5
  <2>. HIDE DEF rest
  <2>. QED BY <1>2, <2>1, PartIsPart
<1>. HIDE DEF a, b, c
<1>6. before # 0 => Beside(a, b) /\ Beside(b, a)
  BY <1>3, <1>4 DEF Beside
<1>7. rest # 0 => Beside(b, c) /\ Beside(c, b)
  BY <1>3, <1>5 DEF Beside
<1>8. before # 0 /\ rest # 0 => Beside(a, c) /\ Beside(c, a)
  <2>. SUFFICES ASSUME before # 0, rest # 0 PROVE End(a) <= c.start
    BY DEF Beside
  <2>1. End(a) \in Nat /\ End(a) <= d.start + (before * PageSize)
        /\ c.start = d.start + ((before + pages) * PageSize)
    BY <1>4, <1>5, EndBounded
  <2>2. /\ before * PageSize \in Nat /\ (before + pages) * PageSize \in Nat
        /\ before * PageSize <= (before + pages) * PageSize
    <3>1. before + pages \in Nat
      OBVIOUS
    <3>. QED BY <1>1, <3>1, TimesMonotone
  <2>. QED BY <1>1, <2>1, <2>2
<1>. HIDE DEF rest
<1>9. Parts(d, before, pages) = (IF before = 0 THEN <<>> ELSE <<a>>) \o <<b>>
                                  \o (IF rest = 0 THEN <<>> ELSE <<c>>)
  BY DEF Parts, Part, rest, a, b, c
<1>10. CASE before = 0 /\ rest = 0
  <2>1. Parts(d, before, pages) = <<b>>
    BY <1>3, <1>9, <1>10
  <2>. QED BY <2>1, <1>3 DEF PairwiseApart
<1>11. CASE before # 0 /\ rest = 0
  <2>1. Parts(d, before, pages) = <<a, b>>
    BY <1>9, <1>11, TwoAndThree
  <2>. QED BY <2>1, <1>3, <1>4, <1>6, <1>11 DEF PairwiseApart
<1>12. CASE before = 0 /\ rest # 0
  <2>1. Parts(d, before, pages) = <<b, c>>
    BY <1>9, <1>12, TwoAndThree
  <2>. QED BY <2>1, <1>3, <1>5, <1>7, <1>12 DEF PairwiseApart
<1>13. CASE before # 0 /\ rest # 0
  <2>1. Parts(d, before, pages) = <<a, b, c>>
    <3>1. Parts(d, before, pages) = (<<a>> \o <<b>>) \o <<c>>
      BY <1>9, <1>13
    <3>2. <<a>> \o <<b>> = <<a, b>> /\ <<a, b>> \o <<c>> = <<a, b, c>>
      BY TwoAndThree
    <3>. QED BY <3>1, <3>2
  <2>2. PairwiseApart(<<a, b, c>>)
    BY <1>3, <1>4, <1>5, <1>6, <1>7, <1>8, <1>13 DEF PairwiseApart
  <2>. QED BY <2>1, <2>2, <1>3, <1>4, <1>5, <1>13
<1>. QED BY <1>10, <1>11, <1>12, <1>13

-----------------------------------------------------------------------------
(***************************************************************************)
(* The invariant.                                                          *)
(***************************************************************************)
LEMMA InitMapInv ==
    ASSUME DescriptorsApart, MapInit
    PROVE  MapInv
<1>1. PICK m \in Machines : descriptors = m.descriptors /\ ranges = m.ranges
  BY DEF MapInit
<1>2. m.descriptors \in Seq(Descriptors) /\ m.ranges \in Seq(Ranges)
  BY MapAssumption
<1>3. Descriptors \subseteq AnyDescriptor
  BY MapAssumption DEF Descriptors, AnyDescriptor
<1>4. descriptors \in Seq(AnyDescriptor)
  BY <1>1, <1>2, <1>3
<1>5. PairwiseApart(descriptors)
  BY <1>1 DEF DescriptorsApart
<1>6. entries = <<>> /\ index = 0 /\ cursor = 0 /\ phase = "boot"
  BY DEF MapInit
<1>7. TypeInv
  BY <1>1, <1>2, <1>4, <1>6 DEF TypeInv
<1>. QED BY <1>5, <1>6, <1>7 DEF MapInv

LEMMA AllocatePagesKeepsMapInv ==
    ASSUME MapInv, NEW i \in DOMAIN descriptors,
           NEW before \in 0 .. descriptors[i].pages, NEW pages \in 1 .. descriptors[i].pages,
           AllocatePages(i, before, pages)
    PROVE  MapInv'
<1>. DEFINE d == descriptors[i]
<1>1. descriptors \in Seq(AnyDescriptor) /\ PairwiseApart(descriptors)
  BY DEF MapInv, TypeInv
<1>2. d \in AnyDescriptor /\ before \in Nat /\ pages \in Nat \ {0} /\ before + pages <= d.pages
  <2>1. d \in AnyDescriptor
    BY <1>1
  <2>2. d.pages \in Nat
    BY <2>1 DEF AnyDescriptor
  <2>. QED BY <2>1, <2>2 DEF AllocatePages
<1>3. descriptors' = Spliced(descriptors, i, Parts(d, before, pages))
  <2>. DEFINE front == SubSeq(descriptors, 1, i - 1)
              back == SubSeq(descriptors, i + 1, Len(descriptors))
              p1 == Part(d, 0, before, "conventional")
              p2 == Part(d, before, pages, "other")
              p3 == Part(d, before + pages, d.pages - before - pages, "conventional")
  <2>1. descriptors' = front \o p1 \o p2 \o p3 \o back
    BY DEF AllocatePages, Part
  <2>2. p1 \in Seq(AnyDescriptor) /\ p2 \in Seq(AnyDescriptor) /\ p3 \in Seq(AnyDescriptor)
    <3>1. d.pages \in Nat /\ d.start \in Nat /\ PageSize \in Nat
      BY <1>2, MapAssumption DEF AnyDescriptor
    <3>2. "conventional" \in UefiTypes /\ "other" \in UefiTypes
      BY DEF UefiTypes
    <3>3. ASSUME NEW skip \in Nat, NEW n \in Nat, NEW type \in UefiTypes, skip + n <= d.pages
          PROVE  Part(d, skip, n, type) \in Seq(AnyDescriptor)
      BY <1>2, <3>3, PartIsPart DEF Part
    <3>4. before + pages \in Nat /\ d.pages - before - pages \in Nat
          /\ (before + pages) + (d.pages - before - pages) <= d.pages /\ 0 + before <= d.pages
      BY <3>1, <1>2
    <3>. QED BY <3>2, <3>3, <3>4, <1>2
  <2>3. front \in Seq(AnyDescriptor) /\ i \in DOMAIN descriptors
    BY <1>1
  <2>. HIDE DEF p1, p2, p3, front, back
  <2>4. ((front \o p1) \o p2) \o p3 = front \o ((p1 \o p2) \o p3)
    <3>1. Regroups(front, p1, p2, p3)
      BY <2>2, <2>3, Regrouped, Zenon
    <3>. QED BY <3>1, Zenon DEF Regroups
  <2>5. descriptors' = (front \o ((p1 \o p2) \o p3)) \o back
    BY <2>1, <2>4
  <2>6. Parts(d, before, pages) = (p1 \o p2) \o p3
    BY DEF Parts, p1, p2, p3
  <2>7. Spliced(descriptors, i, (p1 \o p2) \o p3) = (front \o ((p1 \o p2) \o p3)) \o back
    BY DEF Spliced, front, back
  <2>. QED BY <2>5, <2>6, <2>7
<1>4. descriptors' \in Seq(AnyDescriptor) /\ PairwiseApart(descriptors')
  <2>1. /\ Parts(d, before, pages) \in Seq(AnyDescriptor)
        /\ PairwiseApart(Parts(d, before, pages))
        /\ \A k \in DOMAIN Parts(d, before, pages) : PartOf(Parts(d, before, pages)[k], d)
    BY <1>2, PartsApart
  <2>. HIDE DEF d
  <2>. QED BY <1>1, <1>3, <2>1, SplicedApart, SplicedElements DEF d
<1>5. phase = "prepared" /\ UNCHANGED <<phase, ranges, index, cursor, entries>>
  BY DEF AllocatePages
<1>6. entries = <<>>
  BY <1>5 DEF MapInv
<1>7. TypeInv'
  BY <1>4, <1>5 DEF MapInv, TypeInv
<1>8. PairwiseApart(descriptors)'
  BY <1>4 DEF PairwiseApart, Beside, End, Saturated
<1>. QED BY <1>5, <1>6, <1>7, <1>8 DEF MapInv

\* The cursor moves to the next descriptor; what is listed comes from those
\* before it.
LEMMA AtKeepsMapInv ==
    ASSUME MapInv, NEW n \in Nat \ {0}, At(n), UNCHANGED <<descriptors, ranges, entries>>,
           \A i \in DOMAIN entries :
             \E j \in DOMAIN descriptors :
               /\ j < n
               /\ descriptors[j].start <= entries[i].base
               /\ EntryEnd(entries[i]) <= End(descriptors[j])
    PROVE  MapInv'
<1>1. /\ descriptors' = descriptors /\ ranges' = ranges /\ entries' = entries /\ index' = n
      /\ phase' \in {"populating", "done"}
  BY DEF At
<1>2. descriptors \in Seq(AnyDescriptor)
  BY DEF MapInv, TypeInv
<1>3. /\ phase' = "populating" => n \in DOMAIN descriptors /\ cursor' = descriptors[n].start
      /\ cursor' \in Nat
  <2>1. CASE n <= Len(descriptors)
    <3>1. n \in DOMAIN descriptors /\ cursor' = descriptors[n].start
      BY <1>2, <2>1 DEF At
    <3>2. descriptors[n] \in AnyDescriptor
      BY <1>2, <3>1
    <3>3. descriptors[n].start \in Nat
      BY <3>2 DEF AnyDescriptor
    <3>. QED BY <3>1, <3>3
  <2>2. CASE ~(n <= Len(descriptors))
    BY <2>2 DEF At
  <2>. QED BY <2>1, <2>2
<1>4. TypeInv'
  BY <1>1, <1>3 DEF MapInv, TypeInv
<1>5. phase' = "populating" => index' \in DOMAIN descriptors' /\ descriptors'[index'].start <= cursor'
  <2>1. ASSUME n \in DOMAIN descriptors PROVE descriptors[n].start \in Nat
    <3>1. descriptors[n] \in AnyDescriptor
      BY <1>2, <2>1
    <3>. QED BY <3>1 DEF AnyDescriptor
  <2>. QED BY <1>1, <1>3, <2>1
<1>6. ASSUME NEW i \in DOMAIN entries'
      PROVE  FromDescriptor(entries[i])' /\ Unclaimed(entries[i])'
  <2>1. PICK j \in DOMAIN descriptors :
          /\ j < n
          /\ descriptors[j].start <= entries[i].base
          /\ EntryEnd(entries[i]) <= End(descriptors[j])
    BY <1>1
  <2>2. j \in Nat /\ j <= n /\ j # n
    BY <1>2, <2>1
  <2>3. EntryEnd(entries[i])' = EntryEnd(entries[i]) /\ End(descriptors[j])' = End(descriptors[j])
    BY <1>1 DEF EntryEnd, End, Saturated
  <2>4. FromDescriptor(entries[i])'
    BY <1>1, <2>1, <2>2, <2>3 DEF FromDescriptor
  <2>5. Unclaimed(entries[i])'
    <3>1. Unclaimed(entries[i])
      BY <1>1 DEF MapInv
    <3>. QED BY <1>1, <3>1 DEF Unclaimed, Offered, EntryEnd, RangesAt, RangeEnd, Saturated
  <2>. QED BY <2>4, <2>5
<1>7. PairwiseApart(descriptors)'
  BY <1>1 DEF MapInv, PairwiseApart, Beside, End, Saturated
<1>8. phase' \notin {"boot", "prepared"}
  BY <1>1
<1>9. \A i, j \in DOMAIN entries' :
         i # j => \/ EntryEnd(entries[i])' <= entries'[j].base
                  \/ EntryEnd(entries[j])' <= entries'[i].base
  BY <1>1 DEF MapInv, EntryEnd
<1>. QED BY <1>1, <1>4, <1>5, <1>6, <1>7, <1>8, <1>9 DEF MapInv

LEMMA ExitBootServicesKeepsMapInv ==
    ASSUME MapInv, ExitBootServices
    PROVE  MapInv'
<1>1. entries = <<>> /\ At(1) /\ UNCHANGED <<descriptors, ranges, entries>>
  BY DEF ExitBootServices, MapInv
<1>. QED BY <1>1, AtKeepsMapInv

LEMMA NextDescriptorKeepsMapInv ==
    ASSUME MapInv, NextDescriptor
    PROVE  MapInv'
<1>1. At(index + 1) /\ UNCHANGED <<descriptors, ranges, entries>> /\ index \in Nat
  BY DEF NextDescriptor, MapInv, TypeInv
<1>2. ASSUME NEW i \in DOMAIN entries
      PROVE  \E j \in DOMAIN descriptors :
               /\ j < index + 1
               /\ descriptors[j].start <= entries[i].base
               /\ EntryEnd(entries[i]) <= End(descriptors[j])
  <2>1. PICK j \in DOMAIN descriptors :
          /\ j <= index
          /\ descriptors[j].start <= entries[i].base
          /\ EntryEnd(entries[i]) <= End(descriptors[j])
    BY DEF MapInv, FromDescriptor
  <2>2. j \in Nat
    BY DEF MapInv, TypeInv
  <2>. QED BY <1>1, <2>1, <2>2
<1>. QED BY <1>1, <1>2, AtKeepsMapInv

\* Where a piece may end: with the k-th descriptor, or where a range begins or
\* ends.
CutCount == Len(descriptors) + 2 * Len(ranges)
Cut(k) ==
    IF k <= Len(descriptors) THEN End(descriptors[k])
    ELSE IF k <= Len(descriptors) + Len(ranges) THEN ranges[k - Len(descriptors)].base
    ELSE RangeEnd(ranges[k - Len(descriptors) - Len(ranges)])
IsCut(n) == \E k \in 1 .. CutCount : Cut(k) = n

LEMMA CutsAre ==
    ASSUME TypeInv
    PROVE  /\ \A i \in DOMAIN descriptors : IsCut(End(descriptors[i]))
           /\ \A i \in DOMAIN ranges : IsCut(ranges[i].base) /\ IsCut(RangeEnd(ranges[i]))
<1>1. /\ DOMAIN descriptors = 1 .. Len(descriptors) /\ DOMAIN ranges = 1 .. Len(ranges)
      /\ Len(descriptors) \in Nat /\ Len(ranges) \in Nat
  BY DEF TypeInv
<1>2. ASSUME NEW i \in DOMAIN descriptors PROVE IsCut(End(descriptors[i]))
  <2>1. i \in 1 .. CutCount /\ Cut(i) = End(descriptors[i])
    BY <1>1 DEF CutCount, Cut
  <2>. QED BY <2>1 DEF IsCut
<1>3. ASSUME NEW i \in DOMAIN ranges PROVE IsCut(ranges[i].base)
  <2>. DEFINE k == Len(descriptors) + i
  <2>1. /\ k \in 1 .. CutCount /\ ~(k <= Len(descriptors))
        /\ k <= Len(descriptors) + Len(ranges) /\ k - Len(descriptors) = i
    BY <1>1 DEF CutCount
  <2>. HIDE DEF k
  <2>2. Cut(k) = ranges[i].base
    BY <2>1 DEF Cut
  <2>. QED BY <2>1, <2>2 DEF IsCut
<1>4. ASSUME NEW i \in DOMAIN ranges PROVE IsCut(RangeEnd(ranges[i]))
  <2>. DEFINE k == Len(descriptors) + Len(ranges) + i
  <2>1. /\ k \in 1 .. CutCount /\ ~(k <= Len(descriptors))
        /\ ~(k <= Len(descriptors) + Len(ranges)) /\ k - Len(descriptors) - Len(ranges) = i
    BY <1>1 DEF CutCount
  <2>. HIDE DEF k
  <2>2. Cut(k) = RangeEnd(ranges[i])
    BY <2>1 DEF Cut
  <2>. QED BY <2>1, <2>2 DEF IsCut
<1>. QED BY <1>2, <1>3, <1>4

\* The piece written lies in the descriptor, behind the cursor, and no range
\* begins or ends in it.
LEMMA PieceEnds ==
    ASSUME MapInv, phase = "populating", cursor < End(descriptors[index])
    PROVE  LET d == descriptors[index]
           IN  /\ d \in AnyDescriptor
               /\ IsCut(PieceEnd(d))
               /\ PieceEnd(d) \in Nat /\ cursor < PieceEnd(d) /\ PieceEnd(d) <= End(d)
               /\ \A i \in DOMAIN ranges :
                    /\ ranges[i] \in RangesAt(cursor) => PieceEnd(d) <= RangeEnd(ranges[i])
                    /\ ranges[i].base > cursor => PieceEnd(d) <= ranges[i].base
<1>. DEFINE d == descriptors[index]
            listed == {ranges[i] : i \in DOMAIN ranges}
            ends == {End(d)} \cup {RangeEnd(r) : r \in RangesAt(cursor)}
                       \cup {r.base : r \in {s \in listed : s.base > cursor}}
<1>1. d \in AnyDescriptor /\ cursor \in Nat /\ cursor < End(d)
  BY DEF MapInv, TypeInv
<1>2. End(d) \in Nat
  BY <1>1, EndBounded
<1>3. ASSUME NEW r \in listed PROVE r.base \in Nat /\ RangeEnd(r) \in Nat
  <2>1. r \in Ranges
    BY DEF MapInv, TypeInv
  <2>2. r.base \in Nat /\ r.length \in Nat /\ Top \in Nat
    BY <2>1, MapAssumption DEF Ranges
  <2>. QED BY <2>2 DEF RangeEnd, Saturated
<1>4. ASSUME NEW r \in RangesAt(cursor) PROVE r \in listed /\ cursor < RangeEnd(r)
  BY <1>1, <1>3 DEF RangesAt
<1>5. \A n \in ends : n \in Nat /\ cursor < n
  BY <1>1, <1>2, <1>3, <1>4
<1>6. PieceEnd(d) = Least(ends)
  BY DEF PieceEnd
<1>7. PieceEnd(d) \in ends /\ \A n \in ends : PieceEnd(d) <= n
  <2>1. ends \in SUBSET Nat /\ ends # {}
    BY <1>5
  <2>. HIDE DEF ends
  <2>. QED BY <2>1, <1>6, LeastExists
<1>8. \A i \in DOMAIN ranges :
        /\ ranges[i] \in RangesAt(cursor) => PieceEnd(d) <= RangeEnd(ranges[i])
        /\ ranges[i].base > cursor => PieceEnd(d) <= ranges[i].base
  BY <1>7
<1>9. IsCut(PieceEnd(d))
  <2>1. \/ PieceEnd(d) = End(d)
        \/ \E i \in DOMAIN ranges : PieceEnd(d) = RangeEnd(ranges[i])
        \/ \E i \in DOMAIN ranges : PieceEnd(d) = ranges[i].base
    BY <1>4, <1>7
  <2>. QED BY <2>1, CutsAre DEF MapInv, TypeInv
<1>. QED BY <1>1, <1>5, <1>7, <1>8, <1>9

\* The ranges at the cursor have a last one.
LEMMA LastInside ==
    ASSUME ranges \in Seq(Ranges), NEW inside \in SUBSET (DOMAIN ranges), inside # {}
    PROVE  (CHOOSE i \in inside : \A j \in inside : j <= i) \in inside
<1>. DEFINE below == {n \in Nat : \A i \in inside : i <= n}
<1>1. inside \in SUBSET (1 .. Len(ranges)) /\ Len(ranges) \in Nat
  OBVIOUS
<1>2. below \in SUBSET Nat /\ Len(ranges) \in below
  BY <1>1
<1>3. Least(below) \in below /\ \A n \in below : Least(below) <= n
  BY <1>2, LeastExists
<1>4. Least(below) \in inside
  <2>. SUFFICES ASSUME Least(below) \notin inside PROVE FALSE
    OBVIOUS
  <2>1. PICK i \in inside : TRUE
    OBVIOUS
  <2>2. i \in Nat \ {0} /\ i <= Least(below) /\ Least(below) \in Nat
    BY <1>1, <1>3
  <2>3. Least(below) - 1 \in below
    <3>1. ASSUME NEW j \in inside PROVE j <= Least(below) - 1
      <4>1. j \in Nat /\ j <= Least(below) /\ j # Least(below)
        BY <1>1, <1>3
      <4>. QED BY <2>2, <4>1
    <3>. QED BY <2>2, <3>1
  <2>. QED BY <1>3, <2>2, <2>3, SMTT(30)
<1>. QED BY <1>3, <1>4

\* A piece that is offered is in no range: none is at the cursor, and it ends
\* before the next one.
LEMMA PieceUnclaimed ==
    ASSUME MapInv, Piece,
           NEW listed, listed = PieceKind(descriptors[index]), listed \in {0, 2, 5},
           NEW a \in cursor .. PieceEnd(descriptors[index]) - 1
    PROVE  RangesAt(a) = {}
<1>. DEFINE d == descriptors[index]
            inside == {i \in DOMAIN ranges : ranges[i] \in RangesAt(cursor)}
<1>1. /\ d \in AnyDescriptor /\ PieceEnd(d) \in Nat /\ cursor < PieceEnd(d)
      /\ \A i \in DOMAIN ranges :
           /\ ranges[i] \in RangesAt(cursor) => PieceEnd(d) <= RangeEnd(ranges[i])
           /\ ranges[i].base > cursor => PieceEnd(d) <= ranges[i].base
  BY PieceEnds DEF Piece
<1>2. cursor \in Nat /\ ranges \in Seq(Ranges) /\ a \in Nat /\ cursor <= a /\ a < PieceEnd(d)
  BY <1>1 DEF MapInv, TypeInv
<1>3. inside = {}
  <2>. SUFFICES ASSUME inside # {} PROVE FALSE
    OBVIOUS
  <2>. DEFINE last == CHOOSE i \in inside : \A j \in inside : j <= i
  <2>1. listed = ranges[last].kind
    BY DEF PieceKind
  <2>2. last \in inside
    BY <1>2, LastInside
  <2>3. last \in DOMAIN ranges
    BY <2>2
  <2>4. ranges[last] \in Ranges
    BY <1>2, <2>3
  <2>5. ranges[last].kind \in {6, 7}
    BY <2>4 DEF Ranges
  <2>. QED BY <2>1, <2>5
<1>4. SUFFICES ASSUME NEW i \in DOMAIN ranges, ranges[i] \in RangesAt(a)
               PROVE  FALSE
  BY DEF RangesAt
<1>5. ranges[i].base \in Nat /\ RangeEnd(ranges[i]) \in Nat
  <2>1. ranges[i] \in Ranges
    BY <1>2
  <2>2. ranges[i].base \in Nat /\ ranges[i].length \in Nat /\ Top \in Nat
    BY <2>1, MapAssumption DEF Ranges
  <2>. QED BY <2>2 DEF RangeEnd, Saturated
<1>6. ranges[i].base <= a /\ a < RangeEnd(ranges[i])
  BY <1>2, <1>5, <1>4 DEF RangesAt
<1>7. ranges[i].base <= cursor
  BY <1>1, <1>2, <1>5, <1>6
<1>8. ranges[i] \in RangesAt(cursor)
  BY <1>2, <1>5, <1>6, <1>7 DEF RangesAt
<1>. QED BY <1>3, <1>8

\* The entries there are lie before the next piece or behind it.
LEMMA EntriesBeside ==
    ASSUME MapInv, phase = "populating", cursor < End(descriptors[index]),
           NEW i \in DOMAIN entries
    PROVE  EntryEnd(entries[i]) <= cursor \/ PieceEnd(descriptors[index]) <= entries[i].base
<1>. DEFINE d == descriptors[index]
<1>1. d \in AnyDescriptor /\ PieceEnd(d) \in Nat /\ PieceEnd(d) <= End(d)
  BY PieceEnds
<1>2. index \in DOMAIN descriptors /\ d.start <= cursor /\ cursor \in Nat
  BY DEF MapInv, TypeInv
<1>3. PICK j \in DOMAIN descriptors :
        /\ descriptors[j].start <= entries[i].base /\ EntryEnd(entries[i]) <= End(descriptors[j])
        /\ j = index => EntryEnd(entries[i]) <= cursor
  BY DEF MapInv, FromDescriptor
<1>4. entries[i] \in AnyEntry /\ descriptors[j] \in AnyDescriptor
  BY DEF MapInv, TypeInv
<1>5. /\ entries[i].base \in Nat /\ EntryEnd(entries[i]) \in Nat
      /\ End(descriptors[j]) \in Nat /\ End(d) \in Nat
      /\ descriptors[j].start \in Nat /\ d.start \in Nat
  BY <1>1, <1>4, EndBounded DEF AnyDescriptor, AnyEntry, EntryEnd
<1>6. CASE j # index
  <2>1. Beside(descriptors[j], d)
    BY <1>2, <1>6 DEF MapInv, PairwiseApart
  <2>. QED BY <1>1, <1>2, <1>3, <1>5, <2>1 DEF Beside
<1>. QED BY <1>3, <1>6

LEMMA PieceKeepsMapInv ==
    ASSUME MapInv, Piece
    PROVE  MapInv'
<1>. DEFINE d == descriptors[index]
            new == [base |-> cursor, length |-> PieceEnd(d) - cursor, kind |-> PieceKind(d)]
<1>. PICK n : n = Len(entries) + 1
  OBVIOUS
<1>1. /\ d \in AnyDescriptor /\ PieceEnd(d) \in Nat /\ cursor < PieceEnd(d)
      /\ PieceEnd(d) <= End(d)
  BY PieceEnds DEF Piece
<1>2. /\ phase = "populating" /\ index \in DOMAIN descriptors /\ d.start <= cursor
      /\ cursor \in Nat /\ index \in Nat /\ entries \in Seq(AnyEntry)
  BY DEF MapInv, TypeInv, Piece
<1>3. /\ entries' = Append(entries, new) /\ cursor' = PieceEnd(d)
      /\ UNCHANGED <<phase, descriptors, ranges, index>>
  BY DEF Piece
<1>4. PieceKind(d) \in Nat
  <2>. DEFINE inside == {i \in DOMAIN ranges : ranges[i] \in RangesAt(cursor)}
  <2>1. CASE inside = {}
    BY <2>1 DEF PieceKind, uefi_memory_kind
  <2>2. CASE inside # {}
    <3>1. PICK last \in inside : PieceKind(d) = ranges[last].kind
      <4>1. inside \in SUBSET (DOMAIN ranges) /\ ranges \in Seq(Ranges)
        BY DEF MapInv, TypeInv
      <4>2. PieceKind(d) = ranges[CHOOSE i \in inside : \A j \in inside : j <= i].kind
        BY <2>2 DEF PieceKind
      <4>. HIDE DEF inside
      <4>. QED BY <2>2, <4>1, <4>2, LastInside
    <3>2. ranges[last] \in Ranges
      BY <3>1 DEF MapInv, TypeInv
    <3>. QED BY <3>1, <3>2 DEF Ranges
  <2>. QED BY <2>1, <2>2
<1>5. new \in AnyEntry /\ new.base = cursor /\ EntryEnd(new) = PieceEnd(d) /\ new.kind = PieceKind(d)
  BY <1>1, <1>2, <1>4 DEF AnyEntry, EntryEnd
<1>. HIDE DEF new
<1>6. /\ entries' \in Seq(AnyEntry) /\ DOMAIN entries' = 1 .. n
      /\ DOMAIN entries = 1 .. Len(entries) /\ Len(entries) \in Nat
      /\ entries'[n] = new
      /\ \A i \in DOMAIN entries : i \in DOMAIN entries' /\ entries'[i] = entries[i] /\ i # n
      /\ \A i \in DOMAIN entries' : i = n \/ i \in DOMAIN entries
  BY <1>2, <1>3, <1>5
<1>7. ASSUME NEW i \in DOMAIN entries
      PROVE  /\ entries[i].base \in Nat /\ EntryEnd(entries[i]) \in Nat
             /\ EntryEnd(entries[i]) <= cursor \/ PieceEnd(d) <= entries[i].base
             /\ FromDescriptor(entries[i])' /\ Unclaimed(entries[i])'
  <2>1. entries[i] \in AnyEntry
    BY <1>2
  <2>2. entries[i].base \in Nat /\ EntryEnd(entries[i]) \in Nat
    BY <2>1 DEF AnyEntry, EntryEnd
  <2>3. PICK j \in DOMAIN descriptors :
          /\ j <= index
          /\ descriptors[j].start <= entries[i].base /\ EntryEnd(entries[i]) <= End(descriptors[j])
          /\ j = index => EntryEnd(entries[i]) <= cursor
    BY <1>2 DEF MapInv, FromDescriptor
  <2>4. descriptors[j] \in AnyDescriptor
    BY DEF MapInv, TypeInv
  <2>5. /\ End(descriptors[j]) \in Nat /\ End(d) \in Nat
        /\ descriptors[j].start \in Nat /\ d.start \in Nat
    BY <1>1, <2>4, EndBounded DEF AnyDescriptor
  <2>6. EntryEnd(entries[i]) <= cursor \/ PieceEnd(d) <= entries[i].base
    BY EntriesBeside DEF Piece
  <2>7. /\ EntryEnd(entries[i])' = EntryEnd(entries'[i]) /\ entries'[i] = entries[i]
        /\ End(descriptors[j])' = End(descriptors[j])
    BY <1>3, <1>6 DEF EntryEnd, End, Saturated
  <2>8. FromDescriptor(entries[i])'
    <3>1. j = index => EntryEnd(entries[i]) <= cursor'
      BY <1>1, <1>2, <1>3, <2>2, <2>3
    <3>. QED BY <1>3, <2>3, <2>7, <3>1 DEF FromDescriptor
  <2>9. Unclaimed(entries[i])'
    <3>1. Unclaimed(entries[i])
      BY DEF MapInv
    <3>. QED BY <1>3, <2>7, <3>1 DEF Unclaimed, Offered, EntryEnd, RangesAt, RangeEnd, Saturated
  <2>. QED BY <2>2, <2>6, <2>8, <2>9
<1>8. FromDescriptor(entries[n])' /\ Unclaimed(entries[n])'
  <2>1. EntryEnd(entries'[n]) = PieceEnd(d) /\ entries'[n].base = cursor /\ End(d)' = End(d)
    BY <1>3, <1>5, <1>6 DEF EntryEnd, End, Saturated
  <2>2. FromDescriptor(entries[n])'
    <3>1. /\ index \in DOMAIN descriptors' /\ index <= index'
          /\ descriptors'[index].start <= entries'[n].base
          /\ EntryEnd(entries'[n]) <= End(descriptors[index])'
          /\ EntryEnd(entries'[n]) <= cursor'
      BY <1>1, <1>2, <1>3, <2>1
    <3>. QED BY <1>3, <3>1 DEF FromDescriptor
  <2>3. ASSUME Offered(new), NEW a \in cursor .. PieceEnd(d) - 1 PROVE RangesAt(a) = {}
    BY <1>5, <2>3, PieceUnclaimed DEF Offered
  <2>4. Unclaimed(entries[n])'
    BY <1>3, <1>6, <2>1, <2>3 DEF Unclaimed, Offered, RangesAt, RangeEnd, Saturated
  <2>. QED BY <2>2, <2>4
<1>9. ASSUME NEW i \in DOMAIN entries', NEW j \in DOMAIN entries', i # j
      PROVE  \/ EntryEnd(entries'[i]) <= entries'[j].base
             \/ EntryEnd(entries'[j]) <= entries'[i].base
  <2>1. /\ EntryEnd(entries'[n]) = PieceEnd(d) /\ entries'[n].base = cursor
        /\ \A k \in DOMAIN entries : /\ EntryEnd(entries'[k]) = EntryEnd(entries[k])
                                      /\ entries'[k].base = entries[k].base
    BY <1>5, <1>6 DEF EntryEnd
  <2>2. CASE i = n
    BY <1>6, <1>7, <1>9, <2>1, <2>2
  <2>3. CASE j = n
    BY <1>6, <1>7, <1>9, <2>1, <2>3
  <2>4. CASE i # n /\ j # n
    <3>1. i \in DOMAIN entries /\ j \in DOMAIN entries
      BY <1>6, <2>4
    <3>. QED BY <1>9, <2>1, <3>1 DEF MapInv
  <2>. QED BY <2>2, <2>3, <2>4
<1>10. TypeInv'
  BY <1>1, <1>3, <1>6 DEF MapInv, TypeInv
<1>11. PairwiseApart(descriptors)'
  BY <1>3 DEF MapInv, PairwiseApart, Beside, End, Saturated
<1>12. \A i \in DOMAIN entries' : FromDescriptor(entries[i])' /\ Unclaimed(entries[i])'
  <2>1. \A i \in DOMAIN entries : FromDescriptor(entries[i])' /\ Unclaimed(entries[i])'
    BY <1>7
  <2>. QED BY <1>6, <1>8, <2>1
<1>13. phase' = "populating" /\ index' \in DOMAIN descriptors'
       /\ descriptors'[index'].start <= cursor'
  <2>1. d.start \in Nat
    BY <1>1 DEF AnyDescriptor
  <2>. QED BY <1>1, <1>2, <1>3, <2>1
<1>. QED BY <1>9, <1>10, <1>11, <1>12, <1>13 DEF MapInv

LEMMA MapInvStep ==
    ASSUME MapInv, [MapNext]_map
    PROVE  MapInv'
<1>1. CASE Prepare
  <2>1. UNCHANGED <<descriptors, ranges, index, cursor, entries>> /\ phase = "boot" /\ phase' = "prepared"
    BY <1>1 DEF Prepare
  <2>2. entries = <<>>
    BY <2>1 DEF MapInv
  <2>3. TypeInv'
    BY <2>1 DEF MapInv, TypeInv
  <2>4. PairwiseApart(descriptors)'
    BY <2>1 DEF MapInv, PairwiseApart, Beside, End, Saturated
  <2>. QED BY <2>1, <2>2, <2>3, <2>4 DEF MapInv
<1>2. CASE \E i \in DOMAIN descriptors :
             \E before \in 0 .. descriptors[i].pages, pages \in 1 .. descriptors[i].pages :
               AllocatePages(i, before, pages)
  BY <1>2, AllocatePagesKeepsMapInv
<1>3. CASE ExitBootServices
  BY <1>3, ExitBootServicesKeepsMapInv
<1>4. CASE Piece
  BY <1>4, PieceKeepsMapInv
<1>5. CASE NextDescriptor
  BY <1>5, NextDescriptorKeepsMapInv
<1>6. CASE UNCHANGED map
  <2>1. UNCHANGED <<phase, descriptors, ranges, index, cursor, entries>>
    BY <1>6 DEF map
  <2>2. TypeInv' /\ PairwiseApart(descriptors)'
    BY <2>1 DEF MapInv, TypeInv, PairwiseApart, Beside, End, Saturated
  <2>3. \A i \in DOMAIN entries' : FromDescriptor(entries[i])' /\ Unclaimed(entries[i])'
    BY <2>1 DEF MapInv, FromDescriptor, Unclaimed, Offered, EntryEnd, End, RangesAt, RangeEnd, Saturated
  <2>. QED BY <2>1, <2>2, <2>3 DEF MapInv, EntryEnd
<1>. QED BY <1>1, <1>2, <1>3, <1>4, <1>5, <1>6 DEF MapNext

LEMMA MapInvIsSafe == MapInv => MapSafe
<1>. SUFFICES ASSUME MapInv PROVE MapSafe
  OBVIOUS
<1>0. ASSUME NEW k \in DOMAIN entries
      PROVE  /\ entries[k].base \in Nat /\ EntryEnd(entries[k]) \in Nat
             /\ entries[k].base .. EntryEnd(entries[k]) - 1
                  = entries[k].base .. entries[k].base + entries[k].length - 1
  <2>1. entries[k] \in AnyEntry
    BY DEF MapInv, TypeInv
  <2>2. entries[k].base \in Nat /\ entries[k].length \in Nat
    BY <2>1 DEF AnyEntry
  <2>. QED BY <2>2 DEF EntryEnd
<1>. SUFFICES ASSUME NEW i \in DOMAIN entries
     PROVE  /\ entries[i].kind \in {0, 2, 5} =>
                 \A a \in entries[i].base .. EntryEnd(entries[i]) - 1 : RangesAt(a) = {}
            /\ \A a \in entries[i].base .. EntryEnd(entries[i]) - 1 : EntriesAt(a) = {i}
  BY <1>0 DEF MapSafe
<1>1. entries[i].kind \in {0, 2, 5} =>
        \A a \in entries[i].base .. EntryEnd(entries[i]) - 1 : RangesAt(a) = {}
  BY DEF MapInv, Unclaimed, Offered
<1>2. ASSUME NEW a \in entries[i].base .. EntryEnd(entries[i]) - 1
      PROVE  EntriesAt(a) = {i}
  <2>2. EntriesAt(a) = {k \in DOMAIN entries : a \in entries[k].base .. EntryEnd(entries[k]) - 1}
    BY <1>0 DEF EntriesAt
  <2>3. ASSUME NEW k \in DOMAIN entries, a \in entries[k].base .. EntryEnd(entries[k]) - 1
        PROVE  k = i
    <3>1. k # i => \/ EntryEnd(entries[i]) <= entries[k].base
                   \/ EntryEnd(entries[k]) <= entries[i].base
      BY DEF MapInv
    <3>. QED BY <1>0, <1>2, <2>3, <3>1
  <2>. QED BY <2>2, <2>3, <1>2
<1>. QED BY <1>1, <1>2

\* MapInv is about a boot with a map; in others no map is made.
MapPart ==
    /\ kind = "map" => MapInv
    /\ kind # "map" => entries = <<>> /\ phase = "none"

\* A step of the handover is one of the map's, or leaves that alone.
LEMMA MapSteps ==
    ASSUME [Next]_vars
    PROVE  /\ kind' = kind
           /\ kind = "map" => [MapNext]_map
           /\ kind # "map" => UNCHANGED map
BY DEF Next, vars, map

\* MapInv holds of every behaviour of memory_map_response and populate.
THEOREM MapInvariance == DescriptorsApart /\ Spec => []MapPart
<1>1. DescriptorsApart /\ Init => MapPart
  BY InitMapInv DEF Init, NoMap, MapPart
<1>2. MapPart /\ [Next]_vars => MapPart'
  <2>. SUFFICES ASSUME MapPart, [Next]_vars PROVE MapPart'
    OBVIOUS
  <2>1. CASE kind = "map"
    BY <2>1, MapSteps, MapInvStep DEF MapPart
  <2>2. CASE kind # "map"
    BY <2>2, MapSteps DEF MapPart, map
  <2>. QED BY <2>1, <2>2
<1>. QED BY <1>1, <1>2, PTL DEF Spec

\* Whatever the map, the ranges, the allocations and the room, the kernel is
\* offered no memory that it or a module is in, and none twice.
THEOREM MapIsSafe == DescriptorsApart /\ Spec => []MapSafe
<1>1. MapPart => MapSafe
  <2>1. entries = <<>> => MapSafe
    BY DEF MapSafe
  <2>. QED BY <2>1, MapInvIsSafe DEF MapPart
<1>. QED BY <1>1, MapInvariance, PTL

-----------------------------------------------------------------------------
(***************************************************************************)
(* The map is exact as long as it fits.                                    *)
(***************************************************************************)
\* Kernel and modules are in pages of their own, the framebuffer in none.
KindsApart(rs) ==
    \A i, j \in DOMAIN rs :
        rs[i].kind # rs[j].kind => RangeEnd(rs[i]) <= rs[j].base \/ RangeEnd(rs[j]) <= rs[i].base
RangesApart == \A m \in Machines : KindsApart(m.ranges)

Fits == Len(descriptors) <= counted + Slack

Lists(e, a) == e.base <= a /\ a < EntryEnd(e)

\* An entry has the kind of each of its addresses.
KindTrue(e) ==
    \A j \in DOMAIN descriptors :
        descriptors[j].start <= e.base /\ EntryEnd(e) <= End(descriptors[j]) =>
            \A a \in Nat : Lists(e, a) => e.kind = KindAt(a, descriptors[j])

\* How far a descriptor has been converted.
Reached(j) ==
    IF phase = "done" \/ (phase = "populating" /\ j < index) THEN End(descriptors[j])
    ELSE IF phase = "populating" /\ j = index THEN cursor
    ELSE 0

Covered ==
    \A j \in DOMAIN descriptors : \A a \in Nat :
        descriptors[j].start <= a /\ a < Reached(j) => \E i \in DOMAIN entries : Lists(entries[i], a)

ExactInv ==
    /\ MapInv
    /\ KindsApart(ranges)
    /\ counted \in Nat
    /\ phase # "boot" => capacity = counted + 2 * Len(ranges) + Slack
    /\ \A i \in DOMAIN entries : /\ entries[i].length > 0 /\ IsCut(EntryEnd(entries[i]))
                                 /\ KindTrue(entries[i])
    /\ Fits => Covered

\* Entries end at different cuts, and none where the next piece will: so there
\* is an entry left for it.
LEMMA RoomEnough ==
    ASSUME ExactInv, phase = "populating", Fits, cursor < End(descriptors[index])
    PROVE  Room
<1>. DEFINE d == descriptors[index]
            n == Len(entries) + 1
            EndOf(i) == IF i = n THEN PieceEnd(d) ELSE EntryEnd(entries[i])
            cut == [i \in 1 .. n |-> CHOOSE k \in 1 .. CutCount : Cut(k) = EndOf(i)]
<1>1. /\ MapInv /\ entries \in Seq(AnyEntry) /\ DOMAIN entries = 1 .. Len(entries)
      /\ Len(entries) \in Nat /\ n \in Nat /\ cursor \in Nat
  BY DEF ExactInv, MapInv, TypeInv
<1>2. IsCut(PieceEnd(d)) /\ PieceEnd(d) \in Nat /\ cursor < PieceEnd(d)
  BY <1>1, PieceEnds
<1>3. ASSUME NEW i \in 1 .. Len(entries)
      PROVE  /\ IsCut(EntryEnd(entries[i])) /\ entries[i].base \in Nat
             /\ EntryEnd(entries[i]) \in Nat /\ entries[i].base < EntryEnd(entries[i])
             /\ EntryEnd(entries[i]) # PieceEnd(d)
  <2>1. entries[i] \in AnyEntry /\ i \in DOMAIN entries
    BY <1>1
  <2>2. IsCut(EntryEnd(entries[i])) /\ entries[i].length > 0
    BY <2>1 DEF ExactInv
  <2>3. entries[i].base \in Nat /\ entries[i].length \in Nat
    BY <2>1 DEF AnyEntry
  <2>4. EntryEnd(entries[i]) <= cursor \/ PieceEnd(d) <= entries[i].base
    BY <1>1, <2>1, EntriesBeside
  <2>5. EntryEnd(entries[i]) \in Nat /\ entries[i].base < EntryEnd(entries[i])
    BY <2>2, <2>3 DEF EntryEnd
  <2>. QED BY <1>1, <1>2, <2>2, <2>3, <2>4, <2>5
<1>4. \A i \in 1 .. n : IsCut(EndOf(i))
  BY <1>1, <1>2, <1>3
<1>5. \A i, j \in 1 .. n : i # j => EndOf(i) # EndOf(j)
  <2>1. ASSUME NEW i \in 1 .. Len(entries), NEW j \in 1 .. Len(entries), i # j
        PROVE  EntryEnd(entries[i]) # EntryEnd(entries[j])
    <3>1. \/ EntryEnd(entries[i]) <= entries[j].base
          \/ EntryEnd(entries[j]) <= entries[i].base
      BY <1>1, <2>1 DEF MapInv
    <3>. QED BY <1>3, <3>1
  <2>. QED BY <1>1, <1>3, <2>1
<1>. HIDE DEF EndOf
<1>6. \A i \in 1 .. n : cut[i] \in 1 .. CutCount /\ Cut(cut[i]) = EndOf(i)
  BY <1>4 DEF IsCut
<1>7. \A i, j \in 1 .. n : i # j => cut[i] # cut[j]
  BY <1>5, <1>6
<1>8. cut \in [1 .. n -> 1 .. CutCount]
  BY <1>6
<1>. HIDE DEF cut, n
<1>9. CutCount \in Nat /\ CutCount <= capacity /\ capacity \in Nat
  <2>1. Len(descriptors) \in Nat /\ Len(ranges) \in Nat /\ counted \in Nat /\ Slack \in Nat
    BY MapAssumption DEF ExactInv, MapInv, TypeInv
  <2>2. capacity = counted + 2 * Len(ranges) + Slack
    BY DEF ExactInv
  <2>. QED BY <2>1, <2>2 DEF CutCount, Fits
<1>10. \A m \in Nat : IsFiniteSet(1 .. m) /\ Cardinality(1 .. m) = m
  <2>1. \A a, b \in Int : /\ IsFiniteSet(a .. b)
                          /\ Cardinality(a .. b) = IF a > b THEN 0 ELSE b - a + 1
    BY FS_Interval, Zenon
  <2>. QED BY <2>1
<1>11. ~(CutCount < n)
  <2>. SUFFICES ASSUME CutCount < n PROVE FALSE
    OBVIOUS
  <2>1. Cardinality(1 .. CutCount) < Cardinality(1 .. n)
    BY <1>1, <1>9, <1>10
  <2>2. IsFiniteSet(1 .. n) /\ IsFiniteSet(1 .. CutCount)
    BY <1>1, <1>9, <1>10
  <2>3. \E x, y \in 1 .. n : x # y /\ cut[x] = cut[y]
    BY <1>8, <2>1, <2>2, FS_PigeonHole
  <2>. QED BY <1>7, <2>3
<1>. QED BY <1>1, <1>9, <1>11 DEF Room, n

\* At each address of a piece the ranges are those at its first one.
LEMMA PieceKindTrue ==
    ASSUME MapInv, KindsApart(ranges), Piece, NEW a \in Nat,
           cursor <= a, a < PieceEnd(descriptors[index])
    PROVE  PieceKind(descriptors[index]) = KindAt(a, descriptors[index])
<1>. DEFINE d == descriptors[index]
            here == {i \in DOMAIN ranges : ranges[i] \in RangesAt(cursor)}
            there == {i \in DOMAIN ranges : ranges[i] \in RangesAt(a)}
<1>1. /\ PieceEnd(d) \in Nat
      /\ \A i \in DOMAIN ranges :
           /\ ranges[i] \in RangesAt(cursor) => PieceEnd(d) <= RangeEnd(ranges[i])
           /\ ranges[i].base > cursor => PieceEnd(d) <= ranges[i].base
  BY PieceEnds DEF Piece
<1>2. cursor \in Nat /\ ranges \in Seq(Ranges)
  BY DEF MapInv, TypeInv
<1>3. ASSUME NEW i \in DOMAIN ranges
      PROVE  ranges[i].base \in Nat /\ RangeEnd(ranges[i]) \in Nat
  <2>1. ranges[i] \in Ranges
    BY <1>2
  <2>2. ranges[i].base \in Nat /\ ranges[i].length \in Nat /\ Top \in Nat
    BY <2>1, MapAssumption DEF Ranges
  <2>. QED BY <2>2 DEF RangeEnd, Saturated
<1>4. ASSUME NEW i \in DOMAIN ranges, NEW n \in Nat
      PROVE  ranges[i] \in RangesAt(n) <=> ranges[i].base <= n /\ n < RangeEnd(ranges[i])
  BY <1>3 DEF RangesAt
<1>5. ASSUME NEW i \in DOMAIN ranges
      PROVE  ranges[i] \in RangesAt(cursor) <=> ranges[i] \in RangesAt(a)
  <2>1. ASSUME ranges[i] \in RangesAt(cursor) PROVE ranges[i] \in RangesAt(a)
    BY <1>1, <1>2, <1>3, <1>4, <2>1
  <2>2. ASSUME ranges[i] \in RangesAt(a) PROVE ranges[i] \in RangesAt(cursor)
    BY <1>1, <1>2, <1>3, <1>4, <2>2
  <2>. QED BY <2>1, <2>2
<1>6. here = there
  BY <1>5
<1>7. CASE here = {}
  BY <1>6, <1>7 DEF PieceKind, KindAt
<1>8. CASE here # {}
  <2>. DEFINE last == CHOOSE i \in here : \A j \in here : j <= i
              some == CHOOSE i \in there : TRUE
  <2>1. PieceKind(d) = ranges[last].kind /\ KindAt(a, d) = ranges[some].kind
    BY <1>6, <1>8 DEF PieceKind, KindAt
  <2>2. last \in here /\ some \in here
    <3>1. here \in SUBSET (DOMAIN ranges)
      OBVIOUS
    <3>2. some \in there
      BY <1>6, <1>8
    <3>. HIDE DEF here
    <3>. QED BY <1>2, <1>6, <1>8, <3>1, <3>2, LastInside
  <2>. HIDE DEF last, some
  <2>3. /\ last \in DOMAIN ranges /\ some \in DOMAIN ranges
        /\ ranges[last].base <= a /\ a < RangeEnd(ranges[last])
        /\ ranges[some].base <= a /\ a < RangeEnd(ranges[some])
    BY <1>4, <1>6, <2>2
  <2>4. ranges[last].kind = ranges[some].kind
    BY <1>3, <2>3 DEF KindsApart
  <2>. QED BY <2>1, <2>4
<1>. QED BY <1>7, <1>8

\* What of the invariant does not change while descriptors and ranges stay.
LEMMA SameMachine ==
    ASSUME ExactInv, MapInv', UNCHANGED <<descriptors, ranges, counted, capacity>>,
           phase # "boot", phase' # "boot"
    PROVE  /\ KindsApart(ranges)' /\ counted' \in Nat /\ Fits' = Fits
           /\ capacity' = counted' + 2 * Len(ranges') + Slack
           /\ \A n : IsCut(n)' <=> IsCut(n)
           /\ \A j \in DOMAIN descriptors : End(descriptors[j])' = End(descriptors[j])
           /\ \A a, d : KindAt(a, d)' = KindAt(a, d)
<1>1. KindsApart(ranges)' /\ counted' \in Nat /\ Fits' = Fits
  BY DEF ExactInv, KindsApart, Fits, RangeEnd, Saturated
<1>2. capacity' = counted' + 2 * Len(ranges') + Slack
  BY DEF ExactInv
<1>3. \A n : IsCut(n)' <=> IsCut(n)
  BY DEF IsCut, Cut, CutCount, End, RangeEnd, Saturated
<1>4. \A j \in DOMAIN descriptors : End(descriptors[j])' = End(descriptors[j])
  BY DEF End, Saturated
<1>5. \A a, d : KindAt(a, d)' = KindAt(a, d)
  BY DEF KindAt, RangesAt, RangeEnd, Saturated
<1>. QED BY <1>1, <1>2, <1>3, <1>4, <1>5

\* While the machine and the entries stay, only what is covered can change.
LEMMA EntriesStay ==
    ASSUME ExactInv, MapInv', UNCHANGED <<descriptors, ranges, counted, capacity, entries>>,
           phase # "boot", phase' # "boot", Fits => Covered'
    PROVE  ExactInv'
<1>1. ASSUME NEW i \in DOMAIN entries'
      PROVE  /\ entries'[i].length > 0 /\ IsCut(EntryEnd(entries[i]))' /\ KindTrue(entries[i])'
  <2>1. entries[i].length > 0 /\ IsCut(EntryEnd(entries[i])) /\ KindTrue(entries[i])
    BY DEF ExactInv
  <2>2. EntryEnd(entries[i])' = EntryEnd(entries[i])
    BY DEF EntryEnd
  <2>3. KindTrue(entries[i])'
    BY <2>1, <2>2, SameMachine DEF KindTrue, Lists, EntryEnd
  <2>4. IsCut(EntryEnd(entries[i]))'
    BY <2>1, <2>2 DEF IsCut, Cut, CutCount, End, RangeEnd, Saturated, EntryEnd
  <2>. QED BY <2>1, <2>3, <2>4
<1>. QED BY <1>1, SameMachine DEF ExactInv

\* A descriptor is finished with when all of it is covered.
LEMMA NextDescriptorKeepsExactInv ==
    ASSUME ExactInv, NextDescriptor
    PROVE  ExactInv'
<1>1. MapInv /\ MapInv'
  BY NextDescriptorKeepsMapInv DEF ExactInv
<1>2. /\ UNCHANGED <<descriptors, ranges, counted, capacity, entries>>
      /\ phase = "populating" /\ phase' \in {"populating", "done"}
      /\ phase' = "done" => ~(index + 1 <= Len(descriptors))
      /\ phase' = "populating" => cursor' = descriptors[index + 1].start
      /\ index' = index + 1 /\ index \in Nat /\ cursor \in Nat
      /\ DOMAIN descriptors = 1 .. Len(descriptors) /\ Len(descriptors) \in Nat
  BY <1>1 DEF NextDescriptor, At, MapInv, TypeInv
<1>3. ASSUME Fits PROVE Covered'
  <2>1. ASSUME NEW j \in DOMAIN descriptors, NEW a \in Nat, descriptors[j].start <= a, a < Reached(j)'
        PROVE  \E i \in DOMAIN entries : Lists(entries[i], a)
    <3>1. End(descriptors[j])' = End(descriptors[j]) /\ End(descriptors[j]) \in Nat
      <4>1. descriptors[j] \in AnyDescriptor
        BY <1>1 DEF MapInv, TypeInv
      <4>. QED BY <1>2, <4>1, EndBounded DEF End, Saturated
    <3>2. CASE j < index
      <4>1. Reached(j) = End(descriptors[j]) /\ Reached(j)' = End(descriptors[j])
        BY <1>2, <3>1, <3>2 DEF Reached
      <4>. QED BY <1>3, <2>1, <4>1 DEF ExactInv, Covered
    <3>3. CASE j = index
      <4>1. Reached(j) = cursor /\ Reached(j)' = End(descriptors[j])
        BY <1>2, <3>1, <3>3 DEF Reached
      <4>2. End(descriptors[j]) <= cursor
        BY <1>2, <1>3, <3>1, <3>3, RoomEnough DEF NextDescriptor
      <4>3. a < Reached(j)
        BY <1>2, <2>1, <3>1, <4>1, <4>2
      <4>. QED BY <1>3, <2>1, <4>3 DEF ExactInv, Covered
    <3>4. CASE j = index + 1
      <4>1. phase' = "populating"
        BY <1>2, <3>4
      <4>2. Reached(j)' = descriptors[j].start
        BY <1>2, <3>4, <4>1 DEF Reached
      <4>3. descriptors[j].start \in Nat
        <5>1. descriptors[j] \in AnyDescriptor
          BY <1>1 DEF MapInv, TypeInv
        <5>. QED BY <5>1 DEF AnyDescriptor
      <4>. QED BY <2>1, <4>2, <4>3
    <3>5. CASE j > index + 1
      <4>1. phase' = "populating"
        BY <1>2, <3>5
      <4>2. Reached(j)' = 0
        BY <1>2, <3>5, <4>1 DEF Reached
      <4>. QED BY <2>1, <4>2
    <3>. QED BY <1>2, <3>2, <3>3, <3>4, <3>5
  <2>. QED BY <1>2, <2>1 DEF Covered, Lists, EntryEnd
<1>. QED BY <1>1, <1>2, <1>3, EntriesStay

\* Nothing is to be covered when populate begins.
LEMMA ExitBootServicesKeepsExactInv ==
    ASSUME ExactInv, ExitBootServices
    PROVE  ExactInv'
<1>1. MapInv /\ MapInv'
  BY ExitBootServicesKeepsMapInv DEF ExactInv
<1>2. /\ UNCHANGED <<descriptors, ranges, counted, capacity, entries>>
      /\ phase = "prepared" /\ phase' \in {"populating", "done"}
      /\ phase' = "done" => ~(1 <= Len(descriptors))
      /\ phase' = "populating" => cursor' = descriptors[1].start
      /\ index' = 1
      /\ DOMAIN descriptors = 1 .. Len(descriptors) /\ Len(descriptors) \in Nat
  BY <1>1 DEF ExitBootServices, At, MapInv, TypeInv
<1>3. Covered'
  <2>1. ASSUME NEW j \in DOMAIN descriptors, NEW a \in Nat, descriptors[j].start <= a, a < Reached(j)'
        PROVE  FALSE
    <3>1. phase' = "populating" /\ descriptors[j].start \in Nat
      <4>1. descriptors[j] \in AnyDescriptor
        BY <1>1 DEF MapInv, TypeInv
      <4>. QED BY <1>2, <4>1 DEF AnyDescriptor
    <3>2. Reached(j)' = descriptors[j].start \/ Reached(j)' = 0
      BY <1>2, <3>1 DEF Reached
    <3>. QED BY <2>1, <3>1, <3>2
  <2>. QED BY <1>2, <2>1 DEF Covered
<1>. QED BY <1>1, <1>2, <1>3, EntriesStay

\* What is done before the map is filled.
LEMMA BeforeFilling ==
    ASSUME MapInv', KindsApart(ranges)', counted' \in Nat, phase' \in {"boot", "prepared"},
           phase' # "boot" => capacity' = counted' + 2 * Len(ranges') + Slack
    PROVE  ExactInv'
<1>1. entries' = <<>>
  BY DEF MapInv
<1>2. Covered'
  <2>1. ASSUME NEW j, NEW a \in Nat, a < Reached(j)' PROVE FALSE
    BY <2>1 DEF Reached
  <2>. QED BY <2>1 DEF Covered
<1>. QED BY <1>1, <1>2 DEF ExactInv

\* A piece ends at a cut, has one kind, and covers up to the new cursor.
LEMMA PieceKeepsExactInv ==
    ASSUME ExactInv, Piece
    PROVE  ExactInv'
<1>. DEFINE d == descriptors[index]
<1>. PICK n : n = Len(entries) + 1
  OBVIOUS
<1>1. MapInv /\ MapInv' /\ KindsApart(ranges)
  BY PieceKeepsMapInv DEF ExactInv
<1>2. /\ UNCHANGED <<phase, descriptors, ranges, counted, capacity, index>>
      /\ phase = "populating" /\ cursor < End(d) /\ cursor' = PieceEnd(d)
      /\ index \in DOMAIN descriptors /\ DOMAIN descriptors = 1 .. Len(descriptors)
      /\ cursor \in Nat /\ d.start <= cursor
  BY <1>1 DEF Piece, MapInv, TypeInv
<1>3. /\ d \in AnyDescriptor /\ IsCut(PieceEnd(d)) /\ PieceEnd(d) \in Nat
      /\ cursor < PieceEnd(d) /\ PieceEnd(d) <= End(d)
  BY <1>1, <1>2, PieceEnds
<1>4. /\ DOMAIN entries' = DOMAIN entries \cup {n}
      /\ \A i \in DOMAIN entries : entries'[i] = entries[i]
      /\ entries'[n].base = cursor /\ EntryEnd(entries'[n]) = PieceEnd(d)
      /\ entries'[n].length > 0 /\ entries'[n].kind = PieceKind(d)
  <2>. PICK new : new = [base |-> cursor, length |-> PieceEnd(d) - cursor, kind |-> PieceKind(d)]
    OBVIOUS
  <2>1. entries' = Append(entries, new) /\ entries \in Seq(AnyEntry)
    BY <1>1 DEF Piece, MapInv, TypeInv
  <2>2. /\ DOMAIN entries' = DOMAIN entries \cup {n} /\ entries'[n] = new
        /\ \A i \in DOMAIN entries : entries'[i] = entries[i]
    BY <2>1
  <2>3. /\ new.base = cursor /\ new.base + new.length = PieceEnd(d) /\ new.length > 0
        /\ new.kind = PieceKind(d)
    BY <1>2, <1>3
  <2>. QED BY <2>2, <2>3 DEF EntryEnd
<1>5. ASSUME NEW i \in DOMAIN entries
      PROVE  entries'[i].length > 0 /\ IsCut(EntryEnd(entries[i]))' /\ KindTrue(entries[i])'
  <2>1. entries[i].length > 0 /\ IsCut(EntryEnd(entries[i])) /\ KindTrue(entries[i])
    BY DEF ExactInv
  <2>2. EntryEnd(entries[i])' = EntryEnd(entries[i]) /\ entries'[i] = entries[i]
    BY <1>4 DEF EntryEnd
  <2>3. KindTrue(entries[i])'
    BY <1>1, <1>2, <2>1, <2>2, SameMachine DEF KindTrue, Lists, EntryEnd
  <2>4. IsCut(EntryEnd(entries[i]))'
    BY <1>2, <2>1, <2>2 DEF IsCut, Cut, CutCount, End, RangeEnd, Saturated, EntryEnd
  <2>. QED BY <2>1, <2>2, <2>3, <2>4
<1>6. entries'[n].length > 0 /\ IsCut(EntryEnd(entries[n]))' /\ KindTrue(entries[n])'
  <2>1. EntryEnd(entries[n])' = PieceEnd(d)
    BY <1>4 DEF EntryEnd
  <2>2. IsCut(EntryEnd(entries[n]))'
    BY <1>2, <1>3, <2>1 DEF IsCut, Cut, CutCount, End, RangeEnd, Saturated
  <2>3. ASSUME NEW j \in DOMAIN descriptors, descriptors[j].start <= cursor,
               PieceEnd(d) <= End(descriptors[j])
        PROVE  j = index
    <3>1. j # index => Beside(descriptors[j], d)
      BY <1>1, <1>2 DEF MapInv, PairwiseApart
    <3>2. End(d) \in Nat /\ d.start \in Nat /\ descriptors[j].start \in Nat
          /\ End(descriptors[j]) \in Nat
      <4>1. descriptors[j] \in AnyDescriptor
        BY <1>1 DEF MapInv, TypeInv
      <4>. QED BY <1>3, <4>1, EndBounded DEF AnyDescriptor
    <3>. QED BY <1>2, <1>3, <2>3, <3>1, <3>2 DEF Beside
  <2>4. ASSUME NEW a \in Nat, cursor <= a, a < PieceEnd(d)
        PROVE  PieceKind(d) = KindAt(a, d)
    BY <1>1, <2>4, PieceKindTrue
  <2>5. KindTrue(entries[n])'
    <3>1. \A j \in DOMAIN descriptors : End(descriptors[j])' = End(descriptors[j])
      BY <1>2 DEF End, Saturated
    <3>2. \A a, e : KindAt(a, e)' = KindAt(a, e)
      BY <1>2 DEF KindAt, RangesAt, RangeEnd, Saturated
    <3>3. ASSUME NEW j \in DOMAIN descriptors, NEW a \in Nat,
                 descriptors[j].start <= cursor, PieceEnd(d) <= End(descriptors[j]),
                 cursor <= a, a < PieceEnd(d)
          PROVE  entries'[n].kind = KindAt(a, descriptors[j])
      BY <1>4, <2>3, <2>4, <3>3
    <3>. QED BY <1>2, <1>4, <2>1, <3>1, <3>2, <3>3 DEF KindTrue, Lists
  <2>. QED BY <1>4, <2>2, <2>5
<1>7. ASSUME Fits PROVE Covered'
  <2>1. ASSUME NEW j \in DOMAIN descriptors, NEW a \in Nat, descriptors[j].start <= a, a < Reached(j)'
        PROVE  \E i \in DOMAIN entries' : Lists(entries[i], a)'
    <3>1. CASE j = index /\ cursor <= a
      <4>1. a < PieceEnd(d)
        BY <1>2, <2>1, <3>1 DEF Reached
      <4>2. Lists(entries[n], a)'
        BY <1>4, <3>1, <4>1 DEF Lists, EntryEnd
      <4>. QED BY <1>4, <4>2
    <3>2. CASE ~(j = index /\ cursor <= a)
      <4>1. a < Reached(j)
        BY <1>2, <1>3, <2>1, <3>2 DEF Reached, End, Saturated
      <4>2. PICK i \in DOMAIN entries : Lists(entries[i], a)
        BY <1>7, <2>1, <4>1 DEF ExactInv, Covered
      <4>3. i \in DOMAIN entries' /\ Lists(entries[i], a)'
        BY <1>4, <4>2 DEF Lists, EntryEnd
      <4>. QED BY <4>3
    <3>. QED BY <3>1, <3>2
  <2>. QED BY <1>2, <2>1 DEF Covered
<1>8. KindsApart(ranges)' /\ counted' \in Nat /\ Fits' = Fits
      /\ capacity' = counted' + 2 * Len(ranges') + Slack /\ phase' # "boot"
  BY <1>1, <1>2, SameMachine
<1>9. \A i \in DOMAIN entries' : entries'[i].length > 0 /\ IsCut(EntryEnd(entries[i]))'
                                /\ KindTrue(entries[i])'
  <2>1. ASSUME NEW i \in DOMAIN entries'
        PROVE  entries'[i].length > 0 /\ IsCut(EntryEnd(entries[i]))' /\ KindTrue(entries[i])'
    <3>1. i \in DOMAIN entries \/ i = n
      BY <1>4
    <3>. QED BY <1>5, <1>6, <3>1
  <2>. QED BY <2>1
<1>. QED BY <1>1, <1>7, <1>8, <1>9 DEF ExactInv

\* Every step keeps the invariant.
LEMMA ExactInvStep ==
    ASSUME ExactInv, [MapNext]_map
    PROVE  ExactInv'
<1>0. MapInv /\ MapInv'
  BY MapInvStep DEF ExactInv
<1>1. CASE Prepare
  <2>1. /\ UNCHANGED ranges /\ phase' = "prepared" /\ counted' = Len(descriptors)
        /\ capacity' = counted' + 2 * Len(ranges) + Slack /\ Len(descriptors) \in Nat
    BY <1>0, <1>1 DEF Prepare, Capacity, MapInv, TypeInv
  <2>2. KindsApart(ranges)'
    BY <2>1 DEF ExactInv, KindsApart, RangeEnd, Saturated
  <2>. QED BY <1>0, <2>1, <2>2, BeforeFilling
<1>2. ASSUME NEW i \in DOMAIN descriptors, NEW before \in 0 .. descriptors[i].pages,
             NEW pages \in 1 .. descriptors[i].pages, AllocatePages(i, before, pages)
      PROVE  ExactInv'
  <2>1. UNCHANGED <<phase, ranges, counted, capacity>> /\ phase = "prepared"
    BY <1>2 DEF AllocatePages
  <2>2. KindsApart(ranges)' /\ counted' \in Nat /\ capacity' = counted' + 2 * Len(ranges') + Slack
    BY <2>1 DEF ExactInv, KindsApart, RangeEnd, Saturated
  <2>. QED BY <1>0, <2>1, <2>2, BeforeFilling
<1>3. CASE ExitBootServices
  BY <1>3, ExitBootServicesKeepsExactInv
<1>4. CASE Piece
  BY <1>4, PieceKeepsExactInv
<1>5. CASE NextDescriptor
  BY <1>5, NextDescriptorKeepsExactInv
<1>6. CASE UNCHANGED map
  <2>1. UNCHANGED <<phase, descriptors, ranges, counted, capacity, index, cursor, entries>>
    BY <1>6 DEF map
  <2>2. CASE phase = "boot"
    <3>1. KindsApart(ranges)' /\ counted' \in Nat
      BY <2>1 DEF ExactInv, KindsApart, RangeEnd, Saturated
    <3>. QED BY <1>0, <2>1, <2>2, <3>1, BeforeFilling
  <2>3. CASE phase # "boot"
    <3>1. Covered => Covered'
      BY <2>1 DEF Covered, Reached, Lists, EntryEnd, End, Saturated
    <3>. QED BY <1>0, <2>1, <2>3, <3>1, EntriesStay DEF ExactInv
  <2>. QED BY <2>2, <2>3
<1>. QED BY <1>1, <1>2, <1>3, <1>4, <1>5, <1>6 DEF MapNext

\* When all descriptors are covered and every entry has its kind, the map is
\* the firmware's with the ranges marked.
LEMMA ExactInvIsExact == ExactInv => MapExact
<1>. SUFFICES ASSUME ExactInv, phase = "done", Fits, NEW a \in 0 .. Top - 1
              PROVE  IF DescriptorsAt(a) = {} THEN EntriesAt(a) = {}
                     ELSE \E i \in DOMAIN entries :
                            /\ EntriesAt(a) = {i}
                            /\ \A j \in DescriptorsAt(a) :
                                 entries[i].kind = KindAt(a, descriptors[j])
  BY DEF MapExact, Fits
<1>0. MapInv /\ MapSafe /\ a \in Nat
  BY MapInvIsSafe, MapAssumption DEF ExactInv
<1>1. ASSUME NEW i \in DOMAIN entries
      PROVE  /\ i \in EntriesAt(a) <=> Lists(entries[i], a)
             /\ i \in EntriesAt(a) => EntriesAt(a) = {i}
  <2>1. entries[i] \in AnyEntry
    BY <1>0 DEF MapInv, TypeInv
  <2>2. entries[i].base \in Nat /\ entries[i].length \in Nat
    BY <2>1 DEF AnyEntry
  <2>3. i \in EntriesAt(a) <=> Lists(entries[i], a)
    BY <1>0, <2>2 DEF EntriesAt, Lists, EntryEnd
  <2>4. i \in EntriesAt(a) => a \in entries[i].base .. entries[i].base + entries[i].length - 1
    BY DEF EntriesAt
  <2>. QED BY <1>0, <2>3, <2>4 DEF MapSafe
<1>2. ASSUME NEW j \in DOMAIN descriptors
      PROVE  /\ descriptors[j].start \in Nat /\ End(descriptors[j]) \in Nat
             /\ j \in DescriptorsAt(a) <=> descriptors[j].start <= a /\ a < End(descriptors[j])
  <2>1. descriptors[j] \in AnyDescriptor
    BY <1>0 DEF MapInv, TypeInv
  <2>2. descriptors[j].start \in Nat /\ End(descriptors[j]) \in Nat
    BY <2>1, EndBounded DEF AnyDescriptor
  <2>. QED BY <1>0, <2>2 DEF DescriptorsAt
<1>3. ASSUME NEW i \in EntriesAt(a), NEW j \in DescriptorsAt(a)
      PROVE  entries[i].kind = KindAt(a, descriptors[j])
  <2>1. i \in DOMAIN entries /\ j \in DOMAIN descriptors /\ Lists(entries[i], a)
    BY <1>1 DEF EntriesAt, DescriptorsAt
  <2>2. PICK k \in DOMAIN descriptors :
          descriptors[k].start <= entries[i].base /\ EntryEnd(entries[i]) <= End(descriptors[k])
    BY <1>0, <2>1 DEF MapInv, FromDescriptor
  <2>3. entries[i].base \in Nat /\ EntryEnd(entries[i]) \in Nat
    <3>1. entries[i] \in AnyEntry
      BY <1>0, <2>1 DEF MapInv, TypeInv
    <3>. QED BY <3>1 DEF AnyEntry, EntryEnd
  <2>4. descriptors[k].start <= a /\ a < End(descriptors[k])
    BY <1>0, <1>2, <2>1, <2>2, <2>3 DEF Lists
  <2>5. k = j
    <3>1. k # j => Beside(descriptors[k], descriptors[j])
      BY <1>0, <2>1 DEF MapInv, PairwiseApart
    <3>. QED BY <1>0, <1>2, <2>1, <2>4, <3>1 DEF Beside
  <2>. QED BY <1>0, <2>1, <2>2, <2>5 DEF ExactInv, KindTrue
<1>4. CASE DescriptorsAt(a) = {}
  <2>1. ASSUME NEW i \in EntriesAt(a) PROVE FALSE
    <3>1. i \in DOMAIN entries /\ Lists(entries[i], a)
      BY <1>1 DEF EntriesAt
    <3>2. PICK k \in DOMAIN descriptors :
            descriptors[k].start <= entries[i].base /\ EntryEnd(entries[i]) <= End(descriptors[k])
      BY <1>0, <3>1 DEF MapInv, FromDescriptor
    <3>3. entries[i].base \in Nat /\ EntryEnd(entries[i]) \in Nat
      <4>1. entries[i] \in AnyEntry
        BY <1>0, <3>1 DEF MapInv, TypeInv
      <4>. QED BY <4>1 DEF AnyEntry, EntryEnd
    <3>4. k \in DescriptorsAt(a)
      BY <1>0, <1>2, <3>1, <3>2, <3>3 DEF Lists
    <3>. QED BY <1>4, <3>4
  <2>. QED BY <1>4, <2>1
<1>5. CASE DescriptorsAt(a) # {}
  <2>1. PICK j \in DescriptorsAt(a) : TRUE
    BY <1>5
  <2>2. j \in DOMAIN descriptors /\ descriptors[j].start <= a /\ a < Reached(j)
    BY <1>2 DEF DescriptorsAt, Reached
  <2>3. PICK i \in DOMAIN entries : Lists(entries[i], a)
    BY <1>0, <2>2 DEF ExactInv, Covered
  <2>4. EntriesAt(a) = {i}
    BY <1>1, <2>3
  <2>. QED BY <1>3, <1>5, <2>4
<1>. QED BY <1>4, <1>5

LEMMA InitExactInv ==
    ASSUME DescriptorsApart, RangesApart, MapInit
    PROVE  ExactInv
<1>1. MapInv
  BY InitMapInv
<1>2. KindsApart(ranges)
  BY DEF MapInit, RangesApart
<1>3. entries = <<>> /\ counted = 0 /\ phase = "boot"
  BY DEF MapInit
<1>4. Covered
  <2>1. ASSUME NEW j, NEW a \in Nat, a < Reached(j) PROVE FALSE
    BY <1>3, <2>1 DEF Reached
  <2>. QED BY <2>1 DEF Covered
<1>. QED BY <1>1, <1>2, <1>3, <1>4 DEF ExactInv

ExactPart ==
    /\ kind = "map" => ExactInv
    /\ kind # "map" => phase = "none"

\* The kernel's map has every address of the firmware's exactly once, with the
\* kind of what is there, and none else, unless allocations after the storage
\* was sized have added more descriptors than there are entries to spare.
THEOREM MapIsExact == DescriptorsApart /\ RangesApart /\ Spec => []MapExact
<1>1. DescriptorsApart /\ RangesApart /\ Init => ExactPart
  BY InitExactInv DEF Init, NoMap, ExactPart
<1>2. ExactPart /\ [Next]_vars => ExactPart'
  <2>. SUFFICES ASSUME ExactPart, [Next]_vars PROVE ExactPart'
    OBVIOUS
  <2>1. CASE kind = "map"
    BY <2>1, MapSteps, ExactInvStep DEF ExactPart
  <2>2. CASE kind # "map"
    BY <2>2, MapSteps DEF ExactPart, map
  <2>. QED BY <2>1, <2>2
<1>3. ExactPart => MapExact
  <2>1. phase = "none" => MapExact
    BY DEF MapExact
  <2>. QED BY <2>1, ExactInvIsExact DEF ExactPart
<1>. QED BY <1>1, <1>2, <1>3, PTL DEF Spec

-----------------------------------------------------------------------------
(***************************************************************************)
(* A Limine kernel and its page tables.  For every kernel, every choice of *)
(* pages by the firmware and every size of page and memory: what is        *)
(* written goes only to pages that were free, so segments, modules and     *)
(* tables stay as they were made, and the tables lead from each page to    *)
(* what was mapped there and nowhere else.  First, division.               *)
(***************************************************************************)
LEMMA ProductMonotone ==
    ASSUME NEW k \in Nat, NEW m \in Nat, NEW n \in Nat, m <= n
    PROVE  /\ k * m <= k * n /\ m * k <= n * k
           /\ k * m \in Nat /\ k * n \in Nat /\ m * k = k * m /\ n * k = k * n
<1>. DEFINE d == n - m
<1>1. d \in Nat /\ n = m + d
  OBVIOUS
<1>2. k * d \in Nat /\ k * m \in Nat
  OBVIOUS
<1>3. k * n = k * m + k * d
  BY <1>1
<1>. QED BY <1>2, <1>3

\* Division with remainder.
LEMMA DivMod ==
    ASSUME NEW a \in Nat, NEW k \in Nat \ {0}
    PROVE  a \div k \in Nat /\ (a % k) \in 0 .. k - 1 /\ a = (k * (a \div k)) + (a % k)
<1>1. a \div k \in Nat /\ (a % k) \in 0 .. k - 1
  OBVIOUS
<1>2. a = (k * (a \div k)) + (a % k)
  BY <1>1
<1>. QED BY <1>1, <1>2

LEMMA QuotientLess ==
    ASSUME NEW k \in Nat \ {0}, NEW q \in Nat, NEW p \in Nat, NEW r \in 0 .. k - 1, NEW s \in 0 .. k - 1,
           k * q + r = k * p + s
    PROVE  ~(q < p)
<1>. SUFFICES ASSUME q < p PROVE FALSE
  OBVIOUS
<1>1. k * (q + 1) <= k * p
  BY ProductMonotone
<1>2. k * (q + 1) = k * q + k /\ k * q \in Nat /\ k * p \in Nat
  OBVIOUS
<1>. QED BY <1>1, <1>2

\* Quotient and remainder are the only ones.
LEMMA Divides ==
    ASSUME NEW k \in Nat \ {0}, NEW q \in Nat, NEW r \in 0 .. k - 1
    PROVE  (k * q + r) \div k = q /\ (k * q + r) % k = r
<1>. DEFINE a == k * q + r
<1>1. a \in Nat /\ k * q \in Nat
  OBVIOUS
<1>. HIDE DEF a
<1>2. a \div k \in Nat /\ (a % k) \in 0 .. k - 1 /\ a = (k * (a \div k)) + (a % k)
  BY <1>1, DivMod
<1>3. a = k * q + r
  BY DEF a
<1>. PICK p, s : p = a \div k /\ s = a % k
  OBVIOUS
<1>4. p \in Nat /\ s \in 0 .. k - 1 /\ a = k * p + s
  BY <1>2
<1>5. ~(q < p) /\ ~(p < q)
  BY <1>3, <1>4, QuotientLess
<1>6. p = q
  BY <1>4, <1>5
<1>7. s = r
  BY <1>1, <1>3, <1>4, <1>6
<1>. QED BY <1>6, <1>7 DEF a

Quotient(a, k) == a \div k

\* Dividing twice.
LEMMA QuotientTwice ==
    ASSUME NEW a \in Nat, NEW j \in Nat \ {0}, NEW k \in Nat \ {0}
    PROVE  Quotient(a, j * k) = Quotient(Quotient(a, j), k) /\ j * k \in Nat \ {0}
<1>1. PICK q, r : q = a \div j /\ r = a % j
  OBVIOUS
<1>2. PICK p, s : p = q \div k /\ s = q % k
  OBVIOUS
<1>3. q \in Nat /\ r \in 0 .. j - 1 /\ a = j * q + r
  BY <1>1, DivMod
<1>4. p \in Nat /\ s \in 0 .. k - 1 /\ q = k * p + s
  BY <1>2, <1>3, DivMod
<1>5. j * k \in Nat \ {0}
  <2>1. j * 1 <= j * k
    BY ProductMonotone
  <2>. QED BY <2>1
<1>6. a = (j * k) * p + (j * s + r)
  <2>1. j * (k * p + s) = (j * k) * p + j * s
    BY <1>4
  <2>. QED BY <1>3, <1>4, <2>1
<1>7. j * s + r \in 0 .. (j * k) - 1
  <2>1. j * s <= j * (k - 1) /\ j * s \in Nat
    BY <1>4, ProductMonotone
  <2>2. j * (k - 1) = j * k - j
    OBVIOUS
  <2>. QED BY <1>3, <1>5, <2>1, <2>2
<1>8. a \div (j * k) = p
  BY <1>4, <1>5, <1>6, <1>7, Divides
<1>9. Quotient(a, j) = q /\ Quotient(q, k) = p
  BY <1>1, <1>2, Zenon DEF Quotient
<1>10. Quotient(a, j * k) = p
  BY <1>8, Zenon DEF Quotient
<1>. QED BY <1>5, <1>9, <1>10, Zenon

-----------------------------------------------------------------------------
(***************************************************************************)
(* A set of tables is known by what each is for: L gives the level of a    *)
(* table and the number that all its pages begin with.  A word of a table  *)
(* leads nowhere or to the table that L says; so no table is reached on    *)
(* two ways, and writing one word changes where one page, or one gigabyte, *)
(* leads.                                                                  *)
(***************************************************************************)
SegmentWords(s) == PagesOf(loaded[s], SegmentPages(Segment(s)))
ModuleWords(n) == PagesOf(modules[n], PageCount(kernel.modules[n].words))

\* What the tables have to leave alone.
Taken == firmware.used \cup (UNION {SegmentWords(s) : s \in DOMAIN loaded})
                       \cup (UNION {ModuleWords(n) : n \in DOMAIN modules})

Indices == 0 .. PageWords - 1
HigherGigabyte == HigherHalf \div GigabytePages

\* The gigabytes whose table of the second level has no tables below it.
InWindow(x) == x < MinGigabytes \/ (HigherGigabyte <= x /\ x < HigherGigabyte + HhdmGigabytes)

\* What a table is for: at a level, the pages whose number begins so.
Labels == [level : 1 .. 4, prefix : Nat]
Directory(l) == l.level \in {3, 4} \/ (l.level = 2 /\ ~InWindow(l.prefix))
Child(l, i) == [level |-> l.level - 1, prefix |-> l.prefix * PageWords + i]

Table(mem, fr, L, t) ==
    /\ t \in Nat /\ Aligned(t) /\ L[t] \in Labels
    /\ \A i \in Indices : t + i \in DOMAIN mem /\ t + i \notin fr /\ t + i \notin Taken
    /\ Directory(L[t]) =>
         \A i \in Indices : \/ mem[t + i] = Zero
                            \/ \E u \in DOMAIN L : mem[t + i] = TableEntry(u) /\ L[u] = Child(L[t], i)

\* L is what each table is for: a word of a directory leads nowhere or to the
\* table for the pages it stands for.
Tree(mem, fr, L) ==
    /\ fr \subseteq Words(0, firmware.top) /\ firmware.top \in Nat /\ fr \subseteq DOMAIN mem
    /\ fr \cap Taken = {}
    /\ \A t \in DOMAIN L : Table(mem, fr, L, t)

\* Nothing but tables and new pages changes, and no table what it is for.
Grows(mem, fr, L, mem2, fr2, K) ==
    /\ DOMAIN mem2 = DOMAIN mem /\ fr2 \subseteq fr
    /\ \A a \in DOMAIN mem : a \in fr2 \cup Taken => mem2[a] = mem[a]
    /\ \A t \in DOMAIN L : t \in DOMAIN K /\ K[t] = L[t]

Keeps(mem, L, mem2) ==
    \A t \in DOMAIN L : \A i \in Indices : mem[t + i] # Zero => mem2[t + i] = mem[t + i]

LEMMA InPage ==
    ASSUME NEW a \in Nat, NEW x
    PROVE  x \in Words(a, PageWords) <=> \E i \in Indices : x = a + i
<1>1. PageWords \in Nat \ {0}
  BY SizeAssumption
<1>2. ASSUME x \in Words(a, PageWords) PROVE \E i \in Indices : x = a + i
  <2>1. x \in Int /\ a <= x /\ x < a + PageWords
    BY <1>1, <1>2, InWords
  <2>2. x - a \in Indices /\ x = a + (x - a)
    BY <1>1, <2>1 DEF Indices
  <2>. QED BY <2>2
<1>3. ASSUME NEW i \in Indices, x = a + i PROVE x \in Words(a, PageWords)
  BY <1>1, <1>3, InWords DEF Indices
<1>. QED BY <1>2, <1>3

\* Words of different tables are different.
LEMMA TablesApart ==
    ASSUME NEW t \in Nat, NEW u \in Nat, Aligned(t), Aligned(u), NEW i \in Indices, NEW j \in Indices,
           t + i = u + j
    PROVE  t = u /\ i = j
<1>1. PageWords \in Nat \ {0}
  BY SizeAssumption
<1>2. PICK q, p : q = t \div PageWords /\ p = u \div PageWords
  OBVIOUS
<1>3. q \in Nat /\ p \in Nat /\ t = PageWords * q /\ u = PageWords * p
  <2>1. /\ t \div PageWords \in Nat /\ t = (PageWords * (t \div PageWords)) + (t % PageWords)
        /\ u \div PageWords \in Nat /\ u = (PageWords * (u \div PageWords)) + (u % PageWords)
    BY <1>1, DivMod
  <2>2. t = (PageWords * q) + 0 /\ u = (PageWords * p) + 0 /\ q \in Nat /\ p \in Nat
    BY <1>2, <2>1 DEF Aligned
  <2>. QED BY <1>1, <2>2
<1>4. PageWords * q + i = PageWords * p + j
  BY <1>3
<1>5. ~(q < p) /\ ~(p < q)
  BY <1>1, <1>3, <1>4, QuotientLess DEF Indices
<1>6. q = p
  BY <1>3, <1>5
<1>. QED BY <1>1, <1>3, <1>4, <1>6 DEF Indices

Allocates(mem, fr, r) ==
    \/ r = [memory |-> mem, free |-> fr, table |-> None]
    \/ \E a \in Nat :
         /\ Aligned(a) /\ \A i \in Indices : a + i \in fr
         /\ r = [memory |-> Zeroed(mem, a, PageWords), free |-> fr \ Words(a, PageWords), table |-> a]

\* The firmware's choice of a page is a page.
LEMMA PlaceIsOne ==
    ASSUME NEW fr, fr \subseteq Words(0, firmware.top), firmware.top \in Nat,
           Places(fr, 1, firmware.top) # {}
    PROVE  TablePlace(fr) \in Places(fr, 1, firmware.top)
<1>. DEFINE places == Places(fr, 1, firmware.top)
<1>1. \A a \in places : a \in Nat /\ a <= firmware.top
  BY InWords DEF Places
<1>. HIDE DEF places
<1>2. CASE firmware.upward
  <2>1. places \in SUBSET Nat /\ places # {}
    BY <1>1 DEF places
  <2>2. Least(places) \in places /\ \A b \in places : Least(places) <= b
    BY <2>1, LeastExists
  <2>3. \E a \in places : \A b \in places : IF firmware.upward THEN a <= b ELSE b <= a
    BY <1>2, <2>2
  <2>. QED BY <2>3 DEF TablePlace, places
<1>3. CASE ~firmware.upward
  <2>. DEFINE above == {n \in Nat : \A b \in places : b <= n}
  <2>1. firmware.top \in above /\ above \in SUBSET Nat
    BY <1>1
  <2>2. Least(above) \in above /\ \A n \in above : Least(above) <= n
    BY <2>1, LeastExists
  <2>3. PICK m \in Nat : m \in above /\ \A n \in above : m <= n
    BY <2>2
  <2>4. m \in places
    <3>. SUFFICES ASSUME m \notin places PROVE FALSE
      OBVIOUS
    <3>1. PICK b \in places : TRUE
      BY DEF places
    <3>2. m - 1 \in Nat
      BY <1>1, <2>3, <3>1
    <3>3. \A c \in places : c <= m - 1
      BY <1>1, <2>3
    <3>4. m - 1 \in above
      BY <3>2, <3>3
    <3>. QED BY <2>3, <3>2, <3>4
  <2>5. \E a \in places : \A b \in places : IF firmware.upward THEN a <= b ELSE b <= a
    BY <1>3, <2>3, <2>4
  <2>. QED BY <2>5 DEF TablePlace, places
<1>. QED BY <1>2, <1>3

LEMMA AllocateTable ==
    ASSUME NEW mem, NEW fr, NEW t, fr \subseteq Words(0, firmware.top), firmware.top \in Nat
    PROVE  Allocates(mem, fr, allocate_table([memory |-> mem, free |-> fr, table |-> t]))
<1>. DEFINE m == [memory |-> mem, free |-> fr, table |-> t]
<1>1. CASE Places(fr, 1, firmware.top) = {}
  <2>1. allocate_table(m) = [m EXCEPT !.table = None]
    BY <1>1 DEF allocate_table
  <2>2. allocate_table(m) = [memory |-> mem, free |-> fr, table |-> None]
    BY <2>1
  <2>. QED BY <2>2 DEF Allocates
<1>2. CASE Places(fr, 1, firmware.top) # {}
  <2>1. PICK a : a = TablePlace(fr)
    OBVIOUS
  <2>2. a \in Places(fr, 1, firmware.top)
    BY <1>2, <2>1, PlaceIsOne
  <2>3. PagesOf(a, 1) = Words(a, PageWords)
    BY SizeAssumption DEF PagesOf
  <2>4. a \in Nat /\ Aligned(a) /\ Words(a, PageWords) \subseteq fr
    BY <2>2, <2>3, InWords DEF Places
  <2>5. \A i \in Indices : a + i \in fr
    BY <2>4, InPage
  <2>6. allocate_table(m) = [memory |-> Zeroed(mem, a, PageWords), free |-> fr \ Words(a, PageWords), table |-> a]
    BY <1>2, <2>1, <2>3 DEF allocate_table
  <2>. QED BY <2>4, <2>5, <2>6 DEF Allocates
<1>. QED BY <1>1, <1>2

HasChild(mem, fr, L, t, i, r) ==
    \E mem2, fr2, u, K :
        /\ r = [memory |-> mem2, free |-> fr2, table |-> u]
        /\ Tree(mem2, fr2, K) /\ Grows(mem, fr, L, mem2, fr2, K) /\ Keeps(mem, L, mem2)
        /\ u # None => u \in DOMAIN K /\ K[u] = Child(L[t], i) /\ mem2[t + i] = TableEntry(u)

\* An entry is no empty word, and has the address it was made with.
LEMMA EntryIs ==
    ASSUME NEW to, NEW huge, NEW write, NEW exec
    PROVE  /\ Entry(to, huge, write, exec) # Zero
           /\ EntryIn(Entry(to, huge, write, exec)) = Entry(to, huge, write, exec)
           /\ Entry(to, huge, write, exec).to = to
           /\ Entry(to, huge, write, exec).huge = huge
           /\ Entry(to, huge, write, exec).write = write
           /\ Entry(to, huge, write, exec).exec = exec
BY DEF Entry, EntryIn, Zero

LEMMA TableEntryIs ==
    ASSUME NEW u
    PROVE  /\ TableEntry(u) # Zero /\ EntryIn(TableEntry(u)) = TableEntry(u)
           /\ TableEntry(u).to = u /\ TableEntry(u).huge = FALSE
BY DEF TableEntry, Entry, EntryIn, Zero

LEMMA KeepsItself ==
    ASSUME NEW mem, NEW fr, NEW L
    PROVE  Grows(mem, fr, L, mem, fr, L) /\ Keeps(mem, L, mem)
BY DEF Grows, Keeps

\* A table on a new page that is as yet empty.
NewTable(L, a, l) == [u \in DOMAIN L \cup {a} |-> IF u = a THEN l ELSE L[u]]

\* An address of the new page is in no table there is.
LEMMA NewPage ==
    ASSUME NEW mem, NEW fr, NEW L, Tree(mem, fr, L), NEW a \in Nat, Aligned(a),
           \A i \in Indices : a + i \in fr
    PROVE  /\ a \notin DOMAIN L
           /\ \A u \in DOMAIN L : \A i \in Indices : u + i \notin Words(a, PageWords)
<1>1. 0 \in Indices
  BY SizeAssumption DEF Indices
<1>2. a \notin DOMAIN L
  <2>1. a + 0 \in fr
    BY <1>1
  <2>. QED BY <1>1, <2>1 DEF Tree, Table
<1>3. ASSUME NEW u \in DOMAIN L, NEW i \in Indices, u + i \in Words(a, PageWords) PROVE FALSE
  <2>1. PICK j \in Indices : u + i = a + j
    BY <1>3, InPage
  <2>2. u + i \in fr
    BY <2>1
  <2>. QED BY <2>2 DEF Tree, Table
<1>. QED BY <1>2, <1>3

Attaches(mem, fr, L, t, i, a, mem2, fr2, K) ==
    /\ DOMAIN mem2 = DOMAIN mem /\ mem2[t + i] = TableEntry(a)
    /\ \A x \in DOMAIN mem : x # t + i /\ x \notin Words(a, PageWords) => mem2[x] = mem[x]
    /\ Directory(Child(L[t], i)) => \A j \in Indices : mem2[a + j] = Zero
    /\ fr2 = fr \ Words(a, PageWords)
    /\ K = NewTable(L, a, Child(L[t], i))

\* A new page becomes the table under an entry.
LEMMA Attach ==
    ASSUME NEW mem, NEW fr, NEW L, Tree(mem, fr, L), NEW t \in DOMAIN L, Directory(L[t]),
           NEW i \in Indices, NEW a \in Nat, Aligned(a), \A j \in Indices : a + j \in fr,
           NEW mem2, NEW fr2, NEW K, Attaches(mem, fr, L, t, i, a, mem2, fr2, K)
    PROVE  /\ Tree(mem2, fr2, K) /\ Grows(mem, fr, L, mem2, fr2, K)
           /\ K[a] = Child(L[t], i) /\ a \in DOMAIN K /\ mem2[t + i] = TableEntry(a)
           /\ \A u \in DOMAIN L : \A j \in Indices : ~(u = t /\ j = i) => mem2[u + j] = mem[u + j]
<1>1. a \notin DOMAIN L /\ \A u \in DOMAIN L : \A j \in Indices : u + j \notin Words(a, PageWords)
  BY NewPage
<1>2. /\ DOMAIN K = DOMAIN L \cup {a} /\ K[a] = Child(L[t], i)
      /\ \A u \in DOMAIN L : K[u] = L[u]
  BY <1>1 DEF NewTable, Attaches
<1>3. t \in Nat /\ Aligned(t) /\ t + i \in DOMAIN mem /\ t + i \notin fr /\ t + i \notin Taken /\ L[t] \in Labels
  BY DEF Tree, Table
<1>4. /\ DOMAIN mem2 = DOMAIN mem /\ mem2[t + i] = TableEntry(a)
      /\ \A x \in DOMAIN mem : x # t + i /\ x \notin Words(a, PageWords) => mem2[x] = mem[x]
  BY DEF Attaches
<1>5. Words(a, PageWords) \subseteq fr /\ fr \subseteq DOMAIN mem /\ fr \cap Taken = {}
      /\ fr2 = fr \ Words(a, PageWords)
  BY InPage DEF Tree, Attaches
<1>6. Grows(mem, fr, L, mem2, fr2, K)
  <2>1. ASSUME NEW x \in DOMAIN mem, x \in fr2 \cup Taken PROVE mem2[x] = mem[x]
    <3>1. x # t + i /\ x \notin Words(a, PageWords)
      BY <1>3, <1>5, <2>1
    <3>. QED BY <1>4, <3>1
  <2>. QED BY <1>2, <1>4, <1>5, <2>1 DEF Grows
<1>7. ASSUME NEW u \in DOMAIN L, NEW j \in Indices, ~(u = t /\ j = i) PROVE mem2[u + j] = mem[u + j]
  <2>1. u \in Nat /\ Aligned(u) /\ u + j \in DOMAIN mem /\ u + j \notin Words(a, PageWords)
    BY <1>1 DEF Tree, Table
  <2>2. u + j # t + i
    BY <1>3, <1>7, <2>1, TablesApart
  <2>. QED BY <1>4, <2>1, <2>2
<1>8. Child(L[t], i) \in Labels
  <2>1. L[t].level \in {2, 3, 4} /\ L[t].prefix \in Nat
    BY <1>3 DEF Directory, Labels
  <2>2. i \in Nat /\ PageWords \in Nat
    BY SizeAssumption DEF Indices
  <2>3. L[t].prefix * PageWords + i \in Nat
    BY <2>1, <2>2
  <2>. QED BY <2>1, <2>3 DEF Child, Labels
<1>9. ASSUME NEW u \in DOMAIN K PROVE Table(mem2, fr2, K, u)
  <2>1. CASE u = a
    <3>1. \A j \in Indices : a + j \in DOMAIN mem2 /\ a + j \notin fr2 /\ a + j \notin Taken
      <4>. SUFFICES ASSUME NEW j \in Indices
                    PROVE  a + j \in DOMAIN mem2 /\ a + j \notin fr2 /\ a + j \notin Taken
        OBVIOUS
      <4>1. a + j \in Words(a, PageWords) /\ a + j \in fr
        BY InPage
      <4>. QED BY <1>4, <1>5, <4>1
    <3>2. Directory(K[a]) => \A j \in Indices : mem2[a + j] = Zero
      BY <1>2 DEF Attaches
    <3>. QED BY <1>2, <1>8, <2>1, <3>1, <3>2 DEF Table
  <2>2. CASE u # a
    <3>1. u \in DOMAIN L /\ K[u] = L[u] /\ Table(mem, fr, L, u)
      BY <1>2, <2>2 DEF Tree
    <3>2. ASSUME NEW j \in Indices
          PROVE  u + j \in DOMAIN mem2 /\ u + j \notin fr2 /\ u + j \notin Taken
      BY <1>4, <1>5, <3>1 DEF Table
    <3>3. ASSUME Directory(K[u]), NEW j \in Indices
          PROVE  \/ mem2[u + j] = Zero
                 \/ \E v \in DOMAIN K : mem2[u + j] = TableEntry(v) /\ K[v] = Child(K[u], j)
      <4>1. CASE u = t /\ j = i
        BY <1>2, <1>4, <4>1
      <4>2. CASE ~(u = t /\ j = i)
        <5>1. mem2[u + j] = mem[u + j]
          BY <1>7, <3>1, <4>2
        <5>2. \/ mem[u + j] = Zero
              \/ \E v \in DOMAIN L : mem[u + j] = TableEntry(v) /\ L[v] = Child(L[u], j)
          BY <3>1, <3>3 DEF Table
        <5>. QED BY <1>2, <3>1, <5>1, <5>2
      <4>. QED BY <4>1, <4>2
    <3>. QED BY <3>1, <3>2, <3>3 DEF Table
  <2>. QED BY <2>1, <2>2
<1>10. Tree(mem2, fr2, K)
  BY <1>4, <1>5, <1>9 DEF Tree
<1>. QED BY <1>2, <1>4, <1>6, <1>7, <1>10

LEMMA ChildTable ==
    ASSUME NEW mem, NEW fr, NEW L, Tree(mem, fr, L), NEW t \in DOMAIN L, Directory(L[t]),
           NEW i \in Indices
    PROVE  HasChild(mem, fr, L, t, i, child_table([memory |-> mem, free |-> fr, table |-> t], i))
<1>. DEFINE m == [memory |-> mem, free |-> fr, table |-> t]
            made == allocate_table(m)
<1>1. t \in Nat /\ t # None /\ m.table = t /\ m.memory = mem
  BY DEF Tree, Table, None
<1>2. child_table(m, i) =
        IF Present(mem[t + i]) THEN [m EXCEPT !.table = EntryIn(mem[t + i]).to]
        ELSE IF made.table = None THEN made
        ELSE [made EXCEPT !.memory = [@ EXCEPT ![t + i] = TableEntry(made.table)]]
  BY <1>1 DEF child_table
<1>3. CASE mem[t + i] # Zero
  <2>1. PICK u \in DOMAIN L : mem[t + i] = TableEntry(u) /\ L[u] = Child(L[t], i)
    BY <1>3 DEF Tree, Table
  <2>2. child_table(m, i) = [memory |-> mem, free |-> fr, table |-> u]
    <3>1. child_table(m, i) = [m EXCEPT !.table = EntryIn(mem[t + i]).to]
      BY <1>2, <1>3 DEF Present
    <3>2. EntryIn(mem[t + i]).to = u
      BY <2>1, TableEntryIs
    <3>. QED BY <3>1, <3>2
  <2>. QED BY <2>1, <2>2, KeepsItself DEF HasChild
<1>4. CASE mem[t + i] = Zero
  <2>1. Allocates(mem, fr, made)
    BY AllocateTable DEF Tree
  <2>. HIDE DEF made
  <2>2. CASE made = [memory |-> mem, free |-> fr, table |-> None]
    <3>1. child_table(m, i) = [memory |-> mem, free |-> fr, table |-> None]
      BY <1>2, <1>4, <2>2 DEF Present
    <3>. QED BY <3>1, KeepsItself DEF HasChild
  <2>3. CASE made # [memory |-> mem, free |-> fr, table |-> None]
    <3>1. PICK a \in Nat :
            /\ Aligned(a) /\ \A j \in Indices : a + j \in fr
            /\ made = [memory |-> Zeroed(mem, a, PageWords), free |-> fr \ Words(a, PageWords), table |-> a]
      BY <2>1, <2>3 DEF Allocates
    <3>2. PICK mem2, fr2, K : /\ mem2 = [Zeroed(mem, a, PageWords) EXCEPT ![t + i] = TableEntry(a)]
                              /\ fr2 = fr \ Words(a, PageWords)
                              /\ K = NewTable(L, a, Child(L[t], i))
      OBVIOUS
    <3>3. a # None
      BY DEF None
    <3>4. child_table(m, i) = [memory |-> mem2, free |-> fr2, table |-> a]
      BY <1>2, <1>4, <3>1, <3>2, <3>3 DEF Present
    <3>5. Attaches(mem, fr, L, t, i, a, mem2, fr2, K)
      <4>1. t + i \in DOMAIN mem /\ t + i \notin fr
        BY DEF Tree, Table
      <4>2. \A j \in Indices : a + j \in Words(a, PageWords) /\ a + j \in DOMAIN mem
        BY <3>1, InPage DEF Tree
      <4>3. /\ DOMAIN mem2 = DOMAIN mem /\ mem2[t + i] = TableEntry(a)
            /\ \A x \in DOMAIN mem : x # t + i =>
                 mem2[x] = IF x \in Words(a, PageWords) THEN Zero ELSE mem[x]
        BY <3>2, <4>1 DEF Zeroed
      <4>4. \A j \in Indices : mem2[a + j] = Zero
        BY <3>1, <4>1, <4>2, <4>3
      <4>. QED BY <3>2, <4>3, <4>4 DEF Attaches
    <3>6. /\ Tree(mem2, fr2, K) /\ Grows(mem, fr, L, mem2, fr2, K)
          /\ K[a] = Child(L[t], i) /\ a \in DOMAIN K /\ mem2[t + i] = TableEntry(a)
          /\ \A u \in DOMAIN L : \A j \in Indices : ~(u = t /\ j = i) => mem2[u + j] = mem[u + j]
      BY <3>1, <3>5, Attach
    <3>7. Keeps(mem, L, mem2)
      BY <1>4, <3>6 DEF Keeps
    <3>. QED BY <3>4, <3>6, <3>7 DEF HasChild
  <2>. QED BY <2>2, <2>3
<1>. QED BY <1>3, <1>4

-----------------------------------------------------------------------------
(***************************************************************************)
(* The way from the root to a page, and what stays when another page is    *)
(* mapped.                                                                 *)
(***************************************************************************)
\* The tables a page is looked up in: the numbers its own begins with.
Quarter(page) == page \div (PageWords * PageWords * PageWords)
Gigabyte(page) == page \div GigabytePages
Middle(page) == page \div PageWords

LEMMA QuotientIs ==
    ASSUME NEW a \in Nat, NEW k \in Nat \ {0}
    PROVE  \E r \in 0 .. k - 1 : Quotient(a, k) \in Nat /\ r = a % k /\ a = (k * Quotient(a, k)) + r
<1>1. /\ a \div k \in Nat /\ (a % k) \in 0 .. k - 1
      /\ a = (k * (a \div k)) + (a % k)
  BY DivMod
<1>2. PICK q, r : q = a \div k /\ r = a % k
  OBVIOUS
<1>3. q \in Nat /\ r \in 0 .. k - 1 /\ a = (k * q) + r
  BY <1>1, <1>2, Zenon
<1>. QED BY <1>2, <1>3, Zenon DEF Quotient

\* What four digits hold, the first is the quotient of.
LEMMA FirstDigit ==
    ASSUME NEW k \in Nat \ {0}, NEW p \in Nat, p < k * k * k * k,
           NEW p1 \in Nat, NEW p2 \in Nat, NEW p3 \in Nat,
           k * p1 <= p, k * p2 <= p1, k * p3 <= p2
    PROVE  p3 < k
<1>. SUFFICES ASSUME k <= p3 PROVE FALSE
  OBVIOUS
<1>. PICK k2, k3 : k2 = k * k /\ k3 = k * k2
  OBVIOUS
<1>1. k2 \in Nat /\ k3 \in Nat
  OBVIOUS
<1>2. k2 <= k * p3 /\ k * p3 \in Nat
  BY ProductMonotone
<1>3. k2 <= p2
  BY <1>1, <1>2
<1>4. k3 <= k * p2 /\ k * p2 \in Nat
  BY <1>1, <1>3, ProductMonotone
<1>5. k3 <= p1
  BY <1>1, <1>4
<1>6. k * k3 <= k * p1 /\ k * p1 \in Nat /\ k * k3 \in Nat
  BY <1>1, <1>5, ProductMonotone
<1>7. k * k3 = k * k * k * k
  OBVIOUS
<1>. QED BY <1>6, <1>7

LEMMA IndexesAre ==
    ASSUME NEW p \in Nat, p < VirtualPages
    PROVE  /\ Quarter(p) \in Nat /\ Gigabyte(p) \in Nat /\ Middle(p) \in Nat
           /\ index_pml4(p) \in Indices /\ index_pml4(p) = Quarter(p)
           /\ index_pdpt(p) \in Indices /\ Gigabyte(p) = (PageWords * Quarter(p)) + index_pdpt(p)
           /\ index_pd(p) \in Indices /\ Middle(p) = (PageWords * Gigabyte(p)) + index_pd(p)
           /\ index_pt(p) \in Indices /\ p = (PageWords * Middle(p)) + index_pt(p)
<1>1. PageWords \in Nat \ {0}
  BY SizeAssumption
<1>2. PICK k, p1, p2, p3 : /\ k = PageWords /\ p1 = Quotient(p, k)
                           /\ p2 = Quotient(p1, k) /\ p3 = Quotient(p2, k)
  OBVIOUS
<1>3. PICK i1 \in 0 .. k - 1 : p1 \in Nat /\ i1 = p % k /\ p = (k * p1) + i1
  BY <1>1, <1>2, QuotientIs
<1>4. PICK i2 \in 0 .. k - 1 : p2 \in Nat /\ i2 = p1 % k /\ p1 = (k * p2) + i2
  BY <1>1, <1>2, <1>3, QuotientIs
<1>5. PICK i3 \in 0 .. k - 1 : p3 \in Nat /\ i3 = p2 % k /\ p2 = (k * p3) + i3
  BY <1>1, <1>2, <1>4, QuotientIs
<1>6. PICK i4 \in 0 .. k - 1 : i4 = p3 % k /\ Quotient(p3, k) \in Nat /\ p3 = (k * Quotient(p3, k)) + i4
  BY <1>1, <1>2, <1>5, QuotientIs
<1>7. Quotient(p, k * k) = p2 /\ k * k \in Nat \ {0}
  BY <1>1, <1>2, <1>3, QuotientTwice
<1>8. Quotient(p, k * k * k) = p3
  BY <1>1, <1>2, <1>4, <1>7, QuotientTwice
<1>9. p3 < k
  <2>1. k * p1 <= p /\ k * p2 <= p1 /\ k * p3 <= p2
    BY <1>1, <1>2, <1>3, <1>4, <1>5
  <2>. QED BY <1>1, <1>2, <1>3, <1>4, <1>5, <2>1, FirstDigit DEF VirtualPages
<1>10. i4 = p3
  <2>. DEFINE r == Quotient(p3, k)
  <2>. HIDE DEF r
  <2>1. r \in Nat /\ p3 = (k * r) + i4
    BY <1>6 DEF r
  <2>2. r >= 1 => k * 1 <= k * r
    BY <1>1, <1>2, <2>1, ProductMonotone
  <2>3. r = 0
    BY <1>1, <1>2, <1>9, <2>1, <2>2
  <2>. QED BY <1>1, <1>2, <2>1, <2>3
<1>11. Quarter(p) = p3 /\ Gigabyte(p) = p2 /\ Middle(p) = p1
  BY <1>2, <1>7, <1>8, Zenon DEF Quarter, Gigabyte, Middle, GigabytePages, Quotient
<1>12. index_pml4(p) = i4 /\ index_pdpt(p) = i3 /\ index_pd(p) = i2 /\ index_pt(p) = i1
  BY <1>2, <1>3, <1>4, <1>5, <1>6, <1>7, <1>8, Zenon
     DEF index_pml4, index_pdpt, index_pd, index_pt, Quotient
<1>. QED BY <1>2, <1>3, <1>4, <1>5, <1>6, <1>10, <1>11, <1>12 DEF Indices

Label(level, prefix) == [level |-> level, prefix |-> prefix]

\* From table to table the pages' numbers are as the indexes say.
LEMMA PathLabels ==
    ASSUME NEW p \in Nat, p < VirtualPages
    PROVE  /\ Child(Label(4, 0), index_pml4(p)) = Label(3, Quarter(p))
           /\ Child(Label(3, Quarter(p)), index_pdpt(p)) = Label(2, Gigabyte(p))
           /\ Child(Label(2, Gigabyte(p)), index_pd(p)) = Label(1, Middle(p))
           /\ Directory(Label(4, 0)) /\ Directory(Label(3, Quarter(p)))
           /\ Directory(Label(2, Gigabyte(p))) <=> ~InWindow(Gigabyte(p))
<1>1. \A n \in Nat : n * PageWords = PageWords * n
  BY SizeAssumption
<1>2. 0 * PageWords + index_pml4(p) = Quarter(p)
  BY IndexesAre, SizeAssumption
<1>3. /\ Quarter(p) * PageWords + index_pdpt(p) = Gigabyte(p)
      /\ Gigabyte(p) * PageWords + index_pd(p) = Middle(p)
  BY <1>1, IndexesAre
<1>4. Directory(Label(2, Gigabyte(p))) <=> ~InWindow(Gigabyte(p))
  BY DEF Label, Directory
<1>. QED BY <1>2, <1>3, <1>4 DEF Child, Label, Directory

Rooted(L) == root \in DOMAIN L /\ L[root] = Label(4, 0)

\* The entries that lead to the tables a page is looked up in.
Way3(mem, page, t) == mem[root + index_pml4(page)] = TableEntry(t)
Way2(mem, page, t) == \E u : Way3(mem, page, u) /\ mem[u + index_pdpt(page)] = TableEntry(t)
Way1(mem, page, t) == \E u : Way2(mem, page, u) /\ mem[u + index_pd(page)] = TableEntry(t)

\* A page leads to a word, or all of a gigabyte to physical memory.
Leaf(mem, page, word) == \E t : Way1(mem, page, t) /\ mem[t + index_pt(page)] = word

HugeEntry(g, i) == Entry((g * GigabytePages + i * PageWords) * PageWords, TRUE, TRUE, TRUE)
Window(mem, page, g) == \E t : Way2(mem, page, t) /\ \A i \in Indices : mem[t + i] = HugeEntry(g, i)

LEMMA Follow ==
    ASSUME NEW mem, NEW fr, NEW L, Tree(mem, fr, L), NEW t \in DOMAIN L, Directory(L[t]),
           NEW i \in Indices, NEW u, mem[t + i] = TableEntry(u)
    PROVE  u \in DOMAIN L /\ L[u] = Child(L[t], i)
<1>1. mem[t + i] # Zero
  BY TableEntryIs
<1>2. PICK v \in DOMAIN L : mem[t + i] = TableEntry(v) /\ L[v] = Child(L[t], i)
  BY <1>1 DEF Tree, Table
<1>3. u = v
  <2>1. TableEntry(u).to = u /\ TableEntry(v).to = v
    BY TableEntryIs
  <2>. QED BY <1>2, <2>1
<1>. QED BY <1>2, <1>3

\* The tables on the way to a page are those for it.
LEMMA ThirdTable ==
    ASSUME NEW mem, NEW fr, NEW L, Tree(mem, fr, L), Rooted(L), NEW p \in Nat, p < VirtualPages,
           NEW t, Way3(mem, p, t)
    PROVE  t \in DOMAIN L /\ L[t] = Label(3, Quarter(p))
BY Follow, PathLabels, IndexesAre DEF Rooted, Way3

LEMMA SecondTable ==
    ASSUME NEW mem, NEW fr, NEW L, Tree(mem, fr, L), Rooted(L), NEW p \in Nat, p < VirtualPages,
           NEW t, Way2(mem, p, t)
    PROVE  t \in DOMAIN L /\ L[t] = Label(2, Gigabyte(p))
<1>1. PICK u : Way3(mem, p, u) /\ mem[u + index_pdpt(p)] = TableEntry(t)
  BY DEF Way2
<1>2. u \in DOMAIN L /\ L[u] = Label(3, Quarter(p))
  BY <1>1, ThirdTable
<1>. QED BY <1>1, <1>2, Follow, PathLabels, IndexesAre

LEMMA FirstTable ==
    ASSUME NEW mem, NEW fr, NEW L, Tree(mem, fr, L), Rooted(L), NEW p \in Nat, p < VirtualPages,
           ~InWindow(Gigabyte(p)), NEW t, Way1(mem, p, t)
    PROVE  t \in DOMAIN L /\ L[t] = Label(1, Middle(p))
<1>1. PICK u : Way2(mem, p, u) /\ mem[u + index_pd(p)] = TableEntry(t)
  BY DEF Way1
<1>2. u \in DOMAIN L /\ L[u] = Label(2, Gigabyte(p))
  BY <1>1, SecondTable
<1>. QED BY <1>1, <1>2, Follow, PathLabels, IndexesAre

\* All that tables hold stays, but for a word of those with one label.
KeepsBut(mem, L, mem2, label, slot) ==
    \A t \in DOMAIN L : \A i \in Indices :
        mem[t + i] # Zero /\ ~(L[t] = label /\ i = slot) => mem2[t + i] = mem[t + i]

\* A way stays if no word on it is the one.
LEMMA Way2Stays ==
    ASSUME NEW mem, NEW fr, NEW L, Tree(mem, fr, L), Rooted(L), NEW q \in Nat, q < VirtualPages,
           NEW mem2, NEW label, NEW i, KeepsBut(mem, L, mem2, label, i),
           label # Label(4, 0), ~(label = Label(3, Quarter(q)) /\ i = index_pdpt(q)),
           NEW t, Way2(mem, q, t)
    PROVE  Way2(mem2, q, t)
<1>1. PICK u : Way3(mem, q, u) /\ mem[u + index_pdpt(q)] = TableEntry(t)
  BY DEF Way2
<1>2. u \in DOMAIN L /\ L[u] = Label(3, Quarter(q))
  BY <1>1, ThirdTable
<1>3. index_pml4(q) \in Indices /\ index_pdpt(q) \in Indices
  BY IndexesAre
<1>4. TableEntry(t) # Zero /\ TableEntry(u) # Zero
  BY TableEntryIs
<1>5. Way3(mem2, q, u)
  BY <1>1, <1>3, <1>4 DEF Way3, KeepsBut, Rooted
<1>6. mem2[u + index_pdpt(q)] = TableEntry(t)
  BY <1>1, <1>2, <1>3, <1>4 DEF KeepsBut
<1>. QED BY <1>5, <1>6 DEF Way2

LEMMA Way1Stays ==
    ASSUME NEW mem, NEW fr, NEW L, Tree(mem, fr, L), Rooted(L), NEW q \in Nat, q < VirtualPages,
           NEW mem2, NEW label, NEW i, KeepsBut(mem, L, mem2, label, i),
           label # Label(4, 0), label # Label(3, Quarter(q)), label # Label(2, Gigabyte(q)),
           NEW t, Way1(mem, q, t)
    PROVE  Way1(mem2, q, t)
<1>1. PICK u : Way2(mem, q, u) /\ mem[u + index_pd(q)] = TableEntry(t)
  BY DEF Way1
<1>2. u \in DOMAIN L /\ L[u] = Label(2, Gigabyte(q))
  BY <1>1, SecondTable
<1>3. Way2(mem2, q, u)
  BY <1>1, Way2Stays
<1>4. mem2[u + index_pd(q)] = TableEntry(t)
  BY <1>1, <1>2, IndexesAre, TableEntryIs DEF KeepsBut
<1>. QED BY <1>3, <1>4 DEF Way1

LEMMA LabelsDiffer ==
    ASSUME NEW l, NEW m, NEW a, NEW b
    PROVE  Label(l, a) = Label(m, b) => l = m /\ a = b
<1>1. Label(l, a).level = l /\ Label(m, b).level = m /\ Label(l, a).prefix = a /\ Label(m, b).prefix = b
  BY DEF Label
<1>. QED BY <1>1

\* A page's word stays when another page's is written.
LEMMA LeafStays ==
    ASSUME NEW mem, NEW fr, NEW L, Tree(mem, fr, L), Rooted(L), NEW p \in Nat, p < VirtualPages,
           NEW mem2, KeepsBut(mem, L, mem2, Label(1, Middle(p)), index_pt(p)),
           NEW q \in Nat, q < VirtualPages, q # p, ~InWindow(Gigabyte(q)),
           NEW w, w # Zero, Leaf(mem, q, w)
    PROVE  Leaf(mem2, q, w)
<1>1. PICK t : Way1(mem, q, t) /\ mem[t + index_pt(q)] = w
  BY DEF Leaf
<1>2. t \in DOMAIN L /\ L[t] = Label(1, Middle(q))
  BY <1>1, FirstTable
<1>3. /\ Label(1, Middle(p)) # Label(4, 0) /\ Label(1, Middle(p)) # Label(3, Quarter(q))
      /\ Label(1, Middle(p)) # Label(2, Gigabyte(q))
  BY LabelsDiffer
<1>4. Way1(mem2, q, t)
  BY <1>1, <1>3, Way1Stays
<1>5. ~(Label(1, Middle(q)) = Label(1, Middle(p)) /\ index_pt(q) = index_pt(p))
  BY LabelsDiffer, IndexesAre
<1>6. mem2[t + index_pt(q)] = w
  BY <1>1, <1>2, <1>5, IndexesAre DEF KeepsBut
<1>. QED BY <1>4, <1>6 DEF Leaf

\* A gigabyte of a window stays when a page or another gigabyte is mapped.
LEMMA WindowStays ==
    ASSUME NEW mem, NEW fr, NEW L, Tree(mem, fr, L), Rooted(L), NEW q \in Nat, q < VirtualPages,
           NEW mem2, NEW level, NEW prefix, NEW i,
           KeepsBut(mem, L, mem2, Label(level, prefix), i),
           level = 1 \/ (level = 3 /\ ~(prefix = Quarter(q) /\ i = index_pdpt(q))),
           NEW g, Window(mem, q, g)
    PROVE  Window(mem2, q, g)
<1>1. PICK t : Way2(mem, q, t) /\ \A j \in Indices : mem[t + j] = HugeEntry(g, j)
  BY DEF Window
<1>2. t \in DOMAIN L /\ L[t] = Label(2, Gigabyte(q))
  BY <1>1, SecondTable
<1>3. \A j : HugeEntry(g, j) # Zero
  <2>1. \A to : Entry(to, TRUE, TRUE, TRUE) # Zero
    BY DEF Entry, Zero
  <2>. QED BY <2>1, Zenon DEF HugeEntry
<1>4. Label(level, prefix) # Label(4, 0) /\ Label(level, prefix) # Label(2, Gigabyte(q))
      /\ ~(Label(level, prefix) = Label(3, Quarter(q)) /\ i = index_pdpt(q))
  BY LabelsDiffer
<1>5. Way2(mem2, q, t)
  BY <1>1, <1>4, Way2Stays
<1>6. \A j \in Indices : mem2[t + j] = mem[t + j]
  BY <1>1, <1>2, <1>3, <1>4 DEF KeepsBut
<1>. QED BY <1>1, <1>5, <1>6 DEF Window

-----------------------------------------------------------------------------
(***************************************************************************)
(* map_page and map_gigabyte, with the tables they make on the way.        *)
(***************************************************************************)
LEMMA GrowsOn ==
    ASSUME NEW m1, NEW f1, NEW K1, NEW m2, NEW f2, NEW K2, NEW m3, NEW f3, NEW K3,
           Grows(m1, f1, K1, m2, f2, K2), Grows(m2, f2, K2, m3, f3, K3)
    PROVE  /\ Grows(m1, f1, K1, m3, f3, K3)
           /\ Keeps(m1, K1, m2) /\ Keeps(m2, K2, m3) => Keeps(m1, K1, m3)
           /\ Rooted(K1) => Rooted(K2)
<1>1. Grows(m1, f1, K1, m3, f3, K3)
  BY DEF Grows
<1>2. Keeps(m1, K1, m2) /\ Keeps(m2, K2, m3) => Keeps(m1, K1, m3)
  BY DEF Grows, Keeps
<1>. QED BY <1>1, <1>2 DEF Grows, Rooted

\* Where there is no table there is none below.
LEMMA NoTable ==
    ASSUME NEW mem, NEW fr, NEW i
    PROVE  child_table([memory |-> mem, free |-> fr, table |-> None], i)
             = [memory |-> mem, free |-> fr, table |-> None]
BY DEF child_table

Wrote(mem, a, w, mem2) == mem2 = [mem EXCEPT ![a] = w]

\* A word of a table that is no directory may be anything.
LEMMA WriteWord ==
    ASSUME NEW mem, NEW fr, NEW L, Tree(mem, fr, L), NEW t \in DOMAIN L, ~Directory(L[t]),
           NEW i \in Indices, NEW w, NEW mem2, Wrote(mem, t + i, w, mem2)
    PROVE  /\ Tree(mem2, fr, L) /\ Grows(mem, fr, L, mem2, fr, L) /\ mem2[t + i] = w
           /\ \A u \in DOMAIN L : \A j \in Indices : ~(u = t /\ j = i) => mem2[u + j] = mem[u + j]
<1>1. /\ t \in Nat /\ Aligned(t) /\ t + i \in DOMAIN mem /\ t + i \notin fr /\ t + i \notin Taken
      /\ \A u \in DOMAIN L : u \in Nat /\ Aligned(u) /\ \A j \in Indices : u + j \in DOMAIN mem
  BY DEF Tree, Table
<1>2. /\ DOMAIN mem2 = DOMAIN mem /\ mem2[t + i] = w
      /\ \A x \in DOMAIN mem : x # t + i => mem2[x] = mem[x]
  BY <1>1 DEF Wrote
<1>3. Grows(mem, fr, L, mem2, fr, L)
  BY <1>1, <1>2 DEF Grows
<1>4. ASSUME NEW u \in DOMAIN L, NEW j \in Indices, ~(u = t /\ j = i) PROVE mem2[u + j] = mem[u + j]
  <2>1. u + j # t + i
    BY <1>1, <1>4, TablesApart
  <2>. QED BY <1>1, <1>2, <2>1
<1>5. ASSUME NEW u \in DOMAIN L PROVE Table(mem2, fr, L, u)
  <2>1. Table(mem, fr, L, u)
    BY DEF Tree
  <2>2. Directory(L[u]) => \A j \in Indices : mem2[u + j] = mem[u + j]
    BY <1>4
  <2>. QED BY <1>2, <2>1, <2>2 DEF Table
<1>6. Tree(mem2, fr, L)
  BY <1>2, <1>5 DEF Tree
<1>. QED BY <1>2, <1>3, <1>4, <1>6

\* The tables stay a tree, and those there are stay.
Extends(mem, fr, L, mem2, fr2, K) ==
    /\ Tree(mem2, fr2, K) /\ Rooted(K) /\ Grows(mem, fr, L, mem2, fr2, K)

Found(mem, fr, L, label, r) ==
    \E mem2, fr2, t, K :
        /\ r = [memory |-> mem2, free |-> fr2, table |-> t]
        /\ Extends(mem, fr, L, mem2, fr2, K) /\ Keeps(mem, L, mem2)
        /\ t # None => t \in DOMAIN K /\ K[t] = label

Found3(mem, fr, L, p, r) ==
    Found(mem, fr, L, Label(3, Quarter(p)), r) /\ (r.table # None => Way3(r.memory, p, r.table))
Found2(mem, fr, L, p, r) ==
    Found(mem, fr, L, Label(2, Gigabyte(p)), r) /\ (r.table # None => Way2(r.memory, p, r.table))
Found1(mem, fr, L, p, r) ==
    Found(mem, fr, L, Label(1, Middle(p)), r) /\ (r.table # None => Way1(r.memory, p, r.table))

\* One level down, from a table that was found or from none.
LEMMA FindChild ==
    ASSUME NEW mem, NEW fr, NEW L, NEW label, NEW r, Found(mem, fr, L, label, r),
           Directory(label), NEW i \in Indices, NEW s, s = child_table(r, i)
    PROVE  /\ Found(mem, fr, L, Child(label, i), s)
           /\ s.table # None => /\ r.table # None /\ s.memory[r.table + i] = TableEntry(s.table)
                                /\ \E f, K : /\ Tree(r.memory, f, K) /\ Rooted(K)
                                             /\ Keeps(r.memory, K, s.memory)
<1>1. PICK m1, f1, t, K1 :
        /\ r = [memory |-> m1, free |-> f1, table |-> t]
        /\ Extends(mem, fr, L, m1, f1, K1) /\ Keeps(mem, L, m1)
        /\ t # None => t \in DOMAIN K1 /\ K1[t] = label
  BY DEF Found
<1>2. CASE t = None
  <2>1. s = [memory |-> m1, free |-> f1, table |-> None]
    BY <1>1, <1>2, NoTable
  <2>2. Found(mem, fr, L, Child(label, i), s)
    BY <1>1, <2>1 DEF Found
  <2>3. s.table = None
    BY <2>1
  <2>. QED BY <2>2, <2>3
<1>3. CASE t # None
  <2>1. HasChild(m1, f1, K1, t, i, s)
    BY <1>1, <1>3, ChildTable DEF Extends
  <2>2. PICK m2, f2, u, K2 :
          /\ s = [memory |-> m2, free |-> f2, table |-> u]
          /\ Tree(m2, f2, K2) /\ Grows(m1, f1, K1, m2, f2, K2) /\ Keeps(m1, K1, m2)
          /\ u # None => u \in DOMAIN K2 /\ K2[u] = Child(K1[t], i) /\ m2[t + i] = TableEntry(u)
    BY <2>1 DEF HasChild
  <2>3. Extends(mem, fr, L, m2, f2, K2) /\ Keeps(mem, L, m2)
    <3>1. Grows(mem, fr, L, m1, f1, K1) /\ Rooted(K1) /\ Keeps(mem, L, m1)
      BY <1>1 DEF Extends
    <3>2. Grows(mem, fr, L, m2, f2, K2) /\ Keeps(mem, L, m2)
      BY <2>2, <3>1, GrowsOn
    <3>3. Rooted(K2)
      BY <2>2, <3>1 DEF Rooted, Grows
    <3>. QED BY <2>2, <3>2, <3>3 DEF Extends
  <2>4. Found(mem, fr, L, Child(label, i), s)
    BY <1>1, <1>3, <2>2, <2>3 DEF Found
  <2>5. s.table = u /\ s.memory = m2 /\ r.table = t /\ r.memory = m1
    BY <1>1, <2>2
  <2>. QED BY <1>1, <1>3, <2>2, <2>4, <2>5 DEF Extends
<1>. QED BY <1>2, <1>3

LEMMA KeepsIsBut ==
    ASSUME NEW mem, NEW L, NEW mem2, Keeps(mem, L, mem2), NEW label, NEW i
    PROVE  KeepsBut(mem, L, mem2, label, i)
BY DEF Keeps, KeepsBut

LEMMA Find3 ==
    ASSUME NEW mem, NEW fr, NEW L, Tree(mem, fr, L), Rooted(L), NEW p \in Nat, p < VirtualPages,
           NEW r, r = child_table([memory |-> mem, free |-> fr, table |-> root], index_pml4(p))
    PROVE  Found3(mem, fr, L, p, r)
<1>. PICK s : s = [memory |-> mem, free |-> fr, table |-> root]
  OBVIOUS
<1>1. Found(mem, fr, L, Label(4, 0), s)
  BY KeepsItself DEF Found, Extends, Rooted
<1>2. Directory(Label(4, 0)) /\ index_pml4(p) \in Indices
      /\ Child(Label(4, 0), index_pml4(p)) = Label(3, Quarter(p))
  BY PathLabels, IndexesAre
<1>3. s.table = root
  OBVIOUS
<1>4. /\ Found(mem, fr, L, Label(3, Quarter(p)), r)
      /\ r.table # None => r.memory[root + index_pml4(p)] = TableEntry(r.table)
  BY <1>1, <1>2, <1>3, FindChild
<1>. QED BY <1>4 DEF Found3, Way3

LEMMA Find2 ==
    ASSUME NEW mem, NEW fr, NEW L, NEW p \in Nat, p < VirtualPages,
           NEW s, Found3(mem, fr, L, p, s), NEW r, r = child_table(s, index_pdpt(p))
    PROVE  Found2(mem, fr, L, p, r)
<1>1. /\ Directory(Label(3, Quarter(p))) /\ index_pml4(p) \in Indices /\ index_pdpt(p) \in Indices
      /\ Child(Label(3, Quarter(p)), index_pdpt(p)) = Label(2, Gigabyte(p))
  BY PathLabels, IndexesAre
<1>2. /\ Found(mem, fr, L, Label(2, Gigabyte(p)), r)
      /\ r.table # None => /\ s.table # None /\ r.memory[s.table + index_pdpt(p)] = TableEntry(r.table)
                           /\ \E f, K : /\ Tree(s.memory, f, K) /\ Rooted(K)
                                        /\ Keeps(s.memory, K, r.memory)
  BY <1>1, FindChild DEF Found3
<1>3. ASSUME r.table # None PROVE Way2(r.memory, p, r.table)
  <2>1. PICK f, K : Tree(s.memory, f, K) /\ Rooted(K) /\ Keeps(s.memory, K, r.memory)
    BY <1>2, <1>3
  <2>2. Way3(s.memory, p, s.table)
    BY <1>2, <1>3 DEF Found3
  <2>3. Way3(r.memory, p, s.table)
    BY <1>1, <2>1, <2>2, TableEntryIs DEF Way3, Keeps, Rooted
  <2>. QED BY <1>2, <1>3, <2>3 DEF Way2
<1>. QED BY <1>2, <1>3 DEF Found2

LEMMA Find1 ==
    ASSUME NEW mem, NEW fr, NEW L, NEW p \in Nat, p < VirtualPages, ~InWindow(Gigabyte(p)),
           NEW s, Found2(mem, fr, L, p, s), NEW r, r = child_table(s, index_pd(p))
    PROVE  Found1(mem, fr, L, p, r)
<1>1. /\ Directory(Label(2, Gigabyte(p))) /\ index_pd(p) \in Indices
      /\ Child(Label(2, Gigabyte(p)), index_pd(p)) = Label(1, Middle(p))
  BY PathLabels, IndexesAre
<1>2. /\ Found(mem, fr, L, Label(1, Middle(p)), r)
      /\ r.table # None => /\ s.table # None /\ r.memory[s.table + index_pd(p)] = TableEntry(r.table)
                           /\ \E f, K : /\ Tree(s.memory, f, K) /\ Rooted(K)
                                        /\ Keeps(s.memory, K, r.memory)
  BY <1>1, FindChild DEF Found2
<1>3. ASSUME r.table # None PROVE Way1(r.memory, p, r.table)
  <2>1. PICK f, K : Tree(s.memory, f, K) /\ Rooted(K) /\ Keeps(s.memory, K, r.memory)
    BY <1>2, <1>3
  <2>2. Way2(s.memory, p, s.table)
    BY <1>2, <1>3 DEF Found2
  <2>3. KeepsBut(s.memory, K, r.memory, Label(0, 0), 0)
    BY <2>1, KeepsIsBut
  <2>4. Label(0, 0) # Label(4, 0) /\ Label(0, 0) # Label(3, Quarter(p))
    BY LabelsDiffer
  <2>5. Way2(r.memory, p, s.table)
    BY <2>1, <2>2, <2>3, <2>4, Way2Stays
  <2>. QED BY <1>2, <1>3, <2>5 DEF Way1
<1>. QED BY <1>2, <1>3 DEF Found1

MapsPage(mem, fr, L, p, w, r) ==
    \E mem2, fr2, t, K :
        /\ r = [memory |-> mem2, free |-> fr2, table |-> t]
        /\ Extends(mem, fr, L, mem2, fr2, K)
        /\ t # None => /\ Leaf(mem2, p, w)
                       /\ KeepsBut(mem, L, mem2, Label(1, Middle(p)), index_pt(p))

\* map_page makes one page lead to its word.
LEMMA MapPageTables ==
    ASSUME NEW mem, NEW fr, NEW L, Tree(mem, fr, L), Rooted(L), NEW p \in Nat, p < VirtualPages,
           ~InWindow(Gigabyte(p)), NEW address, NEW segment
    PROVE  MapsPage(mem, fr, L, p, Entry(address, FALSE, segment.write, segment.exec),
                    map_page([memory |-> mem, free |-> fr, table |-> root], root, p, address, segment))
<1>. DEFINE m == [memory |-> mem, free |-> fr, table |-> root]
<1>1. PICK w : w = Entry(address, FALSE, segment.write, segment.exec)
  OBVIOUS
<1>2. PICK pdpt, pd, pt : /\ pdpt = child_table(m, index_pml4(p))
                          /\ pd = child_table(pdpt, index_pdpt(p))
                          /\ pt = child_table(pd, index_pd(p))
  OBVIOUS
<1>3. PICK i : i = index_pt(p)
  OBVIOUS
<1>4. Found1(mem, fr, L, p, pt)
  <2>1. Found3(mem, fr, L, p, pdpt)
    BY <1>2, Find3
  <2>2. Found2(mem, fr, L, p, pd)
    BY <1>2, <2>1, Find2
  <2>. QED BY <1>2, <2>2, Find1
<1>5. PICK r : r = map_page(m, root, p, address, segment)
  OBVIOUS
<1>6. r = IF pt.table = None THEN pt ELSE [pt EXCEPT !.memory = [@ EXCEPT ![pt.table + i] = w]]
  <2>1. [m EXCEPT !.table = root] = m
    OBVIOUS
  <2>. HIDE DEF m
  <2>. QED BY <1>1, <1>2, <1>3, <1>5, <2>1, Zenon DEF map_page
<1>7. PICK m1, f1, t, K :
        /\ pt = [memory |-> m1, free |-> f1, table |-> t]
        /\ Extends(mem, fr, L, m1, f1, K) /\ Keeps(mem, L, m1)
        /\ t # None => t \in DOMAIN K /\ K[t] = Label(1, Middle(p))
  BY <1>4 DEF Found1, Found
<1>8. CASE t = None
  <2>1. r = [memory |-> m1, free |-> f1, table |-> t]
    BY <1>6, <1>7, <1>8
  <2>2. MapsPage(mem, fr, L, p, w, r)
    BY <1>7, <1>8, <2>1 DEF MapsPage
  <2>. QED BY <1>1, <1>5, <2>2
<1>9. CASE t # None
  <2>1. PICK m2 : m2 = [m1 EXCEPT ![t + i] = w]
    OBVIOUS
  <2>2. r = [memory |-> m2, free |-> f1, table |-> t]
    BY <1>6, <1>7, <1>9, <2>1
  <2>3. i \in Indices
    BY <1>3, IndexesAre
  <2>4. ~Directory(K[t])
    BY <1>7, <1>9 DEF Directory, Label
  <2>5. /\ Tree(m2, f1, K) /\ Grows(m1, f1, K, m2, f1, K) /\ m2[t + i] = w
        /\ \A u \in DOMAIN K : \A j \in Indices : ~(u = t /\ j = i) => m2[u + j] = m1[u + j]
    <3>1. Wrote(m1, t + i, w, m2)
      BY <2>1 DEF Wrote
    <3>. QED BY <1>7, <1>9, <2>3, <2>4, <3>1, WriteWord DEF Extends
  <2>6. Extends(mem, fr, L, m2, f1, K)
    BY <1>7, <2>5, GrowsOn DEF Extends
  <2>7. KeepsBut(mem, L, m2, Label(1, Middle(p)), i)
    BY <1>7, <1>9, <2>5 DEF KeepsBut, Keeps, Extends, Grows
  <2>8. KeepsBut(m1, K, m2, Label(1, Middle(p)), i)
    BY <1>7, <1>9, <2>5 DEF KeepsBut
  <2>9. Way1(m1, p, t)
    BY <1>4, <1>7, <1>9 DEF Found1
  <2>10. /\ Label(1, Middle(p)) # Label(4, 0) /\ Label(1, Middle(p)) # Label(3, Quarter(p))
         /\ Label(1, Middle(p)) # Label(2, Gigabyte(p))
    BY LabelsDiffer
  <2>11. Way1(m2, p, t)
    BY <1>7, <2>8, <2>9, <2>10, Way1Stays DEF Extends
  <2>12. Leaf(m2, p, w)
    BY <1>3, <2>5, <2>11 DEF Leaf
  <2>13. MapsPage(mem, fr, L, p, w, r)
    BY <1>3, <2>2, <2>6, <2>7, <2>12 DEF MapsPage
  <2>. QED BY <1>1, <1>5, <2>13
<1>. QED BY <1>8, <1>9

(***************************************************************************)
(* map_gigabyte.                                                           *)
(***************************************************************************)
MapsGigabyte(mem, fr, L, p, g, r) ==
    \E mem2, fr2, t, K :
        /\ r = [memory |-> mem2, free |-> fr2, table |-> t]
        /\ Extends(mem, fr, L, mem2, fr2, K)
        /\ t # None => /\ Window(mem2, p, g)
                       /\ KeepsBut(mem, L, mem2, Label(3, Quarter(p)), index_pdpt(p))

\* A new table of huge pages hangs in the table above it.
Hangs(m1, slot, a, g, m2) ==
    m2 = [x \in DOMAIN m1 |->
            IF x = slot THEN TableEntry(a)
            ELSE IF x \in Words(a, PageWords)
            THEN Entry((g * GigabytePages + (x - a) * PageWords) * PageWords, TRUE, TRUE, TRUE)
            ELSE m1[x]]

LEMMA HangTable ==
    ASSUME NEW m0, NEW f0, NEW K, Tree(m0, f0, K), Rooted(K), NEW p \in Nat, p < VirtualPages,
           InWindow(Gigabyte(p)), NEW t \in DOMAIN K, K[t] = Label(3, Quarter(p)), Way3(m0, p, t),
           NEW a \in Nat, Aligned(a), \A i \in Indices : a + i \in f0,
           NEW g, NEW m2, Hangs(Zeroed(m0, a, PageWords), t + index_pdpt(p), a, g, m2)
    PROVE  \E M : /\ Extends(m0, f0, K, m2, f0 \ Words(a, PageWords), M)
                  /\ Window(m2, p, g)
                  /\ KeepsBut(m0, K, m2, Label(3, Quarter(p)), index_pdpt(p))
<1>1. PICK i3, i4 : i3 = index_pdpt(p) /\ i4 = index_pml4(p)
  OBVIOUS
<1>2. i3 \in Indices /\ i4 \in Indices /\ Child(K[t], i3) = Label(2, Gigabyte(p)) /\ Directory(K[t])
  BY <1>1, IndexesAre, PathLabels
<1>3. PICK M, f2 : f2 = f0 \ Words(a, PageWords) /\ M = NewTable(K, a, Child(K[t], i3))
  OBVIOUS
<1>4. ~Directory(Child(K[t], i3))
  BY <1>2, PathLabels
<1>5. a \notin DOMAIN K /\ \A u \in DOMAIN K : \A i \in Indices : u + i \notin Words(a, PageWords)
  BY NewPage
<1>6. t + i3 \in DOMAIN m0 /\ \A i \in Indices : a + i \in DOMAIN m0
  BY <1>2 DEF Tree, Table
<1>7. DOMAIN Zeroed(m0, a, PageWords) = DOMAIN m0
      /\ \A x \in DOMAIN m0 : x \notin Words(a, PageWords) => Zeroed(m0, a, PageWords)[x] = m0[x]
  BY DEF Zeroed
<1>8. /\ DOMAIN m2 = DOMAIN m0 /\ m2[t + i3] = TableEntry(a)
      /\ \A x \in DOMAIN m0 : x # t + i3 /\ x \notin Words(a, PageWords) => m2[x] = m0[x]
  BY <1>1, <1>6, <1>7 DEF Hangs
<1>9. \A i \in Indices : m2[a + i] = HugeEntry(g, i)
  <2>. SUFFICES ASSUME NEW i \in Indices PROVE m2[a + i] = HugeEntry(g, i)
    OBVIOUS
  <2>1. a + i \in Words(a, PageWords) /\ a + i # t + i3
    BY <1>2, <1>5, InPage
  <2>2. (a + i) - a = i
    BY SizeAssumption DEF Indices
  <2>3. m2[a + i] = Entry((g * GigabytePages + ((a + i) - a) * PageWords) * PageWords, TRUE, TRUE, TRUE)
    BY <1>1, <1>6, <1>7, <2>1, Zenon DEF Hangs
  <2>. QED BY <2>2, <2>3, Zenon DEF HugeEntry
<1>10. Attaches(m0, f0, K, t, i3, a, m2, f2, M)
  BY <1>3, <1>4, <1>8 DEF Attaches
<1>11. /\ Tree(m2, f2, M) /\ Grows(m0, f0, K, m2, f2, M)
       /\ \A u \in DOMAIN K : \A j \in Indices : ~(u = t /\ j = i3) => m2[u + j] = m0[u + j]
  BY <1>2, <1>10, Attach
<1>12. Extends(m0, f0, K, m2, f2, M)
  BY <1>11 DEF Extends, Rooted, Grows
<1>13. KeepsBut(m0, K, m2, Label(3, Quarter(p)), i3)
  BY <1>11 DEF KeepsBut
<1>14. Way3(m2, p, t)
  <2>1. root # t
    BY LabelsDiffer DEF Rooted
  <2>. QED BY <1>1, <1>2, <1>11, <2>1 DEF Way3, Rooted
<1>15. Window(m2, p, g)
  BY <1>1, <1>8, <1>9, <1>14 DEF Window, Way2
<1>. QED BY <1>1, <1>3, <1>12, <1>13, <1>15

LEMMA MapGigabyteTables ==
    ASSUME NEW mem, NEW fr, NEW L, Tree(mem, fr, L), Rooted(L), NEW base, NEW g,
           NEW p \in Nat, p = base + g * GigabytePages, p < VirtualPages, InWindow(Gigabyte(p))
    PROVE  MapsGigabyte(mem, fr, L, p, g,
                        map_gigabyte([memory |-> mem, free |-> fr, table |-> root], root, base, g))
<1>. DEFINE m == [memory |-> mem, free |-> fr, table |-> root]
<1>1. PICK pdpt, pd : pdpt = child_table(m, index_pml4(p)) /\ pd = allocate_table(pdpt)
  OBVIOUS
<1>2. PICK r : r = map_gigabyte(m, root, base, g)
  OBVIOUS
<1>3. PICK filled : Hangs(pd.memory, pdpt.table + index_pdpt(p), pd.table, g, filled)
  BY DEF Hangs
<1>4. r = IF pdpt.table = None THEN pdpt
          ELSE IF pd.table = None THEN pd
          ELSE [pd EXCEPT !.memory = filled]
  <2>1. [m EXCEPT !.table = root] = m
    OBVIOUS
  <2>. HIDE DEF m
  <2>. QED BY <1>1, <1>2, <1>3, <2>1, Zenon DEF map_gigabyte, Hangs
<1>5. Found3(mem, fr, L, p, pdpt)
  BY <1>1, Find3
<1>6. PICK m1, f1, t, K :
        /\ pdpt = [memory |-> m1, free |-> f1, table |-> t]
        /\ Extends(mem, fr, L, m1, f1, K) /\ Keeps(mem, L, m1)
        /\ t # None => t \in DOMAIN K /\ K[t] = Label(3, Quarter(p))
  BY <1>5 DEF Found3, Found
<1>7. CASE t = None
  <2>1. r = [memory |-> m1, free |-> f1, table |-> t]
    BY <1>4, <1>6, <1>7
  <2>2. MapsGigabyte(mem, fr, L, p, g, r)
    BY <1>6, <1>7, <2>1 DEF MapsGigabyte
  <2>. QED BY <1>2, <2>2
<1>8. CASE t # None
  <2>1. Allocates(m1, f1, pd)
    <3>1. f1 \subseteq Words(0, firmware.top) /\ firmware.top \in Nat
      BY <1>6 DEF Extends, Tree
    <3>. QED BY <1>1, <1>6, <3>1, AllocateTable
  <2>2. CASE pd = [memory |-> m1, free |-> f1, table |-> None]
    <3>1. r = [memory |-> m1, free |-> f1, table |-> None]
      BY <1>4, <1>6, <1>8, <2>2
    <3>2. MapsGigabyte(mem, fr, L, p, g, r)
      BY <1>6, <3>1 DEF MapsGigabyte
    <3>. QED BY <1>2, <3>2
  <2>3. CASE pd # [memory |-> m1, free |-> f1, table |-> None]
    <3>1. PICK a \in Nat :
            /\ Aligned(a) /\ \A i \in Indices : a + i \in f1
            /\ pd = [memory |-> Zeroed(m1, a, PageWords), free |-> f1 \ Words(a, PageWords), table |-> a]
      BY <2>1, <2>3 DEF Allocates
    <3>2. a # None
      BY DEF None
    <3>3. PICK f2 : f2 = f1 \ Words(a, PageWords)
      OBVIOUS
    <3>4. r = [memory |-> filled, free |-> f2, table |-> a]
      BY <1>4, <1>6, <1>8, <3>1, <3>2, <3>3
    <3>5. Way3(m1, p, t)
      BY <1>5, <1>6, <1>8 DEF Found3
    <3>6. Hangs(Zeroed(m1, a, PageWords), t + index_pdpt(p), a, g, filled)
      BY <1>3, <1>6, <3>1
    <3>7. PICK M : /\ Extends(m1, f1, K, filled, f2, M) /\ Window(filled, p, g)
                   /\ KeepsBut(m1, K, filled, Label(3, Quarter(p)), index_pdpt(p))
      BY <1>6, <1>8, <3>1, <3>3, <3>5, <3>6, HangTable DEF Extends
    <3>8. Extends(mem, fr, L, filled, f2, M)
      BY <1>6, <3>7, GrowsOn DEF Extends
    <3>9. KeepsBut(mem, L, filled, Label(3, Quarter(p)), index_pdpt(p))
      BY <1>6, <3>7 DEF KeepsBut, Keeps, Extends, Grows
    <3>10. MapsGigabyte(mem, fr, L, p, g, r)
      BY <3>4, <3>7, <3>8, <3>9 DEF MapsGigabyte
    <3>. QED BY <1>2, <3>10
  <2>. QED BY <2>2, <2>3
<1>. QED BY <1>7, <1>8

-----------------------------------------------------------------------------
(***************************************************************************)
(* The invariant: Claims keeps segments and modules apart and out of free  *)
(* memory, TablesInv says that there is an L for the tables.               *)
(***************************************************************************)
LEMMA PagesAre ==
    ASSUME NEW w \in Nat
    PROVE  PageCount(w) \in Nat /\ PageCount(w) * PageWords \in Nat /\ w <= PageCount(w) * PageWords
<1>1. w + PageWords - 1 \in Nat /\ PageWords \in Nat \ {0}
  BY SizeAssumption
<1>2. PageCount(w) \in Nat
  BY <1>1, DivMod DEF PageCount
<1>. QED BY <1>2, PagesCover

SegmentRoom(s) == SegmentPages(Segment(s)) * PageWords
ModuleRoom(n) == PageCount(kernel.modules[n].words) * PageWords

\* What the model does not require of a kernel, but its linker does: segments
\* have pages of their own, and what is answered lies in one of them.
Linked ==
    /\ \A s, t \in DOMAIN kernel.segments : s # t =>
         \/ Segment(s).page + SegmentPages(Segment(s)) <= Segment(t).page
         \/ Segment(t).page + SegmentPages(Segment(t)) <= Segment(s).page
    /\ \A answer \in Answers : \A s, t \in DOMAIN kernel.segments :
         /\ answer.at >= Segment(s).offset /\ answer.at < Segment(s).offset + Segment(s).file
         /\ answer.at >= Segment(t).offset /\ answer.at < Segment(t).offset + Segment(t).file
         => s = t

KernelType ==
    /\ firmware \in LimineMachines /\ kernel \in Kernels /\ Clear
    /\ DOMAIN memory = Words(0, firmware.top) /\ free \subseteq Words(0, firmware.top)
    /\ free \cap firmware.used = {} /\ OthersUntouched
    /\ loaded \in Seq(Nat) /\ Len(loaded) <= Len(kernel.segments)
    /\ modules \in Seq(Nat) /\ Len(modules) <= Len(kernel.modules)
    /\ root \in Nat \cup {None}
    /\ identity \in 0 .. MinGigabytes /\ hhdm \in 0 .. HhdmGigabytes
    /\ DOMAIN mapped = DOMAIN kernel.segments
    /\ \A s \in DOMAIN mapped : mapped[s] \in 0 .. SegmentPages(Segment(s))

\* The order in which they come.
Ordered ==
    /\ loaded # <<>> => \A s \in DOMAIN kernel.segments : Loadable(Segment(s))
    /\ modules # <<>> \/ root # None => AllLoaded
    /\ root # None => Len(modules) = Len(kernel.modules)
    /\ hhdm > 0 => root # None /\ identity = MinGigabytes
    /\ identity > 0 => root # None
    /\ \A s \in DOMAIN mapped : mapped[s] > 0 => root # None /\ identity = MinGigabytes /\ hhdm = HhdmGigabytes
    /\ outcome = "kernel" =>
         root # None /\ identity = MinGigabytes /\ hhdm = HhdmGigabytes /\ Unmapped = {}

Held(ws) == ws \subseteq DOMAIN memory /\ ws \cap free = {} /\ ws \cap firmware.used = {}

\* Segments and modules have memory of their own.
Claims ==
    /\ \A s \in DOMAIN loaded : Held(SegmentWords(s))
    /\ \A n \in DOMAIN modules : Held(ModuleWords(n))
    /\ \A s, t \in DOMAIN loaded : s # t => SegmentWords(s) \cap SegmentWords(t) = {}
    /\ \A n, o \in DOMAIN modules : n # o => ModuleWords(n) \cap ModuleWords(o) = {}
    /\ \A s \in DOMAIN loaded : \A n \in DOMAIN modules : SegmentWords(s) \cap ModuleWords(n) = {}

\* A word of a segment as it was loaded.
Raw(s, i) ==
    IF i < Segment(s).file THEN FileWord("kernel", Segment(s).offset + i) ELSE Zero

ModulesThere ==
    \A n \in DOMAIN modules : \A i \in Words(0, kernel.modules[n].words) :
        memory[modules[n] + i] = FileWord(kernel.modules[n].name, i)
SegmentsRaw ==
    \A s \in DOMAIN loaded : \A i \in Words(0, SegmentRoom(s)) : memory[loaded[s] + i] = Raw(s, i)
SegmentsMeant ==
    \A s \in DOMAIN loaded : \A i \in Words(0, SegmentRoom(s)) : memory[loaded[s] + i] = Meant(s, i)

Windows(mem) ==
    /\ \A g \in Nat : g < identity => Window(mem, g * GigabytePages, g)
    /\ \A g \in Nat : g < hhdm => Window(mem, HigherHalf + g * GigabytePages, g)

PageEntry(s, k) == Entry(loaded[s] + k * PageWords, FALSE, Segment(s).write, Segment(s).exec)
Leaves(mem) ==
    \A s \in DOMAIN mapped : \A k \in Nat : k < mapped[s] =>
        Leaf(mem, Segment(s).page + k, PageEntry(s, k))

TablesInv ==
    root # None => \E L : /\ Tree(memory, free, L) /\ Rooted(L) /\ Windows(memory)
                          /\ Linked => Leaves(memory)

KernelInv ==
    /\ KernelType /\ Ordered /\ Claims
    /\ outcome # "error" =>
         /\ ModulesThere /\ (root = None => SegmentsRaw) /\ (root # None /\ Linked => SegmentsMeant)
         /\ TablesInv

ModuleFiles == [name : STRING, words : Nat]

LEMMA MachineIs ==
    ASSUME KernelType
    PROVE  /\ firmware.top \in Nat /\ kernel.segments \in Seq(Segments)
           /\ kernel.modules \in Seq(ModuleFiles)
           /\ HhdmGigabytes \in Nat /\ MinGigabytes \in Nat /\ MinGigabytes <= HhdmGigabytes
           /\ PageWords \in Nat \ {0} /\ GigabytePages \in Nat \ {0}
<1>1. firmware.top \in Nat
  BY KernelAssumption DEF KernelType
<1>2. kernel \in [words : Seq(STRING), segments : Seq(Segments), modules : Seq(ModuleFiles)]
  BY KernelAssumption DEF KernelType, ModuleFiles
<1>3. kernel.segments \in Seq(Segments) /\ kernel.modules \in Seq(ModuleFiles)
  BY <1>2
<1>4. PageWords \in Nat \ {0} /\ MinGigabytes \in Nat
  BY SizeAssumption, KernelAssumption
<1>5. GigabytePages * PageWords \in Nat \ {0} /\ GigabytePages \in Nat \ {0}
  <2>1. PageWords * PageWords \in Nat \ {0}
    BY <1>4, QuotientTwice
  <2>. QED BY <1>4, <2>1, QuotientTwice DEF GigabytePages
<1>6. HhdmGigabytes \in Nat /\ MinGigabytes <= HhdmGigabytes
  <2>1. PICK k : k = GigabytePages * PageWords
    OBVIOUS
  <2>2. (firmware.top + k - 1) \div k \in Nat
    BY <1>1, <1>5, <2>1
  <2>3. HhdmGigabytes = Larger((firmware.top + k - 1) \div k, MinGigabytes)
    BY <2>1, Zenon DEF HhdmGigabytes, Gigabytes
  <2>. QED BY <1>4, <2>2, <2>3 DEF Larger
<1>. QED BY <1>1, <1>3, <1>4, <1>5, <1>6

LEMMA SegmentIs ==
    ASSUME KernelType, NEW s \in DOMAIN kernel.segments
    PROVE  /\ Segment(s) \in Segments /\ Segment(s).page \in Nat /\ Segment(s).offset \in Nat
           /\ Segment(s).file \in Nat /\ Segment(s).size \in Nat
           /\ SegmentPages(Segment(s)) \in Nat /\ SegmentRoom(s) \in Nat /\ Segment(s).size <= SegmentRoom(s)
<1>1. Segment(s) \in Segments
  BY MachineIs DEF Segment
<1>2. /\ Segment(s).page \in Nat /\ Segment(s).offset \in Nat
      /\ Segment(s).file \in Nat /\ Segment(s).size \in Nat
  BY <1>1 DEF Segments
<1>. QED BY <1>1, <1>2, PagesAre DEF SegmentPages, SegmentRoom

LEMMA LoadedIs ==
    ASSUME KernelType, NEW s \in DOMAIN loaded
    PROVE  /\ s \in DOMAIN kernel.segments /\ loaded[s] \in Nat
           /\ SegmentWords(s) = Words(loaded[s], SegmentRoom(s))
           /\ \A i \in Words(0, SegmentRoom(s)) : i \in Nat /\ i < SegmentRoom(s) /\ loaded[s] + i \in SegmentWords(s)
           /\ \A a \in SegmentWords(s) : a - loaded[s] \in Words(0, SegmentRoom(s)) /\ a = loaded[s] + (a - loaded[s])
<1>1. s \in DOMAIN kernel.segments /\ loaded[s] \in Nat
  <2>1. /\ loaded \in Seq(Nat) /\ Len(loaded) <= Len(kernel.segments)
        /\ kernel.segments \in Seq(Segments)
    BY MachineIs DEF KernelType
  <2>. QED BY <2>1
<1>2. SegmentWords(s) = Words(loaded[s], SegmentRoom(s))
  BY DEF SegmentWords, PagesOf, SegmentRoom
<1>3. SegmentRoom(s) \in Nat
  BY <1>1, SegmentIs
<1>. QED BY <1>1, <1>2, <1>3, InWords

LEMMA ModuleIs ==
    ASSUME KernelType, NEW n \in DOMAIN kernel.modules
    PROVE  /\ kernel.modules[n].words \in Nat /\ ModuleRoom(n) \in Nat
           /\ kernel.modules[n].words <= ModuleRoom(n) /\ PageCount(kernel.modules[n].words) \in Nat
<1>1. kernel.modules[n] \in ModuleFiles
  BY MachineIs
<1>2. kernel.modules[n].words \in Nat
  BY <1>1 DEF ModuleFiles
<1>. QED BY <1>2, PagesAre DEF ModuleRoom

LEMMA ModuleAt ==
    ASSUME KernelType, NEW n \in DOMAIN modules
    PROVE  /\ n \in DOMAIN kernel.modules /\ modules[n] \in Nat
           /\ ModuleWords(n) = Words(modules[n], ModuleRoom(n))
           /\ \A i \in Words(0, kernel.modules[n].words) : i \in Nat /\ modules[n] + i \in ModuleWords(n)
<1>1. n \in DOMAIN kernel.modules /\ modules[n] \in Nat
  <2>1. /\ modules \in Seq(Nat) /\ Len(modules) <= Len(kernel.modules)
        /\ kernel.modules \in Seq(ModuleFiles)
    BY MachineIs DEF KernelType
  <2>. QED BY <2>1
<1>2. ModuleWords(n) = Words(modules[n], ModuleRoom(n))
  BY DEF ModuleWords, PagesOf, ModuleRoom
<1>. QED BY <1>1, <1>2, ModuleIs, InWords

LEMMA KernelInit ==
    ASSUME LimineInit
    PROVE  KernelInv
<1>1. KernelType
  <2>1. /\ firmware \in LimineMachines /\ kernel \in Kernels /\ Clear
        /\ memory = [a \in Words(0, firmware.top) |-> Junk]
        /\ free = Words(0, firmware.top) \ firmware.used /\ outcome = "open"
        /\ loaded = <<>> /\ modules = <<>> /\ root = None /\ identity = 0 /\ hhdm = 0
        /\ mapped = [s \in DOMAIN kernel.segments |-> 0]
    BY DEF LimineInit, PowerOn
  <2>2. OthersUntouched
    BY <2>1 DEF OthersUntouched
  <2>3. kernel \in [words : Seq(STRING), segments : Seq(Segments), modules : Seq([name : STRING, words : Nat])]
    BY <2>1, KernelAssumption
  <2>4. MinGigabytes \in Nat /\ firmware.top \in Nat /\ PageWords \in Nat \ {0}
    BY <2>1, KernelAssumption, SizeAssumption
  <2>5. Len(kernel.segments) \in Nat /\ Len(kernel.modules) \in Nat
    BY <2>3
  <2>6. HhdmGigabytes \in Nat
    <3>1. GigabytePages * PageWords \in Nat \ {0}
      <4>1. PageWords * PageWords \in Nat \ {0}
        BY <2>4, QuotientTwice
      <4>. QED BY <2>4, <4>1, QuotientTwice DEF GigabytePages
    <3>2. PICK k : k = GigabytePages * PageWords
      OBVIOUS
    <3>3. (firmware.top + k - 1) \div k \in Nat
      BY <2>4, <3>1, <3>2
    <3>4. HhdmGigabytes = Larger((firmware.top + k - 1) \div k, MinGigabytes)
      BY <3>2, Zenon DEF HhdmGigabytes, Gigabytes
    <3>. QED BY <2>4, <3>3, <3>4 DEF Larger
  <2>7. ASSUME NEW s \in DOMAIN mapped PROVE mapped[s] \in 0 .. SegmentPages(Segment(s))
    <3>1. kernel.segments[s] \in Segments
      BY <2>1, <2>3
    <3>2. Segment(s).size \in Nat
      BY <3>1 DEF Segments, Segment
    <3>3. SegmentPages(Segment(s)) \in Nat
      BY <3>2, PagesAre DEF SegmentPages
    <3>. QED BY <2>1, <3>3
  <2>. QED BY <2>1, <2>2, <2>4, <2>5, <2>6, <2>7 DEF KernelType
<1>2. /\ loaded = <<>> /\ modules = <<>> /\ root = None /\ identity = 0 /\ hhdm = 0
      /\ mapped = [s \in DOMAIN kernel.segments |-> 0] /\ outcome = "open"
  BY DEF LimineInit, PowerOn
<1>3. Ordered
  BY <1>2 DEF Ordered
<1>4. Claims /\ ModulesThere /\ SegmentsRaw /\ TablesInv
  BY <1>2 DEF Claims, ModulesThere, SegmentsRaw, TablesInv
<1>. QED BY <1>1, <1>2, <1>3, <1>4 DEF KernelInv

-----------------------------------------------------------------------------
(***************************************************************************)
(* Loading segments and modules.                                           *)
(***************************************************************************)
\* Pages are taken from what is free, and nothing else is written.
Takes(ws) ==
    /\ ws \subseteq free /\ free' = free \ ws
    /\ DOMAIN memory' = DOMAIN memory
    /\ \A a \in DOMAIN memory : a \notin ws => memory'[a] = memory[a]
    /\ firmware' = firmware /\ kernel' = kernel

LEMMA TakesKeeps ==
    ASSUME KernelType, NEW CONSTANT ws, Takes(ws)
    PROVE  /\ (DOMAIN memory = Words(0, firmware.top))' /\ (free \subseteq Words(0, firmware.top))'
           /\ (free \cap firmware.used = {})' /\ OthersUntouched'
           /\ ws \subseteq DOMAIN memory' /\ ws \cap free' = {} /\ ws \cap firmware'.used = {}
           /\ \A vs : vs \subseteq DOMAIN memory /\ vs \cap free = {} /\ vs \cap firmware.used = {} =>
                /\ vs \subseteq DOMAIN memory' /\ vs \cap free' = {} /\ vs \cap firmware'.used = {}
                /\ vs \cap ws = {} /\ \A a \in vs : memory'[a] = memory[a]
<1>1. OthersUntouched'
  BY DEF KernelType, Takes, OthersUntouched
<1>. QED BY <1>1 DEF KernelType, Takes

\* Segments and modules there already stay where and what they are.
LEMMA SegmentsStay ==
    ASSUME KernelType, kernel' = kernel, NEW s \in DOMAIN loaded, s \in DOMAIN loaded', loaded'[s] = loaded[s]
    PROVE  /\ SegmentWords(s)' = SegmentWords(s) /\ SegmentRoom(s)' = SegmentRoom(s)
           /\ \A i : Raw(s, i)' = Raw(s, i)
BY DEF SegmentWords, SegmentRoom, Raw, Segment

LEMMA ModulesStay ==
    ASSUME KernelType, kernel' = kernel, NEW n \in DOMAIN modules, n \in DOMAIN modules', modules'[n] = modules[n]
    PROVE  ModuleWords(n)' = ModuleWords(n)
BY DEF ModuleWords

LEMMA PlaceIs ==
    ASSUME KernelType, NEW n \in Nat, NEW limit, NEW a, a \in Places(free, n, limit)
    PROVE  a \in Nat /\ PagesOf(a, n) = Words(a, n * PageWords) /\ PagesOf(a, n) \subseteq free
<1>1. a \in free /\ free \subseteq Words(0, firmware.top) /\ firmware.top \in Nat
  BY MachineIs DEF Places, KernelType
<1>2. a \in Nat
  BY <1>1, InWords
<1>. QED BY <1>2 DEF Places, PagesOf

HasFilled(m, a, n, s, m2) ==
    /\ DOMAIN m2 = DOMAIN m
    /\ \A x \in DOMAIN m : x \notin Words(a, n) => m2[x] = m[x]
    /\ \A i \in Words(0, n) : a + i \in DOMAIN m =>
         m2[a + i] = IF i < s.file THEN FileWord("kernel", s.offset + i) ELSE Zero

\* What Fill leaves.
LEMMA Filled ==
    ASSUME NEW m, NEW a \in Nat, NEW s, NEW n \in Nat, n = PageCount(s.size) * PageWords,
           s.file \in Nat, s.offset \in Nat, s.file <= n, NEW m2, m2 = Fill(m, a, s)
    PROVE  HasFilled(m, a, n, s, m2)
<1>. PICK f, o : f = s.file /\ o = s.offset
  OBVIOUS
<1>1. m2 = [x \in DOMAIN m |->
              IF x \in Words(a, f) THEN FileWord("kernel", o + (x - a))
              ELSE IF x \in Words(a, n) THEN Zero ELSE m[x]]
  BY DEF Fill, Copied, Zeroed
<1>2. \A x : x \in Words(a, f) => x \in Words(a, n)
  BY InWords
<1>3. ASSUME NEW i \in Words(0, n), a + i \in DOMAIN m
      PROVE  m2[a + i] = IF i < s.file THEN FileWord("kernel", s.offset + i) ELSE Zero
  <2>1. i \in Nat /\ i < n /\ (a + i) - a = i
    BY InWords
  <2>2. a + i \in Words(a, n) /\ (a + i \in Words(a, f) <=> i < f)
    BY <2>1, InWords
  <2>. QED BY <1>1, <1>3, <2>1, <2>2
<1>4. DOMAIN m2 = DOMAIN m /\ \A x \in DOMAIN m : x \notin Words(a, n) => m2[x] = m[x]
  BY <1>1, <1>2
<1>. QED BY <1>3, <1>4 DEF HasFilled

LEMMA LoadSegmentStep ==
    ASSUME KernelInv, LoadSegment
    PROVE  KernelInv'
<1>1. KernelType /\ Ordered /\ Claims /\ outcome = "open" /\ PageWords \in Nat \ {0}
  BY SizeAssumption DEF KernelInv, LoadSegment
<1>2. PICK s : s = Len(loaded) + 1
  OBVIOUS
<1>3. /\ s \in DOMAIN kernel.segments /\ s \notin DOMAIN loaded /\ loaded \in Seq(Nat)
      /\ Len(loaded) < Len(kernel.segments)
  BY <1>1, <1>2, MachineIs DEF KernelType, LoadSegment
<1>4. root = None /\ modules = <<>>
  BY <1>1, <1>3 DEF Ordered, AllLoaded
<1>5. PICK a \in Places(free, PageCount(Segment(s).size), BelowFourGiB) :
        /\ memory' = Fill(memory, a, Segment(s))
        /\ free' = free \ PagesOf(a, PageCount(Segment(s).size))
        /\ loaded' = Append(loaded, a)
  BY <1>2 DEF LoadSegment
<1>6. /\ UNCHANGED <<firmware, outcome, kernel, modules, root, identity, hhdm, mapped>>
      /\ \A i \in DOMAIN kernel.segments : Loadable(Segment(i))
  BY DEF LoadSegment
<1>7. PICK ws : ws = PagesOf(a, PageCount(Segment(s).size))
  OBVIOUS
<1>8. a \in Nat /\ ws = Words(a, SegmentRoom(s)) /\ ws \subseteq free
  BY <1>1, <1>3, <1>5, <1>7, SegmentIs, PlaceIs DEF SegmentPages, SegmentRoom
<1>9. /\ DOMAIN memory' = DOMAIN memory
      /\ \A x \in DOMAIN memory : x \notin ws => memory'[x] = memory[x]
      /\ \A i \in Words(0, SegmentRoom(s)) : a + i \in DOMAIN memory => memory'[a + i] = Raw(s, i)
  <2>1. /\ Segment(s).file \in Nat /\ Segment(s).offset \in Nat /\ SegmentRoom(s) \in Nat
        /\ Segment(s).size <= SegmentRoom(s) /\ Segment(s).size \in Nat
    BY <1>1, <1>3, SegmentIs
  <2>2. Segment(s).file <= Segment(s).size
    BY <1>3, <1>6 DEF Loadable
  <2>3. Segment(s).file <= SegmentRoom(s) /\ SegmentRoom(s) = PageCount(Segment(s).size) * PageWords
    BY <2>1, <2>2 DEF SegmentRoom, SegmentPages
  <2>4. HasFilled(memory, a, SegmentRoom(s), Segment(s), memory')
    BY <1>5, <1>8, <2>1, <2>3, Filled
  <2>. QED BY <1>8, <2>4 DEF Raw, HasFilled
<1>10. Takes(ws)
  BY <1>5, <1>6, <1>7, <1>8, <1>9 DEF Takes
<1>11. /\ DOMAIN loaded' = DOMAIN loaded \cup {s} /\ loaded'[s] = a
       /\ \A t \in DOMAIN loaded : loaded'[t] = loaded[t]
       /\ Len(loaded') = s /\ loaded' \in Seq(Nat) /\ loaded' # <<>>
  BY <1>2, <1>3, <1>5, <1>8
<1>12. /\ (DOMAIN memory = Words(0, firmware.top))' /\ (free \subseteq Words(0, firmware.top))'
       /\ (free \cap firmware.used = {})' /\ OthersUntouched'
       /\ ws \subseteq DOMAIN memory' /\ ws \cap free' = {} /\ ws \cap firmware'.used = {}
       /\ \A vs : vs \subseteq DOMAIN memory /\ vs \cap free = {} /\ vs \cap firmware.used = {} =>
            /\ vs \subseteq DOMAIN memory' /\ vs \cap free' = {} /\ vs \cap firmware'.used = {}
            /\ vs \cap ws = {} /\ \A x \in vs : memory'[x] = memory[x]
  BY <1>1, <1>10, TakesKeeps
<1>13. KernelType'
  <2>1. Clear' /\ HhdmGigabytes' = HhdmGigabytes
        /\ \A t : SegmentPages(Segment(t))' = SegmentPages(Segment(t))
    BY <1>1, <1>6 DEF KernelType, Clear, HhdmGigabytes, Segment
  <2>2. Len(loaded') <= Len(kernel.segments)
    BY <1>3, <1>11
  <2>. QED BY <1>1, <1>6, <1>11, <1>12, <2>1, <2>2 DEF KernelType
<1>14. Ordered'
  <2>1. \A i \in DOMAIN kernel.segments : Loadable(Segment(i))'
    BY <1>6 DEF Loadable, Length, Segment
  <2>. QED BY <1>1, <1>4, <1>6, <2>1 DEF Ordered
<1>15. SegmentWords(s)' = ws /\ SegmentRoom(s)' = SegmentRoom(s) /\ \A i : Raw(s, i)' = Raw(s, i)
  BY <1>6, <1>7, <1>11 DEF SegmentWords, SegmentRoom, Raw, Segment, SegmentPages
<1>16. Claims'
  <2>1. \A t \in DOMAIN loaded : SegmentWords(t)' = SegmentWords(t) /\ Held(SegmentWords(t))
    BY <1>1, <1>6, <1>11, SegmentsStay DEF Claims
  <2>2. ASSUME NEW t \in DOMAIN loaded' PROVE Held(SegmentWords(t))'
    <3>1. CASE t = s
      BY <1>12, <1>15, <3>1 DEF Held
    <3>2. CASE t # s
      <4>1. PICK vs : vs = SegmentWords(t)
        OBVIOUS
      <4>2. SegmentWords(t)' = vs /\ Held(vs)
        BY <1>11, <2>1, <3>2, <4>1
      <4>3. vs \subseteq DOMAIN memory' /\ vs \cap free' = {} /\ vs \cap firmware'.used = {}
        BY <1>12, <4>2 DEF Held
      <4>. QED BY <4>2, <4>3 DEF Held
    <3>. QED BY <3>1, <3>2
  <2>3. ASSUME NEW t \in DOMAIN loaded', NEW u \in DOMAIN loaded', t # u
        PROVE  SegmentWords(t)' \cap SegmentWords(u)' = {}
    <3>1. \A v \in DOMAIN loaded : SegmentWords(v) \cap ws = {}
      BY <1>12, <2>1 DEF Held
    <3>2. CASE t # s /\ u # s
      BY <1>1, <1>11, <2>1, <2>3, <3>2 DEF Claims
    <3>3. CASE t = s
      BY <1>11, <1>15, <2>1, <2>3, <3>1, <3>3
    <3>4. CASE u = s
      BY <1>11, <1>15, <2>1, <2>3, <3>1, <3>4
    <3>. QED BY <3>2, <3>3, <3>4
  <2>4. DOMAIN modules' = {}
    BY <1>4, <1>6
  <2>. QED BY <2>2, <2>3, <2>4 DEF Claims
<1>17. SegmentsRaw'
  <2>1. SegmentsRaw
    BY <1>1, <1>4 DEF KernelInv
  <2>. SUFFICES ASSUME NEW t \in DOMAIN loaded', NEW i \in Words(0, SegmentRoom(t))'
                PROVE  memory'[loaded'[t] + i] = Raw(t, i)'
    BY DEF SegmentsRaw
  <2>2. CASE t = s
    <3>1. i \in Words(0, SegmentRoom(s))
      BY <1>15, <2>2 DEF Words
    <3>2. SegmentRoom(s) \in Nat
      BY <1>1, <1>3, SegmentIs
    <3>3. a + i \in DOMAIN memory
      BY <1>8, <1>9, <1>12, <3>1, <3>2, InWords
    <3>. QED BY <1>9, <1>11, <1>15, <2>2, <3>1, <3>3
  <2>3. CASE t # s
    <3>1. t \in DOMAIN loaded /\ loaded'[t] = loaded[t]
      BY <1>11, <2>3
    <3>2. SegmentRoom(t)' = SegmentRoom(t) /\ Raw(t, i)' = Raw(t, i)
      BY <1>1, <1>6, <1>11, <3>1, SegmentsStay
    <3>3. i \in Words(0, SegmentRoom(t))
      BY <3>2 DEF Words
    <3>4. memory[loaded[t] + i] = Raw(t, i) /\ loaded[t] + i \in SegmentWords(t)
      BY <1>1, <2>1, <3>1, <3>3, LoadedIs DEF SegmentsRaw
    <3>5. memory'[loaded[t] + i] = memory[loaded[t] + i]
      BY <1>1, <1>12, <3>1, <3>4 DEF Claims, Held
    <3>. QED BY <3>1, <3>2, <3>4, <3>5
  <2>. QED BY <2>2, <2>3
<1>18. ModulesThere' /\ TablesInv' /\ root' = None
  BY <1>4, <1>6 DEF ModulesThere, TablesInv
<1>. QED BY <1>13, <1>14, <1>16, <1>17, <1>18 DEF KernelInv

HasCopied(m, a, file, w, n, m2) ==
    /\ DOMAIN m2 = DOMAIN m
    /\ \A x \in DOMAIN m : x \notin Words(a, n) => m2[x] = m[x]
    /\ \A i \in Words(0, w) : a + i \in DOMAIN m => m2[a + i] = FileWord(file, i)

LEMMA CopiedIs ==
    ASSUME NEW m, NEW a \in Nat, NEW file, NEW w \in Nat, NEW n \in Nat, w <= n,
           NEW m2, m2 = Copied(m, a, file, 0, w)
    PROVE  HasCopied(m, a, file, w, n, m2)
<1>1. m2 = [x \in DOMAIN m |-> IF x \in Words(a, w) THEN FileWord(file, 0 + (x - a)) ELSE m[x]]
  BY DEF Copied
<1>2. \A x : x \in Words(a, w) => x \in Words(a, n)
  BY InWords
<1>3. ASSUME NEW i \in Words(0, w), a + i \in DOMAIN m
      PROVE  m2[a + i] = FileWord(file, i)
  <2>1. i \in Nat /\ i < w /\ 0 + ((a + i) - a) = i
    BY InWords
  <2>2. a + i \in Words(a, w)
    BY <2>1, InWords
  <2>. QED BY <1>1, <1>3, <2>1, <2>2
<1>4. DOMAIN m2 = DOMAIN m /\ \A x \in DOMAIN m : x \notin Words(a, n) => m2[x] = m[x]
  BY <1>1, <1>2
<1>. QED BY <1>3, <1>4 DEF HasCopied

LEMMA LoadModuleStep ==
    ASSUME KernelInv, LoadModule
    PROVE  KernelInv'
<1>1. KernelType /\ Ordered /\ Claims /\ outcome = "open" /\ PageWords \in Nat \ {0} /\ AllLoaded
  BY SizeAssumption DEF KernelInv, LoadModule
<1>2. PICK n, w, name : /\ n = Len(modules) + 1 /\ w = kernel.modules[n].words
                        /\ name = kernel.modules[n].name
  OBVIOUS
<1>3. /\ n \in DOMAIN kernel.modules /\ n \notin DOMAIN modules /\ modules \in Seq(Nat)
      /\ Len(modules) < Len(kernel.modules)
  BY <1>1, <1>2, MachineIs DEF KernelType, LoadModule
<1>4. root = None
  BY <1>1, <1>3 DEF Ordered
<1>5. PICK a \in Places(free, PageCount(w), BelowFourGiB) :
        /\ memory' = Copied(memory, a, name, 0, w)
        /\ free' = free \ PagesOf(a, PageCount(w))
        /\ modules' = Append(modules, a)
  BY <1>2 DEF LoadModule
<1>6. UNCHANGED <<firmware, outcome, kernel, loaded, root, identity, hhdm, mapped>>
  BY DEF LoadModule
<1>7. PICK ws : ws = PagesOf(a, PageCount(w))
  OBVIOUS
<1>8. /\ a \in Nat /\ ws = Words(a, ModuleRoom(n)) /\ ws \subseteq free
      /\ w \in Nat /\ ModuleRoom(n) \in Nat /\ w <= ModuleRoom(n)
  <2>1. w \in Nat /\ PageCount(w) \in Nat /\ ModuleRoom(n) = PageCount(w) * PageWords
        /\ ModuleRoom(n) \in Nat /\ w <= ModuleRoom(n)
    BY <1>1, <1>2, <1>3, ModuleIs DEF ModuleRoom
  <2>. QED BY <1>1, <1>5, <1>7, <2>1, PlaceIs
<1>9. HasCopied(memory, a, name, w, ModuleRoom(n), memory')
  BY <1>5, <1>8, CopiedIs
<1>10. Takes(ws)
  BY <1>5, <1>6, <1>7, <1>8, <1>9 DEF Takes, HasCopied
<1>11. /\ DOMAIN modules' = DOMAIN modules \cup {n} /\ modules'[n] = a
       /\ \A t \in DOMAIN modules : modules'[t] = modules[t]
       /\ Len(modules') = n /\ modules' \in Seq(Nat)
  BY <1>2, <1>3, <1>5, <1>8
<1>12. /\ (DOMAIN memory = Words(0, firmware.top))' /\ (free \subseteq Words(0, firmware.top))'
       /\ (free \cap firmware.used = {})' /\ OthersUntouched'
       /\ ws \subseteq DOMAIN memory' /\ ws \cap free' = {} /\ ws \cap firmware'.used = {}
       /\ \A vs : vs \subseteq DOMAIN memory /\ vs \cap free = {} /\ vs \cap firmware.used = {} =>
            /\ vs \subseteq DOMAIN memory' /\ vs \cap free' = {} /\ vs \cap firmware'.used = {}
            /\ vs \cap ws = {} /\ \A x \in vs : memory'[x] = memory[x]
  BY <1>1, <1>10, TakesKeeps
<1>13. KernelType'
  <2>1. Clear' /\ HhdmGigabytes' = HhdmGigabytes
        /\ \A t : SegmentPages(Segment(t))' = SegmentPages(Segment(t))
    BY <1>1, <1>6 DEF KernelType, Clear, HhdmGigabytes, Segment
  <2>2. Len(modules') <= Len(kernel.modules)
    BY <1>2, <1>3, <1>11
  <2>. QED BY <1>1, <1>6, <1>11, <1>12, <2>1, <2>2 DEF KernelType
<1>14. Ordered'
  <2>1. \A i \in DOMAIN kernel.segments : Loadable(Segment(i))' = Loadable(Segment(i))
    BY <1>6 DEF Loadable, Length, Segment
  <2>2. AllLoaded'
    BY <1>1, <1>6 DEF AllLoaded
  <2>. QED BY <1>1, <1>4, <1>6, <2>1, <2>2 DEF Ordered
<1>15. ModuleWords(n)' = ws
  BY <1>2, <1>6, <1>7, <1>11 DEF ModuleWords
<1>16. Claims'
  <2>1. /\ \A t \in DOMAIN loaded : SegmentWords(t)' = SegmentWords(t) /\ Held(SegmentWords(t))
        /\ \A t \in DOMAIN modules : ModuleWords(t)' = ModuleWords(t) /\ Held(ModuleWords(t))
    BY <1>1, <1>6, <1>11, SegmentsStay, ModulesStay DEF Claims
  <2>2. ASSUME NEW vs, Held(vs) PROVE Held(vs)' /\ vs \cap ws = {}
    BY <1>12, <2>2 DEF Held
  <2>3. ASSUME NEW t \in DOMAIN loaded' PROVE Held(SegmentWords(t))'
    <3>1. PICK vs : vs = SegmentWords(t)
      OBVIOUS
    <3>2. SegmentWords(t)' = vs /\ Held(vs)
      BY <1>6, <2>1, <3>1
    <3>3. vs \subseteq DOMAIN memory' /\ vs \cap free' = {} /\ vs \cap firmware'.used = {}
      BY <1>12, <3>2 DEF Held
    <3>. QED BY <3>2, <3>3 DEF Held
  <2>4. ASSUME NEW t \in DOMAIN modules' PROVE Held(ModuleWords(t))'
    <3>1. CASE t = n
      BY <1>12, <1>15, <3>1 DEF Held
    <3>2. CASE t # n
      <4>1. PICK vs : vs = ModuleWords(t)
        OBVIOUS
      <4>2. ModuleWords(t)' = vs /\ Held(vs)
        BY <1>11, <2>1, <3>2, <4>1
      <4>3. vs \subseteq DOMAIN memory' /\ vs \cap free' = {} /\ vs \cap firmware'.used = {}
        BY <1>12, <4>2 DEF Held
      <4>. QED BY <4>2, <4>3 DEF Held
    <3>. QED BY <3>1, <3>2
  <2>5. ASSUME NEW t \in DOMAIN loaded', NEW u \in DOMAIN loaded', t # u
        PROVE  SegmentWords(t)' \cap SegmentWords(u)' = {}
    BY <1>1, <1>6, <2>1, <2>5 DEF Claims
  <2>6. ASSUME NEW t \in DOMAIN modules', NEW u \in DOMAIN modules', t # u
        PROVE  ModuleWords(t)' \cap ModuleWords(u)' = {}
    <3>1. \A v \in DOMAIN modules : ModuleWords(v) \cap ws = {}
      BY <1>12, <2>1 DEF Held
    <3>2. CASE t # n /\ u # n
      BY <1>1, <1>11, <2>1, <2>6, <3>2 DEF Claims
    <3>3. CASE t = n
      BY <1>11, <1>15, <2>1, <2>6, <3>1, <3>3
    <3>4. CASE u = n
      BY <1>11, <1>15, <2>1, <2>6, <3>1, <3>4
    <3>. QED BY <3>2, <3>3, <3>4
  <2>7. ASSUME NEW t \in DOMAIN loaded', NEW u \in DOMAIN modules'
        PROVE  SegmentWords(t)' \cap ModuleWords(u)' = {}
    <3>1. SegmentWords(t)' = SegmentWords(t) /\ SegmentWords(t) \cap ws = {}
      BY <1>6, <1>12, <2>1 DEF Held
    <3>2. CASE u = n
      BY <1>15, <3>1, <3>2
    <3>3. CASE u # n
      BY <1>1, <1>6, <1>11, <2>1, <3>1, <3>3 DEF Claims
    <3>. QED BY <3>2, <3>3
  <2>. QED BY <2>3, <2>4, <2>5, <2>6, <2>7 DEF Claims
<1>17. ModulesThere'
  <2>1. ModulesThere
    BY <1>1 DEF KernelInv
  <2>. SUFFICES ASSUME NEW t \in DOMAIN modules', NEW i \in Words(0, kernel.modules[t].words)
                PROVE  memory'[modules'[t] + i] = FileWord(kernel.modules[t].name, i)
    BY <1>6 DEF ModulesThere
  <2>2. CASE t = n
    <3>1. i \in Words(0, w)
      BY <1>2, <2>2
    <3>2. a + i \in DOMAIN memory
      <4>1. i \in Nat /\ i < w
        BY <1>8, <3>1, InWords
      <4>2. a + i \in ws
        BY <1>8, <4>1, InWords
      <4>. QED BY <1>9, <1>12, <4>2 DEF HasCopied
    <3>. QED BY <1>2, <1>9, <1>11, <2>2, <3>1, <3>2 DEF HasCopied
  <2>3. CASE t # n
    <3>1. t \in DOMAIN modules /\ modules'[t] = modules[t]
      BY <1>11, <2>3
    <3>2. memory[modules[t] + i] = FileWord(kernel.modules[t].name, i) /\ modules[t] + i \in ModuleWords(t)
      BY <1>1, <2>1, <3>1, ModuleAt DEF ModulesThere
    <3>3. memory'[modules[t] + i] = memory[modules[t] + i]
      BY <1>1, <1>12, <3>1, <3>2 DEF Claims, Held
    <3>. QED BY <3>1, <3>2, <3>3
  <2>. QED BY <2>2, <2>3
<1>18. SegmentsRaw'
  <2>1. SegmentsRaw
    BY <1>1, <1>4 DEF KernelInv
  <2>. SUFFICES ASSUME NEW t \in DOMAIN loaded', NEW i \in Words(0, SegmentRoom(t))'
                PROVE  memory'[loaded'[t] + i] = Raw(t, i)'
    BY DEF SegmentsRaw
  <2>2. t \in DOMAIN loaded /\ loaded'[t] = loaded[t]
    BY <1>6
  <2>3. SegmentRoom(t)' = SegmentRoom(t) /\ Raw(t, i)' = Raw(t, i)
    BY <1>1, <1>6, <2>2, SegmentsStay
  <2>4. i \in Words(0, SegmentRoom(t))
    BY <2>3 DEF Words
  <2>5. memory[loaded[t] + i] = Raw(t, i) /\ loaded[t] + i \in SegmentWords(t)
    BY <1>1, <2>1, <2>2, <2>4, LoadedIs DEF SegmentsRaw
  <2>6. memory'[loaded[t] + i] = memory[loaded[t] + i]
    BY <1>1, <1>12, <2>2, <2>5 DEF Claims, Held
  <2>. QED BY <2>2, <2>3, <2>5, <2>6
<1>19. TablesInv' /\ root' = None
  BY <1>4, <1>6 DEF TablesInv
<1>. QED BY <1>13, <1>14, <1>16, <1>17, <1>18, <1>19 DEF KernelInv

LEMMA NothingMoves ==
    ASSUME KernelType, Claims, UNCHANGED <<firmware, memory, free, limine>>
    PROVE  KernelType' /\ Claims'
<1>1. UNCHANGED <<firmware, memory, free, kernel, loaded, modules, root, identity, hhdm, mapped>>
  BY DEF limine
<1>2. /\ Clear' = Clear /\ HhdmGigabytes' = HhdmGigabytes /\ OthersUntouched' = OthersUntouched
      /\ \A t : /\ SegmentPages(Segment(t))' = SegmentPages(Segment(t))
                /\ SegmentWords(t)' = SegmentWords(t) /\ ModuleWords(t)' = ModuleWords(t)
  BY <1>1 DEF Clear, HhdmGigabytes, OthersUntouched, Segment, SegmentWords, ModuleWords
<1>3. KernelType'
  BY <1>1, <1>2 DEF KernelType
<1>4. Claims'
  BY <1>1, <1>2 DEF Claims, Held
<1>. QED BY <1>3, <1>4

LEMMA RefuseKernelStep ==
    ASSUME KernelInv, RefuseSegments \/ RefuseModule \/ RefuseRequest
    PROVE  KernelInv'
<1>1. outcome' = "error" /\ UNCHANGED <<firmware, memory, free, limine>>
  BY DEF RefuseSegments, RefuseModule, RefuseRequest, Fail
<1>2. KernelType' /\ Claims'
  BY <1>1, NothingMoves DEF KernelInv
<1>3. Ordered'
  <2>1. UNCHANGED <<kernel, loaded, modules, root, identity, hhdm, mapped, firmware>>
    BY <1>1 DEF limine
  <2>2. /\ HhdmGigabytes' = HhdmGigabytes /\ AllLoaded' = AllLoaded
        /\ \A i \in DOMAIN kernel.segments : Loadable(Segment(i))' = Loadable(Segment(i))
    BY <2>1 DEF HhdmGigabytes, AllLoaded, Loadable, Length, Segment
  <2>. QED BY <1>1, <2>1, <2>2 DEF KernelInv, Ordered
<1>. QED BY <1>1, <1>2, <1>3 DEF KernelInv

-----------------------------------------------------------------------------
(***************************************************************************)
(* Building the tables.                                                    *)
(***************************************************************************)
\* Tables as they are built are those there are after the step.
Settled ==
    /\ firmware' = firmware /\ kernel' = kernel /\ loaded' = loaded /\ modules' = modules
    /\ root' = root

LEMMA TreeThen ==
    ASSUME Settled, NEW CONSTANT mem, NEW CONSTANT fr, NEW CONSTANT L, mem = memory', fr = free',
           Tree(mem, fr, L)
    PROVE  Tree(memory, free, L)'
<1>1. Taken' = Taken
  BY DEF Settled, Taken, SegmentWords, ModuleWords, Segment
<1>2. \A x : InWindow(x)' <=> InWindow(x)
  BY DEF Settled, InWindow, HhdmGigabytes
<1>3. ASSUME NEW CONSTANT l PROVE Directory(l)' <=> Directory(l)
  BY <1>2 DEF Directory
<1>4. ASSUME NEW t \in DOMAIN L PROVE Table(memory, free, L, t)'
  <2>1. Table(mem, fr, L, t)
    BY DEF Tree
  <2>2. Directory(L[t])' <=> Directory(L[t])
    BY <1>3
  <2>. QED BY <1>1, <2>1, <2>2 DEF Table
<1>5. \A t \in DOMAIN L : Table(memory, free, L, t)'
  BY <1>4
<1>. QED BY <1>1, <1>5 DEF Tree, Settled

LEMMA PathsThen ==
    ASSUME Settled, NEW CONSTANT mem, mem = memory', NEW CONSTANT L, NEW CONSTANT p
    PROVE  /\ Rooted(L) => Rooted(L)'
           /\ \A g : Window(mem, p, g) => Window(memory, p, g)'
           /\ \A w : Leaf(mem, p, w) => Leaf(memory, p, w)'
BY DEF Settled, Rooted, Window, Leaf, Way1, Way2, Way3

\* Only new tables are written, on pages that were free.
Spares ==
    /\ Settled /\ DOMAIN memory' = DOMAIN memory /\ free' \subseteq free
    /\ \A a \in DOMAIN memory : a \in free' \cup Taken => memory'[a] = memory[a]

LEMMA SparesKeeps ==
    ASSUME KernelType, Claims, Spares
    PROVE  /\ Claims' /\ OthersUntouched' /\ Clear' /\ HhdmGigabytes' = HhdmGigabytes
           /\ (DOMAIN memory = Words(0, firmware.top))' /\ (free \subseteq Words(0, firmware.top))'
           /\ (free \cap firmware.used = {})'
           /\ \A t : SegmentPages(Segment(t))' = SegmentPages(Segment(t))
           /\ ModulesThere => ModulesThere'
           /\ Linked' = Linked /\ (SegmentsMeant => SegmentsMeant')
<1>1. /\ Clear' = Clear /\ HhdmGigabytes' = HhdmGigabytes
      /\ \A t : /\ SegmentPages(Segment(t))' = SegmentPages(Segment(t))
                /\ SegmentWords(t)' = SegmentWords(t) /\ ModuleWords(t)' = ModuleWords(t)
                /\ SegmentRoom(t)' = SegmentRoom(t)
  BY DEF Spares, Settled, Clear, HhdmGigabytes, Segment, SegmentWords, ModuleWords, SegmentRoom
<1>2. firmware.used \subseteq Taken
  BY DEF Taken
<1>3. \A t \in DOMAIN loaded : SegmentWords(t) \subseteq Taken
  BY DEF Taken
<1>4. \A n \in DOMAIN modules : ModuleWords(n) \subseteq Taken
  BY DEF Taken
<1>5. OthersUntouched'
  BY <1>2 DEF KernelType, OthersUntouched, Spares, Settled
<1>6. Claims'
  BY <1>1 DEF Claims, Held, Spares, Settled
<1>7. ASSUME ModulesThere PROVE ModulesThere'
  <2>. SUFFICES ASSUME NEW n \in DOMAIN modules, NEW i \in Words(0, kernel.modules[n].words)
                PROVE  memory'[modules[n] + i] = FileWord(kernel.modules[n].name, i)
    BY DEF ModulesThere, Spares, Settled
  <2>1. modules[n] + i \in ModuleWords(n) /\ memory[modules[n] + i] = FileWord(kernel.modules[n].name, i)
    BY <1>7, ModuleAt DEF ModulesThere
  <2>2. modules[n] + i \in Taken /\ modules[n] + i \in DOMAIN memory
    BY <1>4, <2>1 DEF Claims, Held
  <2>. QED BY <2>1, <2>2 DEF Spares
<1>8. Linked' = Linked
  BY <1>1 DEF Linked, Spares, Settled, Segment, Answers, Word, Length, Response
<1>9. ASSUME SegmentsMeant PROVE SegmentsMeant'
  <2>. SUFFICES ASSUME NEW s \in DOMAIN loaded, NEW i \in Words(0, SegmentRoom(s))'
                PROVE  memory'[loaded[s] + i] = Meant(s, i)'
    BY DEF SegmentsMeant, Spares, Settled
  <2>1. i \in Words(0, SegmentRoom(s)) /\ Meant(s, i)' = Meant(s, i)
    <3>1. i \in Words(0, SegmentRoom(s))
      BY <1>1 DEF Words
    <3>2. Meant(s, i)' = Meant(s, i)
      BY DEF Meant, Segment, Word, Length, Response, Spares, Settled
    <3>. QED BY <3>1, <3>2
  <2>2. loaded[s] + i \in SegmentWords(s) /\ memory[loaded[s] + i] = Meant(s, i)
    BY <1>9, <2>1, LoadedIs DEF SegmentsMeant
  <2>3. loaded[s] + i \in Taken /\ loaded[s] + i \in DOMAIN memory
    BY <1>3, <2>2 DEF Claims, Held
  <2>. QED BY <2>1, <2>2, <2>3 DEF Spares
<1>10. /\ (DOMAIN memory = Words(0, firmware.top))' /\ (free \subseteq Words(0, firmware.top))'
       /\ (free \cap firmware.used = {})' /\ Clear'
  BY <1>1 DEF KernelType, Spares, Settled
<1>. QED BY <1>1, <1>5, <1>6, <1>7, <1>8, <1>9, <1>10

LEMMA GigabyteIs ==
    ASSUME NEW n \in Nat, NEW i \in 0 .. GigabytePages - 1, GigabytePages \in Nat \ {0}
    PROVE  Gigabyte(GigabytePages * n + i) = n
BY Divides, Zenon DEF Gigabyte

LEMMA GigabyteHas ==
    ASSUME NEW p \in Nat, GigabytePages \in Nat \ {0}
    PROVE  /\ Gigabyte(p) \in Nat
           /\ \E i \in 0 .. GigabytePages - 1 : p = GigabytePages * Gigabyte(p) + i
<1>1. Quotient(p, GigabytePages) = Gigabyte(p)
  BY DEF Quotient, Gigabyte
<1>. QED BY <1>1, QuotientIs

\* Where the windows are.
LEMMA Addresses ==
    ASSUME KernelType
    PROVE  /\ HigherGigabyte \in Nat /\ HigherHalf = GigabytePages * HigherGigabyte
           /\ MinGigabytes <= HigherGigabyte /\ VirtualPages \in Nat
           /\ HigherHalf + HhdmGigabytes * GigabytePages <= VirtualPages
           /\ \A g \in Nat : g < MinGigabytes =>
                /\ g * GigabytePages \in Nat /\ g * GigabytePages < VirtualPages
                /\ Gigabyte(g * GigabytePages) = g /\ InWindow(g)
           /\ \A g \in Nat : g < HhdmGigabytes =>
                /\ HigherHalf + g * GigabytePages \in Nat
                /\ HigherHalf + g * GigabytePages < VirtualPages
                /\ Gigabyte(HigherHalf + g * GigabytePages) = HigherGigabyte + g
                /\ InWindow(HigherGigabyte + g)
<1>1. PICK k, h : k = GigabytePages /\ h = HigherGigabyte
  OBVIOUS
<1>2. k \in Nat \ {0} /\ HigherHalf \in Nat /\ MinGigabytes \in Nat /\ HhdmGigabytes \in Nat
  BY <1>1, MachineIs, KernelAssumption
<1>3. HigherHalf % GigabytePages = 0 /\ MinGigabytes * k <= HigherHalf
      /\ HigherHalf + HhdmGigabytes * k <= VirtualPages
  BY <1>1, AddressAssumption DEF KernelType, HhdmGigabytes
<1>4. h \in Nat /\ HigherHalf = k * h
  <2>1. PICK r \in 0 .. k - 1 : /\ Quotient(HigherHalf, k) \in Nat /\ r = HigherHalf % k
                               /\ HigherHalf = (k * Quotient(HigherHalf, k)) + r
    BY <1>2, QuotientIs
  <2>2. r = 0
    BY <1>1, <1>3, <2>1, Zenon
  <2>3. Quotient(HigherHalf, k) = h
    BY <1>1, Zenon DEF Quotient, HigherGigabyte
  <2>. QED BY <1>2, <2>1, <2>2, <2>3
<1>5. MinGigabytes <= h
  <2>. SUFFICES ASSUME h < MinGigabytes PROVE FALSE
    BY <1>2, <1>4
  <2>1. k * (h + 1) <= k * MinGigabytes /\ MinGigabytes * k = k * MinGigabytes /\ k * (h + 1) = k * h + k
    BY <1>2, <1>4, ProductMonotone
  <2>2. k * h \in Nat
    BY <1>2, <1>4
  <2>. QED BY <1>2, <1>3, <1>4, <2>1, <2>2
<1>6. VirtualPages \in Nat
  BY SizeAssumption DEF VirtualPages
<1>7. \A g \in Nat : g * k = k * g /\ k * g \in Nat /\ k * g < k * g + k
  BY <1>2
<1>8. \A g, n \in Nat : g < n => k * g + k <= k * n
  <2>. SUFFICES ASSUME NEW g \in Nat, NEW n \in Nat, g < n PROVE k * g + k <= k * n
    OBVIOUS
  <2>1. k * (g + 1) <= k * n
    BY <1>2, ProductMonotone
  <2>2. k * (g + 1) = k * g + k
    BY <1>2
  <2>. QED BY <2>1, <2>2
<1>9. ASSUME NEW g \in Nat, g < MinGigabytes
      PROVE  g * k \in Nat /\ g * k < VirtualPages /\ Gigabyte(g * k) = g /\ InWindow(g)
  <2>1. g * k < MinGigabytes * k
    BY <1>2, <1>7, <1>8, <1>9
  <2>2. g * k < VirtualPages
    BY <1>2, <1>3, <1>6, <1>7, <2>1
  <2>3. Gigabyte(k * g + 0) = g
    BY <1>1, <1>2, GigabyteIs
  <2>4. g * k = k * g + 0
    BY <1>7
  <2>. QED BY <1>7, <1>9, <2>2, <2>3, <2>4 DEF InWindow
<1>10. ASSUME NEW g \in Nat, g < HhdmGigabytes
       PROVE  /\ HigherHalf + g * k \in Nat /\ HigherHalf + g * k < VirtualPages
              /\ Gigabyte(HigherHalf + g * k) = h + g /\ InWindow(h + g)
  <2>1. g * k < HhdmGigabytes * k
    BY <1>2, <1>7, <1>8, <1>10
  <2>2. HigherHalf + g * k \in Nat /\ HigherHalf + g * k < VirtualPages
    BY <1>2, <1>3, <1>6, <1>7, <2>1
  <2>3. Gigabyte(k * (h + g) + 0) = h + g
    BY <1>1, <1>2, <1>4, GigabyteIs
  <2>4. HigherHalf + g * k = k * (h + g) + 0
    BY <1>2, <1>4, <1>7
  <2>5. InWindow(h + g)
    BY <1>1, <1>2, <1>4, <1>10 DEF InWindow
  <2>. QED BY <2>2, <2>3, <2>4, <2>5
<1>. QED BY <1>1, <1>3, <1>4, <1>5, <1>6, <1>9, <1>10

\* A segment's pages are outside of the windows.
LEMMA SegmentPage ==
    ASSUME KernelType, NEW s \in DOMAIN kernel.segments, Segment(s).page >= HigherHalf,
           NEW k \in Nat, k < SegmentPages(Segment(s))
    PROVE  /\ Segment(s).page + k \in Nat /\ Segment(s).page + k < VirtualPages
           /\ ~InWindow(Gigabyte(Segment(s).page + k))
<1>1. PICK p : p = Segment(s).page + k
  OBVIOUS
<1>2. Segment(s).page \in Nat /\ p \in Nat /\ SegmentPages(Segment(s)) \in Nat
  BY <1>1, SegmentIs
<1>3. Segment(s).page + SegmentPages(Segment(s)) <= VirtualPages /\ VirtualPages \in Nat
  BY AddressAssumption, Addresses DEF KernelType, Segment, SegmentPages
<1>4. Segment(s).page >= HigherHalf + HhdmGigabytes * GigabytePages
  BY DEF KernelType, Clear
<1>5. PICK c, h, n : c = GigabytePages /\ h = HigherGigabyte /\ n = HhdmGigabytes
  OBVIOUS
<1>6. c \in Nat \ {0} /\ h \in Nat /\ n \in Nat /\ HigherHalf = c * h /\ MinGigabytes <= h /\ MinGigabytes \in Nat
  BY <1>5, MachineIs, Addresses
<1>7. c * (h + n) <= p
  <2>1. n * c = c * n /\ c * (h + n) = c * h + c * n /\ c * h \in Nat /\ c * n \in Nat
    BY <1>6
  <2>. QED BY <1>1, <1>2, <1>4, <1>5, <1>6, <2>1
<1>8. PICK g : g = Gigabyte(p)
  OBVIOUS
<1>9. g \in Nat /\ \E i \in 0 .. c - 1 : p = c * g + i
  BY <1>2, <1>5, <1>6, <1>8, GigabyteHas
<1>10. ~(g < h + n)
  <2>. SUFFICES ASSUME g < h + n PROVE FALSE
    OBVIOUS
  <2>1. c * (g + 1) <= c * (h + n)
    BY <1>6, <1>9, ProductMonotone
  <2>2. c * (g + 1) = c * g + c /\ c * g \in Nat /\ c * (h + n) \in Nat
    BY <1>6, <1>9
  <2>. QED BY <1>2, <1>6, <1>7, <1>9, <2>1, <2>2
<1>11. ~InWindow(g)
  BY <1>5, <1>6, <1>9, <1>10 DEF InWindow
<1>. QED BY <1>1, <1>2, <1>3, <1>8, <1>11

LEMMA BuiltInv ==
    ASSUME KernelInv, Spares, outcome = "open", root # None, outcome' \in {"open", "error"},
           identity' \in 0 .. MinGigabytes, hhdm' \in 0 .. HhdmGigabytes, DOMAIN mapped' = DOMAIN mapped,
           \A s \in DOMAIN mapped : mapped'[s] \in 0 .. SegmentPages(Segment(s)),
           hhdm' > 0 => identity' = MinGigabytes,
           \A s \in DOMAIN mapped : mapped'[s] > 0 => identity' = MinGigabytes /\ hhdm' = HhdmGigabytes,
           outcome' = "open" => TablesInv'
    PROVE  KernelInv'
<1>1. KernelType /\ Ordered /\ Claims /\ Settled
  BY DEF KernelInv, Spares
<1>2. /\ Claims' /\ OthersUntouched' /\ Clear' /\ HhdmGigabytes' = HhdmGigabytes
      /\ (DOMAIN memory = Words(0, firmware.top))' /\ (free \subseteq Words(0, firmware.top))'
      /\ (free \cap firmware.used = {})'
      /\ \A t : SegmentPages(Segment(t))' = SegmentPages(Segment(t))
      /\ ModulesThere => ModulesThere'
      /\ Linked' = Linked /\ (SegmentsMeant => SegmentsMeant')
  BY <1>1, SparesKeeps
<1>3. KernelType'
  BY <1>1, <1>2 DEF KernelType, Settled
<1>4. Ordered'
  <2>1. /\ AllLoaded' = AllLoaded
        /\ \A i \in DOMAIN kernel.segments : Loadable(Segment(i))' = Loadable(Segment(i))
    BY <1>1 DEF Settled, AllLoaded, Loadable, Length, Segment
  <2>. QED BY <1>1, <1>2, <2>1 DEF Ordered, Settled
<1>5. /\ ModulesThere' /\ root' # None /\ (Linked' => SegmentsMeant')
  BY <1>1, <1>2 DEF KernelInv, Settled
<1>. QED BY <1>2, <1>3, <1>4, <1>5 DEF KernelInv

LEMMA BuildIs ==
    ASSUME Claims, NEW CONSTANT m2, NEW CONSTANT f2, NEW CONSTANT t, NEW CONSTANT L, NEW CONSTANT K,
           Extends(memory, free, L, m2, f2, K), NEW new, new = [memory |-> m2, free |-> f2, table |-> t],
           Build(new)
    PROVE  /\ Spares /\ Settled /\ memory' = m2 /\ free' = f2
           /\ Tree(memory, free, K)' /\ Rooted(K)'
           /\ outcome' = (IF t = None THEN "error" ELSE "open")
<1>1. memory' = m2 /\ free' = f2 /\ Settled /\ outcome' = IF t = None THEN "error" ELSE "open"
  BY DEF Build, Settled
<1>2. Spares
  BY <1>1 DEF Spares, Extends, Grows
<1>3. Tree(memory, free, K)'
  BY <1>1, TreeThen DEF Extends
<1>4. Rooted(K)'
  BY <1>1, PathsThen DEF Extends
<1>. QED BY <1>1, <1>2, <1>3, <1>4

\* The same tables on the way to a page are those of its gigabyte.
LEMMA SameGigabyte ==
    ASSUME NEW p \in Nat, p < VirtualPages, NEW q \in Nat, q < VirtualPages
    PROVE  Gigabyte(p) = Gigabyte(q) <=> Quarter(p) = Quarter(q) /\ index_pdpt(p) = index_pdpt(q)
<1>1. PICK k, a, b, i, j : /\ k = PageWords /\ a = Quarter(p) /\ b = Quarter(q)
                           /\ i = index_pdpt(p) /\ j = index_pdpt(q)
  OBVIOUS
<1>2. /\ k \in Nat \ {0} /\ a \in Nat /\ b \in Nat /\ i \in 0 .. k - 1 /\ j \in 0 .. k - 1
      /\ Gigabyte(p) = k * a + i /\ Gigabyte(q) = k * b + j
  BY <1>1, IndexesAre, SizeAssumption DEF Indices
<1>3. k * a + i = k * b + j => a = b /\ i = j
  <2>. SUFFICES ASSUME k * a + i = k * b + j PROVE a = b /\ i = j
    OBVIOUS
  <2>1. ~(a < b) /\ ~(b < a)
    BY <1>2, QuotientLess
  <2>2. a = b
    BY <1>2, <2>1
  <2>. QED BY <1>2, <2>2
<1>. QED BY <1>1, <1>2, <1>3

LEMMA MapIdentityStep ==
    ASSUME KernelInv, MapIdentity
    PROVE  KernelInv'
<1>1. KernelType /\ Ordered /\ Claims /\ outcome = "open" /\ root # None /\ identity < MinGigabytes
  BY DEF KernelInv, MapIdentity
<1>2. identity \in Nat /\ MinGigabytes \in Nat /\ HhdmGigabytes \in Nat /\ MinGigabytes <= HhdmGigabytes
  BY <1>1, MachineIs DEF KernelType
<1>3. hhdm = 0 /\ \A s \in DOMAIN mapped : mapped[s] = 0
  <2>1. hhdm \in 0 .. HhdmGigabytes /\ \A s \in DOMAIN mapped : mapped[s] \in 0 .. SegmentPages(Segment(s))
    BY <1>1 DEF KernelType
  <2>2. \A s \in DOMAIN mapped : SegmentPages(Segment(s)) \in Nat
    BY <1>1, SegmentIs DEF KernelType
  <2>. QED BY <1>1, <1>2, <2>1, <2>2 DEF Ordered
<1>4. identity' = identity + 1 /\ hhdm' = hhdm /\ mapped' = mapped
  BY DEF MapIdentity
<1>5. PICK L : /\ Tree(memory, free, L) /\ Rooted(L) /\ Windows(memory)
  BY <1>1 DEF KernelInv, TablesInv
<1>6. PICK g, p : g = identity /\ p = g * GigabytePages
  OBVIOUS
<1>7. p \in Nat /\ p < VirtualPages /\ Gigabyte(p) = g /\ InWindow(Gigabyte(p))
  BY <1>1, <1>2, <1>6, Addresses
<1>8. PICK r : r = map_gigabyte(Tables, root, 0, g)
  OBVIOUS
<1>9. MapsGigabyte(memory, free, L, p, g, r)
  <2>1. p = 0 + g * GigabytePages
    BY <1>6, <1>7
  <2>. QED BY <1>5, <1>7, <1>8, <2>1, MapGigabyteTables DEF Tables
<1>10. PICK m2, f2, t, K :
         /\ r = [memory |-> m2, free |-> f2, table |-> t] /\ Extends(memory, free, L, m2, f2, K)
         /\ t # None => /\ Window(m2, p, g)
                        /\ KeepsBut(memory, L, m2, Label(3, Quarter(p)), index_pdpt(p))
  BY <1>9 DEF MapsGigabyte
<1>11. /\ Spares /\ Settled /\ memory' = m2 /\ free' = f2 /\ Tree(memory, free, K)' /\ Rooted(K)'
       /\ outcome' = IF t = None THEN "error" ELSE "open"
  <2>1. Build(r)
    BY <1>6, <1>8 DEF MapIdentity
  <2>. QED BY <1>1, <1>10, <2>1, BuildIs
<1>12. ASSUME t # None PROVE TablesInv'
  <2>1. ASSUME NEW n \in Nat, n < identity' PROVE Window(m2, n * GigabytePages, n)
    <3>1. CASE n = g
      BY <1>6, <1>10, <1>12, <3>1
    <3>2. CASE n # g
      <4>1. n < identity /\ n < MinGigabytes
        BY <1>1, <1>2, <1>4, <1>6, <2>1, <3>2
      <4>2. PICK q : q = n * GigabytePages
        OBVIOUS
      <4>3. q \in Nat /\ q < VirtualPages /\ Gigabyte(q) = n
        BY <1>1, <4>1, <4>2, Addresses
      <4>4. ~(Quarter(p) = Quarter(q) /\ index_pdpt(p) = index_pdpt(q))
        BY <1>7, <3>2, <4>3, SameGigabyte
      <4>5. Window(memory, q, n)
        BY <1>5, <4>1, <4>2 DEF Windows
      <4>6. Window(m2, q, n)
        BY <1>5, <1>10, <1>12, <4>3, <4>4, <4>5, WindowStays
      <4>. QED BY <4>2, <4>6
    <3>. QED BY <3>1, <3>2
  <2>2. \A n \in Nat : n < identity' => Window(memory, n * GigabytePages, n)'
    BY <1>11, <2>1, PathsThen
  <2>3. Windows(memory)' /\ Leaves(memory)'
    BY <1>2, <1>3, <1>4, <2>2 DEF Windows, Leaves
  <2>. QED BY <1>11, <2>3 DEF TablesInv
<1>13. identity' \in 0 .. MinGigabytes /\ hhdm' \in 0 .. HhdmGigabytes
  BY <1>1, <1>2, <1>3, <1>4
<1>14. \A s \in DOMAIN mapped : mapped'[s] \in 0 .. SegmentPages(Segment(s)) /\ ~(mapped'[s] > 0)
  BY <1>1, <1>3, <1>4 DEF KernelType
<1>15. outcome' \in {"open", "error"} /\ (outcome' = "open" => TablesInv')
  BY <1>11, <1>12
<1>. QED BY <1>1, <1>3, <1>4, <1>11, <1>13, <1>14, <1>15, BuiltInv

LEMMA MapHhdmStep ==
    ASSUME KernelInv, MapHhdm
    PROVE  KernelInv'
<1>1. /\ KernelType /\ Ordered /\ Claims /\ outcome = "open" /\ root # None
      /\ identity = MinGigabytes /\ hhdm < HhdmGigabytes
  BY DEF KernelInv, MapHhdm
<1>2. /\ MinGigabytes \in Nat /\ HhdmGigabytes \in Nat /\ hhdm \in Nat
      /\ HigherGigabyte \in Nat /\ MinGigabytes <= HigherGigabyte
  BY <1>1, MachineIs, Addresses DEF KernelType
<1>3. \A s \in DOMAIN mapped : mapped[s] = 0
  <2>1. \A s \in DOMAIN mapped : mapped[s] \in 0 .. SegmentPages(Segment(s))
    BY <1>1 DEF KernelType
  <2>2. \A s \in DOMAIN mapped : SegmentPages(Segment(s)) \in Nat
    BY <1>1, SegmentIs DEF KernelType
  <2>. QED BY <1>1, <1>2, <2>1, <2>2 DEF Ordered
<1>4. hhdm' = hhdm + 1 /\ identity' = identity /\ mapped' = mapped
  BY DEF MapHhdm
<1>5. PICK L : /\ Tree(memory, free, L) /\ Rooted(L) /\ Windows(memory)
  BY <1>1 DEF KernelInv, TablesInv
<1>6. PICK g, p : g = hhdm /\ p = HigherHalf + g * GigabytePages
  OBVIOUS
<1>7. p \in Nat /\ p < VirtualPages /\ Gigabyte(p) = HigherGigabyte + g /\ InWindow(Gigabyte(p))
  BY <1>1, <1>2, <1>6, Addresses
<1>8. PICK r : r = map_gigabyte(Tables, root, HigherHalf, g)
  OBVIOUS
<1>9. MapsGigabyte(memory, free, L, p, g, r)
  BY <1>5, <1>6, <1>7, <1>8, MapGigabyteTables DEF Tables
<1>10. PICK m2, f2, t, K :
         /\ r = [memory |-> m2, free |-> f2, table |-> t] /\ Extends(memory, free, L, m2, f2, K)
         /\ t # None => /\ Window(m2, p, g)
                        /\ KeepsBut(memory, L, m2, Label(3, Quarter(p)), index_pdpt(p))
  BY <1>9 DEF MapsGigabyte
<1>11. /\ Spares /\ Settled /\ memory' = m2 /\ free' = f2 /\ Tree(memory, free, K)' /\ Rooted(K)'
       /\ outcome' = IF t = None THEN "error" ELSE "open"
  <2>1. Build(r)
    BY <1>6, <1>8 DEF MapHhdm
  <2>. QED BY <1>1, <1>10, <2>1, BuildIs
<1>12. ASSUME t # None PROVE TablesInv'
  <2>1. ASSUME NEW q \in Nat, q < VirtualPages, Gigabyte(q) # Gigabyte(p), NEW n, Window(memory, q, n)
        PROVE  Window(memory, q, n)'
    <3>1. ~(Quarter(p) = Quarter(q) /\ index_pdpt(p) = index_pdpt(q))
      BY <1>7, <2>1, SameGigabyte
    <3>2. Window(m2, q, n)
      BY <1>5, <1>10, <1>12, <2>1, <3>1, WindowStays
    <3>. QED BY <1>11, <3>2, PathsThen
  <2>2. ASSUME NEW n \in Nat, n < identity' PROVE Window(memory, n * GigabytePages, n)'
    <3>1. n < identity /\ n < MinGigabytes
      BY <1>1, <1>4, <2>2
    <3>2. PICK q : q = n * GigabytePages
      OBVIOUS
    <3>3. q \in Nat /\ q < VirtualPages /\ Gigabyte(q) = n
      BY <1>1, <3>1, <3>2, Addresses
    <3>4. Gigabyte(q) # Gigabyte(p)
      BY <1>2, <1>6, <1>7, <3>1, <3>3
    <3>5. Window(memory, q, n)
      BY <1>5, <3>1, <3>2 DEF Windows
    <3>6. Window(memory, q, n)'
      BY <2>1, <3>3, <3>4, <3>5
    <3>. QED BY <3>2, <3>6
  <2>3. ASSUME NEW n \in Nat, n < hhdm' PROVE Window(memory, HigherHalf + n * GigabytePages, n)'
    <3>1. PICK q : q = HigherHalf + n * GigabytePages
      OBVIOUS
    <3>2. CASE n = g
      <4>1. Window(m2, q, n) /\ q = p
        BY <1>6, <1>10, <1>12, <3>1, <3>2
      <4>2. Window(memory, q, n)'
        BY <1>11, <4>1, PathsThen
      <4>. QED BY <3>1, <4>2
    <3>3. CASE n # g
      <4>1. n < hhdm /\ n < HhdmGigabytes
        BY <1>1, <1>2, <1>4, <1>6, <2>3, <3>3
      <4>2. q \in Nat /\ q < VirtualPages /\ Gigabyte(q) = HigherGigabyte + n
        BY <1>1, <3>1, <4>1, Addresses
      <4>3. Gigabyte(q) # Gigabyte(p)
        BY <1>2, <1>6, <1>7, <3>3, <4>2
      <4>4. Window(memory, q, n)
        BY <1>5, <3>1, <4>1 DEF Windows
      <4>5. Window(memory, q, n)'
        BY <2>1, <4>2, <4>3, <4>4
      <4>. QED BY <3>1, <4>5
    <3>. QED BY <3>2, <3>3
  <2>4. Windows(memory)' /\ Leaves(memory)'
    BY <1>3, <1>4, <2>2, <2>3 DEF Windows, Leaves
  <2>. QED BY <1>11, <2>4 DEF TablesInv
<1>13. identity' \in 0 .. MinGigabytes /\ hhdm' \in 0 .. HhdmGigabytes
  BY <1>1, <1>2, <1>4 DEF KernelType
<1>14. \A s \in DOMAIN mapped : mapped'[s] \in 0 .. SegmentPages(Segment(s)) /\ ~(mapped'[s] > 0)
  BY <1>1, <1>3, <1>4 DEF KernelType
<1>15. outcome' \in {"open", "error"} /\ (outcome' = "open" => TablesInv')
  BY <1>11, <1>12
<1>. QED BY <1>1, <1>4, <1>11, <1>13, <1>14, <1>15, BuiltInv

\* There is at least one segment, and it is in the higher half.
LEMMA AllInHigherHalf ==
    ASSUME KernelType, Ordered, root # None
    PROVE  /\ DOMAIN loaded = DOMAIN kernel.segments
           /\ \A s \in DOMAIN kernel.segments :
                Segment(s).page >= HigherHalf /\ Segment(s).file <= Segment(s).size
                /\ Segment(s).offset + Segment(s).file <= Length
<1>1. AllLoaded /\ loaded # <<>>
  BY DEF Ordered, AllLoaded
<1>2. \A s \in DOMAIN kernel.segments : Loadable(Segment(s))
  BY <1>1 DEF Ordered
<1>3. DOMAIN loaded = DOMAIN kernel.segments
  BY <1>1, MachineIs DEF AllLoaded, KernelType
<1>. QED BY <1>2, <1>3 DEF Loadable

LEMMA MapPageStep ==
    ASSUME KernelInv, MapPage
    PROVE  KernelInv'
<1>1. /\ KernelType /\ Ordered /\ Claims /\ outcome = "open" /\ root # None
      /\ hhdm = HhdmGigabytes /\ Unmapped # {}
  BY DEF KernelInv, MapPage
<1>2. identity = MinGigabytes
  BY <1>1, MachineIs DEF KernelType, Ordered
<1>3. PICK s : s = CHOOSE n \in Unmapped : \A t \in Unmapped : n <= t
  OBVIOUS
<1>4. s \in Unmapped
  <2>1. Unmapped \in SUBSET Nat
    <3>1. DOMAIN kernel.segments \in SUBSET Nat
      BY <1>1, MachineIs
    <3>. QED BY <1>1, <3>1 DEF Unmapped, KernelType
  <2>2. Least(Unmapped) \in Unmapped
    BY <1>1, <2>1, LeastExists
  <2>. QED BY <1>3, <2>2 DEF Least
<1>5. /\ s \in DOMAIN mapped /\ s \in DOMAIN kernel.segments /\ mapped[s] \in Nat
      /\ mapped[s] < SegmentPages(Segment(s)) /\ SegmentPages(Segment(s)) \in Nat
  <2>1. s \in DOMAIN mapped /\ s \in DOMAIN kernel.segments /\ mapped[s] < SegmentPages(Segment(s))
        /\ mapped[s] \in 0 .. SegmentPages(Segment(s))
    BY <1>1, <1>4 DEF Unmapped, KernelType
  <2>. QED BY <1>1, <2>1, SegmentIs
<1>6. PICK p, k : k = mapped[s] /\ p = Segment(s).page + k
  OBVIOUS
<1>7. PICK r : r = map_page(Tables, root, p, loaded[s] + k * PageWords, Segment(s))
  OBVIOUS
<1>8. /\ Build(r) /\ mapped' = [mapped EXCEPT ![s] = @ + 1]
      /\ identity' = identity /\ hhdm' = hhdm
  <2>. DEFINE c == CHOOSE n \in Unmapped : \A t \in Unmapped : n <= t
  <2>1. /\ Build(map_page(Tables, root, Segment(c).page + mapped[c],
                             loaded[c] + mapped[c] * PageWords, Segment(c)))
        /\ mapped' = [mapped EXCEPT ![c] = @ + 1]
        /\ identity' = identity /\ hhdm' = hhdm
    BY DEF MapPage
  <2>2. s = c
    BY <1>3
  <2>. HIDE DEF c
  <2>. QED BY <1>6, <1>7, <2>1, <2>2
<1>9. p \in Nat /\ p < VirtualPages /\ ~InWindow(Gigabyte(p))
  BY <1>1, <1>5, <1>6, SegmentPage, AllInHigherHalf
<1>10. PICK L : /\ Tree(memory, free, L) /\ Rooted(L) /\ Windows(memory) /\ (Linked => Leaves(memory))
  BY <1>1 DEF KernelInv, TablesInv
<1>11. MapsPage(memory, free, L, p, PageEntry(s, k), r)
  <2>1. PICK seg : seg = Segment(s)
    OBVIOUS
  <2>2. PageEntry(s, k) = Entry(loaded[s] + k * PageWords, FALSE, seg.write, seg.exec)
    BY <2>1 DEF PageEntry
  <2>3. r = map_page([memory |-> memory, free |-> free, table |-> root], root, p,
                     loaded[s] + k * PageWords, seg)
    BY <1>7, <2>1 DEF Tables
  <2>. QED BY <1>9, <1>10, <2>2, <2>3, MapPageTables
<1>12. PICK m2, f2, t, K :
         /\ r = [memory |-> m2, free |-> f2, table |-> t] /\ Extends(memory, free, L, m2, f2, K)
         /\ t # None => /\ Leaf(m2, p, PageEntry(s, k))
                        /\ KeepsBut(memory, L, m2, Label(1, Middle(p)), index_pt(p))
  BY <1>11 DEF MapsPage
<1>13. /\ Spares /\ Settled /\ memory' = m2 /\ free' = f2 /\ Tree(memory, free, K)' /\ Rooted(K)'
       /\ outcome' = IF t = None THEN "error" ELSE "open"
  BY <1>1, <1>8, <1>12, BuildIs
<1>14. DOMAIN mapped' = DOMAIN mapped /\ mapped'[s] = k + 1
       /\ \A u \in DOMAIN mapped : u # s => mapped'[u] = mapped[u]
  BY <1>5, <1>6, <1>8
<1>15. ASSUME t # None PROVE TablesInv'
  <2>1. ASSUME NEW q \in Nat, q < VirtualPages, NEW n, Window(memory, q, n)
        PROVE  Window(memory, q, n)'
    <3>1. Window(m2, q, n)
      BY <1>10, <1>12, <1>15, <2>1, WindowStays
    <3>. QED BY <1>13, <3>1, PathsThen
  <2>2. ASSUME NEW n \in Nat, n < identity' PROVE Window(memory, n * GigabytePages, n)'
    <3>1. n < identity /\ n < MinGigabytes
      BY <1>2, <1>8, <2>2
    <3>2. PICK q : q = n * GigabytePages
      OBVIOUS
    <3>3. q \in Nat /\ q < VirtualPages
      BY <1>1, <3>1, <3>2, Addresses
    <3>4. Window(memory, q, n)
      BY <1>10, <3>1, <3>2 DEF Windows
    <3>5. Window(memory, q, n)'
      BY <2>1, <3>3, <3>4
    <3>. QED BY <3>2, <3>5
  <2>3. ASSUME NEW n \in Nat, n < hhdm' PROVE Window(memory, HigherHalf + n * GigabytePages, n)'
    <3>1. n < hhdm /\ n < HhdmGigabytes
      BY <1>1, <1>8, <2>3
    <3>2. PICK q : q = HigherHalf + n * GigabytePages
      OBVIOUS
    <3>3. q \in Nat /\ q < VirtualPages
      BY <1>1, <3>1, <3>2, Addresses
    <3>4. Window(memory, q, n)
      BY <1>10, <3>1, <3>2 DEF Windows
    <3>5. Window(memory, q, n)'
      BY <2>1, <3>3, <3>4
    <3>. QED BY <3>2, <3>5
  <2>4. Windows(memory)'
    BY <2>2, <2>3 DEF Windows, Settled
  <2>5. ASSUME Linked PROVE Leaves(memory)'
    <3>. SUFFICES ASSUME NEW u \in DOMAIN mapped, NEW n \in Nat, n < mapped'[u]
                  PROVE  Leaf(memory, Segment(u).page + n, PageEntry(u, n))'
      BY <1>14 DEF Leaves
    <3>1. PICK q, w : q = Segment(u).page + n /\ w = PageEntry(u, n)
      OBVIOUS
    <3>2. (Segment(u).page + n)' = q /\ PageEntry(u, n)' = w
      BY <1>13, <3>1 DEF Settled, Segment, PageEntry
    <3>3. Leaf(m2, q, w)
      <4>1. CASE u = s /\ n = k
        BY <1>6, <1>12, <1>15, <3>1, <4>1
      <4>2. CASE ~(u = s /\ n = k)
        <5>1. n < mapped[u]
          BY <1>5, <1>6, <1>14, <4>2
        <5>2. u \in DOMAIN kernel.segments /\ mapped[u] \in 0 .. SegmentPages(Segment(u))
          BY <1>1 DEF KernelType
        <5>3. n < SegmentPages(Segment(u)) /\ SegmentPages(Segment(u)) \in Nat /\ Segment(u).page \in Nat
          BY <1>1, <5>1, <5>2, SegmentIs
        <5>4. q \in Nat /\ q < VirtualPages /\ ~InWindow(Gigabyte(q))
          BY <1>1, <3>1, <5>2, <5>3, SegmentPage, AllInHigherHalf
        <5>5. Segment(s).page \in Nat
          BY <1>1, <1>5, SegmentIs
        <5>6. q # p
          <6>1. CASE u = s
            BY <1>5, <1>6, <3>1, <4>2, <5>5, <6>1
          <6>2. CASE u # s
            <7>1. \/ Segment(s).page + SegmentPages(Segment(s)) <= Segment(u).page
                  \/ Segment(u).page + SegmentPages(Segment(u)) <= Segment(s).page
              BY <1>5, <2>5, <5>2, <6>2 DEF Linked
            <7>. QED BY <1>5, <1>6, <3>1, <5>3, <5>5, <7>1
          <6>. QED BY <6>1, <6>2
        <5>7. Leaf(memory, q, w) /\ w # Zero
          <6>1. Leaf(memory, q, w)
            BY <1>10, <2>5, <3>1, <5>1 DEF Leaves
          <6>2. w # Zero
            BY <3>1 DEF PageEntry, Entry, Zero
          <6>. QED BY <6>1, <6>2
        <5>. QED BY <1>9, <1>10, <1>12, <1>15, <5>4, <5>6, <5>7, LeafStays
      <4>. QED BY <4>1, <4>2
    <3>4. Leaf(memory, q, w)'
      BY <1>13, <3>3, PathsThen
    <3>. QED BY <3>2, <3>4
  <2>6. Linked' = Linked
    BY <1>1, <1>13, SparesKeeps
  <2>. QED BY <1>13, <2>4, <2>5, <2>6 DEF TablesInv
<1>16. \A u \in DOMAIN mapped : mapped'[u] \in 0 .. SegmentPages(Segment(u))
  <2>1. \A u \in DOMAIN mapped : mapped[u] \in 0 .. SegmentPages(Segment(u))
    BY <1>1 DEF KernelType
  <2>2. mapped'[s] \in 0 .. SegmentPages(Segment(s))
    BY <1>5, <1>6, <1>14
  <2>. QED BY <1>14, <2>1, <2>2
<1>17. outcome' \in {"open", "error"} /\ (outcome' = "open" => TablesInv')
  BY <1>13, <1>15
<1>18. identity' \in 0 .. MinGigabytes /\ hhdm' \in 0 .. HhdmGigabytes
       /\ identity' = MinGigabytes /\ hhdm' = HhdmGigabytes
  BY <1>1, <1>2, <1>8 DEF KernelType
<1>. QED BY <1>1, <1>13, <1>14, <1>16, <1>17, <1>18, BuiltInv

-----------------------------------------------------------------------------
(***************************************************************************)
(* The answers, and the steps that only end things.                        *)
(***************************************************************************)
\* Nothing but the outcome changes, and to no error.
LEMMA OutcomeStep ==
    ASSUME KernelInv, UNCHANGED <<firmware, memory, free, limine>>,
           outcome' = outcome \/
             (outcome = "open" /\ outcome' = "kernel" /\ root # None /\ hhdm = HhdmGigabytes /\ Unmapped = {})
    PROVE  KernelInv'
<1>1. KernelType /\ Ordered /\ Claims
  BY DEF KernelInv
<1>2. UNCHANGED <<firmware, memory, free, kernel, loaded, modules, root, identity, hhdm, mapped>> /\ Settled
  BY DEF limine, Settled
<1>3. KernelType' /\ Claims'
  BY <1>1, NothingMoves
<1>4. /\ HhdmGigabytes' = HhdmGigabytes /\ AllLoaded' = AllLoaded /\ Unmapped' = Unmapped
      /\ \A i \in DOMAIN kernel.segments : Loadable(Segment(i))' = Loadable(Segment(i))
  BY <1>2 DEF HhdmGigabytes, AllLoaded, Loadable, Length, Segment, Unmapped
<1>5. outcome' = "kernel" /\ outcome # "kernel" => identity = MinGigabytes
  <2>. SUFFICES ASSUME root # None, hhdm = HhdmGigabytes PROVE identity = MinGigabytes
    OBVIOUS
  <2>1. MinGigabytes \in Nat /\ HhdmGigabytes \in Nat /\ MinGigabytes <= HhdmGigabytes
        /\ identity \in 0 .. MinGigabytes
    BY <1>1, MachineIs DEF KernelType
  <2>2. hhdm > 0 => identity = MinGigabytes
    BY <1>1 DEF Ordered
  <2>. QED BY <2>1, <2>2
<1>6. Ordered'
  BY <1>1, <1>2, <1>4, <1>5 DEF Ordered
<1>7. outcome' # "error" => outcome # "error"
  OBVIOUS
<1>8. ModulesThere => ModulesThere'
  BY <1>2 DEF ModulesThere
<1>9. \A s : SegmentRoom(s)' = SegmentRoom(s) /\ \A i : Raw(s, i)' = Raw(s, i) /\ Meant(s, i)' = Meant(s, i)
  BY <1>2 DEF SegmentRoom, Raw, Meant, Segment, Word, Length, Response
<1>10. (SegmentsRaw => SegmentsRaw') /\ (SegmentsMeant => SegmentsMeant')
  BY <1>2, <1>9 DEF SegmentsRaw, SegmentsMeant
<1>11. Linked' = Linked
  BY <1>2, <1>4 DEF Linked, Segment, Answers, Word, Length, Response
<1>12. TablesInv => TablesInv'
  <2>. SUFFICES ASSUME TablesInv, root # None PROVE TablesInv'
    BY <1>2 DEF TablesInv
  <2>1. PICK L : /\ Tree(memory, free, L) /\ Rooted(L) /\ Windows(memory) /\ (Linked => Leaves(memory))
    BY DEF TablesInv
  <2>2. PICK mem, fr : mem = memory /\ fr = free
    OBVIOUS
  <2>3. mem = memory' /\ fr = free'
    BY <1>2, <2>2
  <2>4. Tree(memory, free, L)' /\ Rooted(L)'
    <3>1. Tree(mem, fr, L)
      BY <2>1, <2>2
    <3>. QED BY <1>2, <2>1, <2>3, <3>1, TreeThen, PathsThen
  <2>5. Windows(memory)'
    <3>1. \A p, g : Window(memory, p, g) => Window(memory, p, g)'
      <4>. SUFFICES ASSUME NEW CONSTANT p, NEW CONSTANT g, Window(memory, p, g)
                    PROVE  Window(memory, p, g)'
        OBVIOUS
      <4>1. Window(mem, p, g)
        BY <2>2
      <4>. QED BY <1>2, <2>3, <4>1, PathsThen
    <3>. QED BY <1>2, <2>1, <3>1 DEF Windows
  <2>6. ASSUME Linked PROVE Leaves(memory)'
    <3>1. \A p, w : Leaf(memory, p, w) => Leaf(memory, p, w)'
      <4>. SUFFICES ASSUME NEW CONSTANT p, NEW CONSTANT w, Leaf(memory, p, w)
                    PROVE  Leaf(memory, p, w)'
        OBVIOUS
      <4>1. Leaf(mem, p, w)
        BY <2>2
      <4>. QED BY <1>2, <2>3, <4>1, PathsThen
    <3>2. \A s, k : PageEntry(s, k)' = PageEntry(s, k) /\ Segment(s)' = Segment(s)
      BY <1>2 DEF PageEntry, Segment
    <3>. QED BY <1>2, <2>1, <2>6, <3>1, <3>2 DEF Leaves
  <2>. QED BY <1>11, <2>4, <2>5, <2>6 DEF TablesInv
<1>. QED BY <1>2, <1>3, <1>6, <1>7, <1>8, <1>10, <1>11, <1>12 DEF KernelInv

LEMMA AnswerIs ==
    ASSUME KernelType, NEW answer \in Answers
    PROVE  \E o \in Nat :
             /\ o < Length - 2 /\ Length \in Nat
             /\ \/ Word(o) = "base" /\ answer = [at |-> o + 1, word |-> Zero]
                \/ /\ Word(o) = "common" /\ Word(o + 1) \in Answered
                   /\ answer = [at |-> o + 2, word |-> Response(Word(o + 1))]
<1>1. Length \in Nat
  <2>1. kernel \in [words : Seq(STRING), segments : Seq(Segments), modules : Seq(ModuleFiles)]
    BY KernelAssumption DEF KernelType, ModuleFiles
  <2>. QED BY <2>1 DEF Length
<1>2. \A o : o \in Words(0, Length - 2) => o \in Nat /\ o < Length - 2
  BY <1>1, InWords
<1>. QED BY <1>1, <1>2 DEF Answers

\* A word of the file is answered once.
LEMMA OneAnswer ==
    ASSUME KernelType, NEW x \in Answers, NEW y \in Answers, x.at = y.at
    PROVE  x = y /\ x.at \in Nat
<1>1. PICK o \in Nat : \/ Word(o) = "base" /\ x = [at |-> o + 1, word |-> Zero]
                       \/ /\ Word(o) = "common" /\ Word(o + 1) \in Answered
                          /\ x = [at |-> o + 2, word |-> Response(Word(o + 1))]
  BY AnswerIs
<1>2. PICK p \in Nat : \/ Word(p) = "base" /\ y = [at |-> p + 1, word |-> Zero]
                       \/ /\ Word(p) = "common" /\ Word(p + 1) \in Answered
                          /\ y = [at |-> p + 2, word |-> Response(Word(p + 1))]
  BY AnswerIs
<1>3. "base" \notin Answered
  BY DEF Answered
<1>4. CASE Word(o) = "base" /\ x = [at |-> o + 1, word |-> Zero]
  <2>1. x.at = o + 1
    BY <1>4
  <2>2. ~(y = [at |-> p + 2, word |-> Response(Word(p + 1))] /\ Word(p + 1) \in Answered)
    <3>. SUFFICES ASSUME y = [at |-> p + 2, word |-> Response(Word(p + 1))], Word(p + 1) \in Answered
                  PROVE FALSE
      OBVIOUS
    <3>1. p + 2 = o + 1
      BY <2>1
    <3>2. p + 1 = o
      BY <3>1
    <3>. QED BY <1>3, <1>4, <3>2
  <2>3. y = [at |-> p + 1, word |-> Zero]
    BY <1>2, <2>2
  <2>4. p + 1 = o + 1
    BY <2>1, <2>3
  <2>. QED BY <1>4, <2>1, <2>3, <2>4
<1>5. CASE /\ Word(o) = "common" /\ Word(o + 1) \in Answered
           /\ x = [at |-> o + 2, word |-> Response(Word(o + 1))]
  <2>1. x.at = o + 2
    BY <1>5
  <2>2. ~(y = [at |-> p + 1, word |-> Zero] /\ Word(p) = "base")
    <3>. SUFFICES ASSUME y = [at |-> p + 1, word |-> Zero], Word(p) = "base" PROVE FALSE
      OBVIOUS
    <3>1. p + 1 = o + 2
      BY <2>1
    <3>2. p = o + 1
      BY <3>1
    <3>. QED BY <1>3, <1>5, <3>2
  <2>3. y = [at |-> p + 2, word |-> Response(Word(p + 1))]
    BY <1>2, <2>2
  <2>4. p + 2 = o + 2
    BY <2>1, <2>3
  <2>5. p = o
    BY <2>4
  <2>. QED BY <1>5, <2>1, <2>3, <2>5
<1>. QED BY <1>1, <1>4, <1>5

\* An answer is written into a segment that holds its word.
LEMMA TargetIs ==
    ASSUME KernelType, Ordered, NEW o \in Nat, Holding(o) # {}
    PROVE  \E s \in DOMAIN loaded :
             /\ s \in Holding(o) /\ Target(o) = loaded[s] + (o - Segment(s).offset)
             /\ o - Segment(s).offset \in Nat /\ o - Segment(s).offset < Segment(s).file
             /\ Segment(s).file <= SegmentRoom(s) /\ Target(o) \in SegmentWords(s)
<1>1. Holding(o) \in SUBSET Nat
  BY DEF Holding, KernelType
<1>2. PICK s : s = CHOOSE n \in Holding(o) : \A t \in Holding(o) : n <= t
  OBVIOUS
<1>3. s \in Holding(o)
  <2>1. Least(Holding(o)) \in Holding(o)
    BY <1>1, LeastExists
  <2>. QED BY <1>2, <2>1 DEF Least
<1>4. /\ s \in DOMAIN loaded /\ o >= Segment(s).offset /\ o + 1 <= Segment(s).offset + Segment(s).file
  BY <1>3 DEF Holding
<1>5. /\ s \in DOMAIN kernel.segments /\ loaded[s] \in Nat /\ SegmentWords(s) = Words(loaded[s], SegmentRoom(s))
      /\ Segment(s).offset \in Nat /\ Segment(s).file \in Nat /\ Segment(s).size \in Nat
      /\ SegmentRoom(s) \in Nat /\ Segment(s).size <= SegmentRoom(s)
  BY <1>4, LoadedIs, SegmentIs
<1>6. Segment(s).file <= Segment(s).size
  <2>1. loaded # <<>>
    BY <1>4 DEF KernelType
  <2>. QED BY <1>5, <2>1 DEF Ordered, Loadable
<1>7. Target(o) = loaded[s] + (o - Segment(s).offset)
  BY <1>2 DEF Target
<1>8. /\ o - Segment(s).offset \in Nat /\ o - Segment(s).offset < Segment(s).file
      /\ Segment(s).file <= SegmentRoom(s)
  BY <1>4, <1>5, <1>6
<1>9. Target(o) \in SegmentWords(s)
  <2>1. loaded[s] <= Target(o) /\ Target(o) < loaded[s] + SegmentRoom(s) /\ Target(o) \in Int
    BY <1>5, <1>7, <1>8
  <2>. QED BY <1>5, <2>1, InWords
<1>. QED BY <1>3, <1>4, <1>7, <1>8, <1>9

\* Memory once the requests are answered.
Responded(m) ==
    m = [a \in DOMAIN memory |->
            IF \E answer \in Answers : Target(answer.at) = a
            THEN (CHOOSE answer \in Answers : Target(answer.at) = a).word
            ELSE memory[a]]

\* In the word of a segment is the answer to the request there.
LEMMA WordAnswered ==
    ASSUME KernelType, Ordered, Claims, Linked, \A answer \in Answers : Holding(answer.at) # {},
           NEW s \in DOMAIN loaded, NEW i \in Nat, i < Segment(s).file, NEW answer \in Answers
    PROVE  Target(answer.at) = loaded[s] + i <=> answer.at = Segment(s).offset + i
<1>1. answer.at \in Nat
  BY OneAnswer
<1>2. PICK t \in DOMAIN loaded :
        /\ t \in Holding(answer.at) /\ Target(answer.at) = loaded[t] + (answer.at - Segment(t).offset)
        /\ answer.at - Segment(t).offset \in Nat /\ answer.at - Segment(t).offset < Segment(t).file
        /\ Segment(t).file <= SegmentRoom(t) /\ Target(answer.at) \in SegmentWords(t)
  BY <1>1, TargetIs
<1>3. /\ s \in DOMAIN kernel.segments /\ loaded[s] \in Nat /\ Segment(s).offset \in Nat
      /\ Segment(s).file \in Nat /\ SegmentRoom(s) \in Nat /\ SegmentWords(s) = Words(loaded[s], SegmentRoom(s))
      /\ Segment(s).size \in Nat /\ Segment(s).size <= SegmentRoom(s)
      /\ t \in DOMAIN kernel.segments /\ Segment(t).offset \in Nat /\ Segment(t).file \in Nat
      /\ loaded[t] \in Nat
  BY <1>2, LoadedIs, SegmentIs
<1>4. Segment(s).file <= Segment(s).size
  <2>1. loaded # <<>>
    BY DEF KernelType
  <2>. QED BY <1>3, <2>1 DEF Ordered, Loadable
<1>5. loaded[s] + i \in SegmentWords(s)
  <2>1. loaded[s] + i \in Int /\ loaded[s] <= loaded[s] + i /\ loaded[s] + i < loaded[s] + SegmentRoom(s)
    BY <1>3, <1>4
  <2>. QED BY <1>3, <2>1, InWords
<1>6. ASSUME Target(answer.at) = loaded[s] + i PROVE answer.at = Segment(s).offset + i
  <2>1. s = t
    BY <1>2, <1>5, <1>6 DEF Claims
  <2>2. answer.at - Segment(s).offset = i
    BY <1>1, <1>2, <1>3, <1>6, <2>1
  <2>. QED BY <1>1, <1>3, <2>2
<1>7. ASSUME answer.at = Segment(s).offset + i PROVE Target(answer.at) = loaded[s] + i
  <2>1. answer.at >= Segment(s).offset /\ answer.at < Segment(s).offset + Segment(s).file
    BY <1>3, <1>7
  <2>2. answer.at >= Segment(t).offset /\ answer.at < Segment(t).offset + Segment(t).file
    BY <1>1, <1>2, <1>3
  <2>3. s = t
    BY <1>3, <2>1, <2>2 DEF Linked
  <2>4. answer.at - Segment(s).offset = i
    BY <1>3, <1>7
  <2>. QED BY <1>2, <2>3, <2>4
<1>. QED BY <1>6, <1>7

\* What is answered where.
LEMMA MeantIs ==
    ASSUME KernelType, Ordered, NEW s \in DOMAIN loaded, NEW i \in Nat, i < Segment(s).file
    PROVE  /\ \A answer \in Answers : answer.at = Segment(s).offset + i => answer.word = Meant(s, i)
           /\ (\A answer \in Answers : answer.at # Segment(s).offset + i) => Meant(s, i) = Raw(s, i)
<1>1. /\ s \in DOMAIN kernel.segments /\ Segment(s).offset \in Nat /\ Segment(s).file \in Nat
  BY LoadedIs, SegmentIs
<1>2. PICK o, f : o = Segment(s).offset + i /\ f = Segment(s).file
  OBVIOUS
<1>3. o \in Nat /\ f \in Nat /\ i < f /\ o < Length /\ Length \in Nat
  <2>1. loaded # <<>>
    BY DEF KernelType
  <2>2. Segment(s).offset + f <= Length
    BY <1>1, <1>2, <2>1 DEF Ordered, Loadable
  <2>3. kernel \in [words : Seq(STRING), segments : Seq(Segments), modules : Seq(ModuleFiles)]
    BY KernelAssumption DEF KernelType, ModuleFiles
  <2>4. Length \in Nat
    BY <2>3 DEF Length
  <2>. QED BY <1>1, <1>2, <2>2, <2>4
<1>4. Meant(s, i) =
        IF o >= 1 /\ Word(o - 1) = "base" /\ o + 1 < Length THEN Zero
        ELSE IF o >= 2 /\ Word(o - 2) = "common" /\ Word(o - 1) \in Answered
        THEN Response(Word(o - 1))
        ELSE FileWord("kernel", o)
  BY <1>1, <1>2, <1>3 DEF Meant
<1>5. Raw(s, i) = FileWord("kernel", o)
  BY <1>2, <1>3 DEF Raw
<1>6. "base" \notin Answered
  BY DEF Answered
<1>7. ASSUME NEW answer \in Answers, answer.at = o PROVE answer.word = Meant(s, i)
  <2>1. PICK p \in Nat :
          /\ p < Length - 2
          /\ \/ Word(p) = "base" /\ answer = [at |-> p + 1, word |-> Zero]
             \/ /\ Word(p) = "common" /\ Word(p + 1) \in Answered
                /\ answer = [at |-> p + 2, word |-> Response(Word(p + 1))]
    BY AnswerIs
  <2>2. CASE Word(p) = "base" /\ answer = [at |-> p + 1, word |-> Zero]
    <3>1. o = p + 1 /\ answer.word = Zero
      BY <1>7, <2>2
    <3>2. o >= 1 /\ o - 1 = p /\ o + 1 < Length
      BY <1>3, <2>1, <3>1
    <3>. QED BY <1>4, <2>2, <3>1, <3>2
  <2>3. CASE /\ Word(p) = "common" /\ Word(p + 1) \in Answered
             /\ answer = [at |-> p + 2, word |-> Response(Word(p + 1))]
    <3>1. o = p + 2 /\ answer.word = Response(Word(p + 1))
      BY <1>7, <2>3
    <3>2. o >= 2 /\ o - 2 = p /\ o - 1 = p + 1
      BY <3>1
    <3>. QED BY <1>4, <1>6, <2>3, <3>1, <3>2
  <2>. QED BY <2>1, <2>2, <2>3
<1>8. ASSUME \A answer \in Answers : answer.at # o PROVE Meant(s, i) = Raw(s, i)
  <2>1. ~(o >= 1 /\ Word(o - 1) = "base" /\ o + 1 < Length)
    <3>. SUFFICES ASSUME o >= 1, Word(o - 1) = "base", o + 1 < Length PROVE FALSE
      OBVIOUS
    <3>1. o - 1 \in Words(0, Length - 2) /\ (o - 1) + 1 = o
      BY <1>3, InWords
    <3>2. [at |-> (o - 1) + 1, word |-> Zero] \in Answers
      BY <3>1 DEF Answers
    <3>. QED BY <1>8, <3>1, <3>2
  <2>2. ~(o >= 2 /\ Word(o - 2) = "common" /\ Word(o - 1) \in Answered)
    <3>. SUFFICES ASSUME o >= 2, Word(o - 2) = "common", Word(o - 1) \in Answered PROVE FALSE
      OBVIOUS
    <3>1. PICK p : p = o - 2
      OBVIOUS
    <3>2. p \in Words(0, Length - 2) /\ p + 3 <= Length /\ p + 2 = o /\ p + 1 = o - 1
      BY <1>3, <3>1, InWords
    <3>3. [at |-> p + 2, word |-> Response(Word(p + 1))] \in Answers
      BY <3>1, <3>2 DEF Answers
    <3>. QED BY <1>8, <3>2, <3>3
  <2>. QED BY <1>4, <1>5, <2>1, <2>2
<1>. QED BY <1>2, <1>7, <1>8

LEMMA RespondedIs ==
    ASSUME KernelType, Ordered, Claims, SegmentsRaw, \A answer \in Answers : Holding(answer.at) # {},
           NEW m, Responded(m)
    PROVE  /\ DOMAIN m = DOMAIN memory
           /\ \A a \in DOMAIN memory : (\A s \in DOMAIN loaded : a \notin SegmentWords(s)) => m[a] = memory[a]
           /\ Linked => \A s \in DOMAIN loaded : \A i \in Words(0, SegmentRoom(s)) : m[loaded[s] + i] = Meant(s, i)
<1>1. DOMAIN m = DOMAIN memory
  BY DEF Responded
<1>2. ASSUME NEW a \in DOMAIN memory PROVE
        /\ (\A answer \in Answers : Target(answer.at) # a) => m[a] = memory[a]
        /\ (\E answer \in Answers : Target(answer.at) = a) =>
             \E answer \in Answers : Target(answer.at) = a /\ m[a] = answer.word
  <2>1. PICK x : x = CHOOSE answer \in Answers : Target(answer.at) = a
    OBVIOUS
  <2>2. (\E answer \in Answers : Target(answer.at) = a) => x \in Answers /\ Target(x.at) = a
    BY <2>1
  <2>3. m[a] = IF \E answer \in Answers : Target(answer.at) = a THEN x.word ELSE memory[a]
    BY <2>1 DEF Responded
  <2>. QED BY <2>2, <2>3
<1>3. \A answer \in Answers : \E s \in DOMAIN loaded : Target(answer.at) \in SegmentWords(s)
  BY OneAnswer, TargetIs
<1>4. ASSUME Linked, NEW s \in DOMAIN loaded, NEW i \in Words(0, SegmentRoom(s))
      PROVE  m[loaded[s] + i] = Meant(s, i)
  <2>1. i \in Nat /\ loaded[s] + i \in SegmentWords(s) /\ loaded[s] + i \in DOMAIN memory
        /\ memory[loaded[s] + i] = Raw(s, i)
    BY <1>4, LoadedIs DEF Claims, Held, SegmentsRaw
  <2>2. PICK a : a = loaded[s] + i
    OBVIOUS
  <2>3. CASE i < Segment(s).file
    <3>1. \A answer \in Answers : Target(answer.at) = a <=> answer.at = Segment(s).offset + i
      BY <1>4, <2>1, <2>2, <2>3, WordAnswered
    <3>2. /\ \A answer \in Answers : answer.at = Segment(s).offset + i => answer.word = Meant(s, i)
          /\ (\A answer \in Answers : answer.at # Segment(s).offset + i) => Meant(s, i) = Raw(s, i)
      BY <2>1, <2>3, MeantIs
    <3>3. CASE \E answer \in Answers : Target(answer.at) = a
      BY <1>2, <2>1, <2>2, <3>1, <3>2, <3>3
    <3>4. CASE \A answer \in Answers : Target(answer.at) # a
      BY <1>2, <2>1, <2>2, <3>1, <3>2, <3>4
    <3>. QED BY <3>3, <3>4
  <2>4. CASE ~(i < Segment(s).file)
    <3>1. Segment(s).file \in Nat /\ Segment(s).offset \in Nat /\ loaded[s] \in Nat
      BY LoadedIs, SegmentIs
    <3>2. ASSUME NEW answer \in Answers, Target(answer.at) = a PROVE FALSE
      <4>1. PICK n : n = answer.at
        OBVIOUS
      <4>2. n \in Nat /\ Holding(n) # {}
        BY <4>1, OneAnswer
      <4>3. PICK t \in DOMAIN loaded :
              /\ Target(n) = loaded[t] + (n - Segment(t).offset)
              /\ n - Segment(t).offset \in Nat /\ n - Segment(t).offset < Segment(t).file
              /\ Target(n) \in SegmentWords(t)
        BY <4>2, TargetIs
      <4>4. s = t
        BY <2>1, <2>2, <3>2, <4>1, <4>3 DEF Claims
      <4>5. n - Segment(s).offset = i
        BY <2>1, <2>2, <3>1, <3>2, <4>1, <4>2, <4>3, <4>4
      <4>. QED BY <2>4, <4>3, <4>4, <4>5
    <3>3. m[a] = memory[a]
      BY <1>2, <2>1, <2>2, <3>2
    <3>4. Raw(s, i) = Zero /\ Meant(s, i) = Zero
      BY <2>1, <2>4, <3>1 DEF Raw, Meant
    <3>. QED BY <2>1, <2>2, <3>3, <3>4
  <2>. QED BY <2>3, <2>4
<1>. QED BY <1>1, <1>2, <1>3, <1>4

LEMMA NoTaken ==
    ASSUME KernelType, Claims
    PROVE  free \cap Taken = {}
BY DEF KernelType, Claims, Held, Taken

LEMMA AnswerStep ==
    ASSUME KernelInv, Answer
    PROVE  KernelInv'
<1>1. /\ KernelType /\ Ordered /\ Claims /\ outcome = "open" /\ root = None
      /\ AllLoaded /\ Len(modules) = Len(kernel.modules) /\ ModulesThere /\ SegmentsRaw
      /\ \A answer \in Answers : Holding(answer.at) # {}
  BY DEF KernelInv, Answer, Prepared
<1>2. PICK m : Responded(m)
  BY DEF Responded
<1>3. PICK new : new = allocate_table([memory |-> m, free |-> free, table |-> None])
  OBVIOUS
<1>4. /\ memory' = new.memory /\ free' = new.free /\ root' = new.table
      /\ outcome' = IF new.table = None THEN "error" ELSE "open"
  BY <1>2, <1>3 DEF Answer, Responded
<1>5. UNCHANGED <<firmware, kernel, loaded, modules, identity, hhdm, mapped>>
  BY DEF Answer
<1>6. /\ DOMAIN m = DOMAIN memory
      /\ \A a \in DOMAIN memory : (\A s \in DOMAIN loaded : a \notin SegmentWords(s)) => m[a] = memory[a]
      /\ Linked => \A s \in DOMAIN loaded : \A i \in Words(0, SegmentRoom(s)) : m[loaded[s] + i] = Meant(s, i)
  BY <1>1, <1>2, RespondedIs
<1>7. Allocates(m, free, new)
  BY <1>1, <1>3, MachineIs, AllocateTable DEF KernelType
<1>8. identity = 0 /\ hhdm = 0 /\ \A s \in DOMAIN mapped : mapped[s] = 0
  <2>1. identity \in Nat /\ hhdm \in Nat /\ \A s \in DOMAIN mapped : mapped[s] \in Nat
    BY <1>1, MachineIs, SegmentIs DEF KernelType
  <2>. QED BY <1>1, <2>1 DEF Ordered
\* What holds whether there was a page for the root or not.
<1>9. /\ DOMAIN memory' = DOMAIN memory /\ free' \subseteq free
      /\ \A a \in DOMAIN memory : a \in free' \cup Taken => memory'[a] = m[a]
  <2>1. CASE new = [memory |-> m, free |-> free, table |-> None]
    BY <1>4, <1>6, <2>1
  <2>2. ASSUME NEW a \in Nat, Aligned(a), \A i \in Indices : a + i \in free,
               new = [memory |-> Zeroed(m, a, PageWords), free |-> free \ Words(a, PageWords), table |-> a]
        PROVE  /\ DOMAIN memory' = DOMAIN memory /\ free' \subseteq free
               /\ \A x \in DOMAIN memory : x \in free' \cup Taken => memory'[x] = m[x]
    <3>1. memory' = Zeroed(m, a, PageWords) /\ free' = free \ Words(a, PageWords)
      BY <1>4, <2>2
    <3>2. Words(a, PageWords) \subseteq free
      BY <2>2, InPage
    <3>3. Words(a, PageWords) \cap Taken = {}
      BY <1>1, <3>2, NoTaken
    <3>. QED BY <1>6, <3>1, <3>3 DEF Zeroed
  <2>. QED BY <1>7, <2>1, <2>2 DEF Allocates
<1>10. /\ Clear' = Clear /\ HhdmGigabytes' = HhdmGigabytes /\ Taken' = Taken /\ AllLoaded' = AllLoaded
       /\ \A t : /\ SegmentPages(Segment(t))' = SegmentPages(Segment(t))
                 /\ SegmentWords(t)' = SegmentWords(t) /\ ModuleWords(t)' = ModuleWords(t)
                 /\ SegmentRoom(t)' = SegmentRoom(t) /\ Loadable(Segment(t))' = Loadable(Segment(t))
                 /\ \A i : Meant(t, i)' = Meant(t, i)
  BY <1>5 DEF Clear, HhdmGigabytes, Segment, SegmentWords, ModuleWords, SegmentRoom, Loadable, Length, Meant,
              Word, Response, Taken, AllLoaded
<1>11. /\ firmware.used \subseteq Taken
       /\ \A t \in DOMAIN loaded : SegmentWords(t) \subseteq Taken
       /\ \A n \in DOMAIN modules : ModuleWords(n) \subseteq Taken
  BY DEF Taken
<1>12. OthersUntouched'
  <2>. SUFFICES ASSUME NEW a \in DOMAIN memory, a \in free' \cup firmware.used PROVE memory'[a] = Junk
    BY <1>5, <1>9 DEF OthersUntouched
  <2>1. \A s \in DOMAIN loaded : a \notin SegmentWords(s)
    BY <1>1, <1>9 DEF Claims, Held
  <2>2. memory[a] = Junk
    BY <1>1, <1>9 DEF KernelType, OthersUntouched
  <2>. QED BY <1>6, <1>9, <1>11, <2>1, <2>2
<1>13. Claims'
  BY <1>1, <1>5, <1>9, <1>10 DEF Claims, Held
<1>14. root' \in Nat \cup {None} /\ (root' = None <=> outcome' = "error") /\ outcome' \in {"open", "error"}
  BY <1>4, <1>7 DEF Allocates, None
<1>15. KernelType'
  <2>1. (DOMAIN memory = Words(0, firmware.top))' /\ (free \subseteq Words(0, firmware.top))'
        /\ (free \cap firmware.used = {})'
    BY <1>1, <1>5, <1>9 DEF KernelType
  <2>. QED BY <1>1, <1>5, <1>10, <1>12, <1>14, <2>1 DEF KernelType
<1>16. Ordered'
  BY <1>1, <1>5, <1>8, <1>10, <1>14 DEF Ordered
<1>17. ModulesThere'
  <2>. SUFFICES ASSUME NEW n \in DOMAIN modules, NEW i \in Words(0, kernel.modules[n].words)
                PROVE  memory'[modules[n] + i] = FileWord(kernel.modules[n].name, i)
    BY <1>5 DEF ModulesThere
  <2>1. modules[n] + i \in ModuleWords(n) /\ memory[modules[n] + i] = FileWord(kernel.modules[n].name, i)
    BY <1>1, ModuleAt DEF ModulesThere
  <2>2. modules[n] + i \in Taken /\ modules[n] + i \in DOMAIN memory
    BY <1>1, <1>11, <2>1 DEF Claims, Held
  <2>3. \A s \in DOMAIN loaded : modules[n] + i \notin SegmentWords(s)
    BY <1>1, <2>1 DEF Claims
  <2>. QED BY <1>6, <1>9, <2>1, <2>2, <2>3
<1>18. ASSUME Linked' PROVE SegmentsMeant'
  <2>1. Linked
    BY <1>5, <1>10, <1>18 DEF Linked, Segment, Answers, Word, Length, Response
  <2>. SUFFICES ASSUME NEW s \in DOMAIN loaded, NEW i \in Words(0, SegmentRoom(s))'
                PROVE  memory'[loaded[s] + i] = Meant(s, i)'
    BY <1>5 DEF SegmentsMeant
  <2>2. i \in Words(0, SegmentRoom(s)) /\ Meant(s, i)' = Meant(s, i)
    BY <1>10 DEF Words
  <2>3. loaded[s] + i \in SegmentWords(s) /\ m[loaded[s] + i] = Meant(s, i)
    BY <1>1, <1>6, <2>1, <2>2, LoadedIs
  <2>4. loaded[s] + i \in Taken /\ loaded[s] + i \in DOMAIN memory
    BY <1>1, <1>11, <2>3 DEF Claims, Held
  <2>. QED BY <1>9, <2>2, <2>3, <2>4
<1>19. ASSUME root' # None PROVE TablesInv'
  <2>1. PICK a \in Nat : /\ Aligned(a) /\ \A i \in Indices : a + i \in free
                         /\ new = [memory |-> Zeroed(m, a, PageWords),
                                   free |-> free \ Words(a, PageWords), table |-> a]
    <3>1. new.table # None
      BY <1>4, <1>19
    <3>. QED BY <1>7, <3>1 DEF Allocates
  <2>2. memory' = Zeroed(m, a, PageWords) /\ free' = free \ Words(a, PageWords) /\ root' = a
    BY <1>4, <2>1
  <2>3. PICK L : L = [x \in {a} |-> Label(4, 0)]
    OBVIOUS
  <2>4. ASSUME NEW i \in Indices
        PROVE  /\ a + i \in DOMAIN memory' /\ a + i \notin free' /\ a + i \notin Taken' /\ memory'[a + i] = Zero
    <3>1. a + i \in Words(a, PageWords) /\ a + i \in free
      BY <2>1, InPage
    <3>2. a + i \in DOMAIN m /\ a + i \notin Taken
      BY <1>1, <1>6, <3>1, NoTaken DEF KernelType
    <3>. QED BY <1>6, <1>9, <1>10, <2>2, <3>1, <3>2 DEF Zeroed
  <2>5. L[a] \in Labels /\ DOMAIN L = {a} /\ L[a] = Label(4, 0)
    BY <2>3 DEF Labels, Label
  <2>6. Table(memory, free, L, a)'
    BY <2>1, <2>4, <2>5 DEF Table
  <2>7. Tree(memory, free, L)'
    <3>1. (free \subseteq Words(0, firmware.top))' /\ (firmware.top \in Nat)' /\ (free \subseteq DOMAIN memory)'
      BY <1>1, <1>5, <1>15, MachineIs DEF KernelType
    <3>2. free' \cap Taken' = {}
      BY <1>1, <1>9, <1>10, NoTaken
    <3>. QED BY <2>5, <2>6, <3>1, <3>2 DEF Tree
  <2>8. Rooted(L)'
    BY <2>2, <2>5 DEF Rooted
  <2>9. Windows(memory)' /\ Leaves(memory)'
    BY <1>5, <1>8 DEF Windows, Leaves
  <2>. QED BY <2>7, <2>8, <2>9 DEF TablesInv
<1>. QED BY <1>13, <1>14, <1>15, <1>16, <1>17, <1>18, <1>19 DEF KernelInv

LEMMA KernelStep ==
    ASSUME KernelInv, LimineNext \/ UNCHANGED <<machine, limine>>
    PROVE  KernelInv'
<1>1. CASE LoadSegment
  BY <1>1, LoadSegmentStep
<1>2. CASE RefuseSegments \/ RefuseModule \/ RefuseRequest
  BY <1>2, RefuseKernelStep
<1>3. CASE LoadModule
  BY <1>3, LoadModuleStep
<1>4. CASE Answer
  BY <1>4, AnswerStep
<1>5. CASE MapIdentity
  BY <1>5, MapIdentityStep
<1>6. CASE MapHhdm
  BY <1>6, MapHhdmStep
<1>7. CASE MapPage
  BY <1>7, MapPageStep
<1>8. CASE Enter
  BY <1>8, OutcomeStep DEF Enter
<1>9. CASE UNCHANGED <<machine, limine>>
  BY <1>9, OutcomeStep DEF machine
<1>. QED BY <1>1, <1>2, <1>3, <1>4, <1>5, <1>6, <1>7, <1>8, <1>9 DEF LimineNext

-----------------------------------------------------------------------------
(***************************************************************************)
(* What the processor makes of the tables.                                 *)
(***************************************************************************)
SeenAt(address, write, exec) == [address |-> address, write |-> write, exec |-> exec]

Leads(word, table, huge) == Present(word) /\ EntryIn(word).to = table /\ EntryIn(word).huge = huge

LEMMA LeadsTable ==
    ASSUME NEW x
    PROVE  Leads(TableEntry(x), x, FALSE)
<1>1. TableEntry(x) # Zero /\ EntryIn(TableEntry(x)) = TableEntry(x)
      /\ TableEntry(x).to = x /\ TableEntry(x).huge = FALSE
  BY TableEntryIs
<1>2. PICK w : w = TableEntry(x)
  OBVIOUS
<1>3. Present(w) /\ EntryIn(w).to = x /\ EntryIn(w).huge = FALSE
  BY <1>1, <1>2, Zenon DEF Present
<1>. QED BY <1>2, <1>3, Zenon DEF Leads

LeadsWith(word, table, huge, write, exec) ==
    Leads(word, table, huge) /\ EntryIn(word).write = write /\ EntryIn(word).exec = exec

LEMMA LeadsEntry ==
    ASSUME NEW to, NEW huge, NEW write, NEW exec, NEW w, w = Entry(to, huge, write, exec)
    PROVE  LeadsWith(w, to, huge, write, exec)
<1>1. /\ Entry(to, huge, write, exec) # Zero
      /\ EntryIn(Entry(to, huge, write, exec)) = Entry(to, huge, write, exec)
      /\ Entry(to, huge, write, exec).to = to
      /\ Entry(to, huge, write, exec).huge = huge
      /\ Entry(to, huge, write, exec).write = write
      /\ Entry(to, huge, write, exec).exec = exec
  BY EntryIs
<1>2. w # Zero /\ EntryIn(w) = w /\ w.to = to /\ w.huge = huge /\ w.write = write /\ w.exec = exec
  BY <1>1, Zenon
<1>. QED BY <1>2, Zenon DEF Leads, LeadsWith, Present

\* The processor follows the tables to the word a page leads to.
LEMMA WalkLeaf ==
    ASSUME NEW p, NEW to, NEW write, NEW exec, Leaf(memory, p, Entry(to, FALSE, write, exec)), to \in Nat
    PROVE  SeenAt(to, write, exec) \in Walk(root, p)
<1>1. PICK w : w = Entry(to, FALSE, write, exec)
  OBVIOUS
<1>2. PICK t : Way1(memory, p, t) /\ memory[t + index_pt(p)] = w
  BY <1>1 DEF Leaf
<1>3. PICK u : Way2(memory, p, u) /\ memory[u + index_pd(p)] = TableEntry(t)
  BY <1>2 DEF Way1
<1>4. PICK v : memory[root + index_pml4(p)] = TableEntry(v) /\ memory[v + index_pdpt(p)] = TableEntry(u)
  BY <1>3 DEF Way2, Way3
<1>5. LeadsWith(w, to, FALSE, write, exec)
  BY <1>1, LeadsEntry, Zenon
<1>6. \A x : Leads(TableEntry(x), x, FALSE)
  BY LeadsTable
<1>7. Leads(memory[root + index_pml4(p)], v, FALSE) /\ Leads(memory[v + index_pdpt(p)], u, FALSE)
      /\ Leads(memory[u + index_pd(p)], t, FALSE)
  BY <1>3, <1>4, <1>6
<1>8. Walk(root, p) = {[address |-> EntryIn(w).to + 0, write |-> EntryIn(w).write, exec |-> EntryIn(w).exec]}
  BY <1>2, <1>5, <1>7 DEF Walk, Leads, LeadsWith
<1>. QED BY <1>5, <1>8 DEF SeenAt, LeadsWith, Leads

\* And in a window, to the page as far behind its beginning.
LEMMA WalkWindow ==
    ASSUME KernelType, NEW b \in Nat, NEW n \in Nat, GigabytePages * b + n < VirtualPages,
           NEW q \in Nat, q < VirtualPages, Gigabyte(q) = b + Gigabyte(n), Window(memory, q, Gigabyte(n))
    PROVE  SeenAt(n * PageWords, TRUE, TRUE) \in Walk(root, GigabytePages * b + n)
<1>1. PICK k, c, g, p : k = PageWords /\ c = GigabytePages /\ g = Gigabyte(n) /\ p = c * b + n
  OBVIOUS
<1>2. k \in Nat \ {0} /\ c \in Nat \ {0} /\ c = k * k
  BY <1>1, MachineIs DEF GigabytePages
<1>3. g \in Nat /\ \E i \in 0 .. c - 1 : n = c * g + i
  BY <1>1, <1>2, GigabyteHas
<1>4. PICK i \in 0 .. c - 1 : n = c * g + i
  BY <1>3
<1>5. p \in Nat /\ p < VirtualPages /\ p = c * (b + g) + i
  <2>1. c * (b + g) = c * b + c * g /\ c * b \in Nat
    BY <1>2, <1>3
  <2>. QED BY <1>1, <1>2, <1>3, <1>4, <2>1
<1>6. Gigabyte(p) = b + g
  BY <1>1, <1>2, <1>3, <1>5, GigabyteIs
<1>7. Quarter(p) = Quarter(q) /\ index_pdpt(p) = index_pdpt(q)
  BY <1>1, <1>5, <1>6, SameGigabyte
<1>8. index_pml4(p) = index_pml4(q)
  BY <1>5, <1>7, IndexesAre
<1>9. PICK t : Way2(memory, p, t) /\ \A j \in Indices : memory[t + j] = HugeEntry(g, j)
  <2>1. PICK t : Way2(memory, q, t) /\ \A j \in Indices : memory[t + j] = HugeEntry(g, j)
    BY <1>1 DEF Window
  <2>. QED BY <1>7, <1>8, <2>1 DEF Way2, Way3
<1>10. PICK v : memory[root + index_pml4(p)] = TableEntry(v) /\ memory[v + index_pdpt(p)] = TableEntry(t)
  BY <1>9 DEF Way2, Way3
<1>11. PICK x, y : x = index_pd(p) /\ y = index_pt(p)
  OBVIOUS
<1>12. x \in Indices /\ y \in Indices /\ p = k * (k * (b + g) + x) + y
  BY <1>1, <1>5, <1>6, <1>11, IndexesAre
<1>13. PICK to : to = (g * c + x * k) * k
  OBVIOUS
<1>14. PICK w : w = Entry(to, TRUE, TRUE, TRUE)
  OBVIOUS
<1>15. memory[t + x] = w
  BY <1>1, <1>9, <1>12, <1>13, <1>14 DEF HugeEntry
<1>16. /\ \A z : Leads(TableEntry(z), z, FALSE)
       /\ Leads(w, to, TRUE) /\ EntryIn(w).write = TRUE /\ EntryIn(w).exec = TRUE
  <2>1. \A z : Leads(TableEntry(z), z, FALSE)
    BY LeadsTable
  <2>2. LeadsWith(w, to, TRUE, TRUE, TRUE)
    BY <1>14, LeadsEntry, Zenon
  <2>. QED BY <2>1, <2>2, Zenon DEF LeadsWith
<1>17. Walk(root, p) = {[address |-> to + y * k, write |-> TRUE, exec |-> TRUE]}
  <2>1. Leads(memory[root + index_pml4(p)], v, FALSE) /\ Leads(memory[v + index_pdpt(p)], t, FALSE)
        /\ memory[t + index_pd(p)] = w /\ index_pt(p) * PageWords = y * k
    BY <1>1, <1>10, <1>11, <1>15, <1>16
  <2>. QED BY <1>16, <2>1 DEF Walk, Leads
<1>18. to + y * k = n * k
  <2>1. x \in Nat /\ y \in Nat
    BY <1>1, <1>2, <1>12 DEF Indices
  <2>2. k * (k * (b + g) + x) = c * b + c * g + k * x
    <3>1. k * (b + g) = k * b + k * g
      BY <1>2, <1>3
    <3>2. k * (k * b + k * g + x) = k * (k * b) + k * (k * g) + k * x
      BY <1>2, <1>3, <2>1
    <3>3. k * (k * b) = (k * k) * b /\ k * (k * g) = (k * k) * g
      BY <1>2, <1>3
    <3>. QED BY <1>2, <1>3, <3>1, <3>2, <3>3
  <2>3. n = c * g + k * x + y
    <3>1. c * b \in Nat /\ c * g \in Nat /\ k * x \in Nat
      BY <1>2, <1>3, <2>1
    <3>. QED BY <1>1, <1>12, <2>1, <2>2, <3>1
  <2>4. n = (g * c + x * k) + y
    BY <1>2, <1>3, <2>1, <2>3
  <2>. QED BY <1>2, <1>3, <1>13, <2>1, <2>4
<1>. QED BY <1>1, <1>17, <1>18 DEF SeenAt

LEMMA SeesWhatIsMeant ==
    ASSUME KernelInv, Linked
    PROVE  KernelSees
<1>. SUFFICES ASSUME root # None, outcome = "kernel", NEW s \in DOMAIN kernel.segments,
                     NEW i \in Words(0, SegmentPages(Segment(s)) * PageWords)
              PROVE  \E seen \in Walk(root, Segment(s).page + i \div PageWords) :
                       /\ memory[seen.address + (i % PageWords)] = Meant(s, i)
                       /\ seen.write = Segment(s).write /\ seen.exec = Segment(s).exec
  BY DEF KernelSees
<1>1. KernelType /\ Ordered /\ SegmentsMeant /\ Unmapped = {}
  BY DEF KernelInv, Ordered
<1>2. Leaves(memory)
  BY DEF KernelInv, TablesInv
<1>3. DOMAIN loaded = DOMAIN kernel.segments
  BY <1>1, AllInHigherHalf
<1>4. PICK k, n : k = PageWords /\ n = SegmentPages(Segment(s))
  OBVIOUS
<1>5. k \in Nat \ {0} /\ n \in Nat /\ loaded[s] \in Nat /\ Segment(s).page \in Nat /\ SegmentRoom(s) = n * k
      /\ SegmentRoom(s) \in Nat
  BY <1>1, <1>3, <1>4, MachineIs, SegmentIs, LoadedIs DEF SegmentRoom
<1>6. i \in Nat /\ i < n * k /\ i \in Words(0, SegmentRoom(s))
  <2>1. i \in Words(0, SegmentRoom(s))
    BY DEF SegmentRoom
  <2>. QED BY <1>5, <2>1, InWords
<1>7. PICK q, r : q = i \div k /\ r = i % k
  OBVIOUS
<1>8. q \in Nat /\ r \in 0 .. k - 1 /\ i = (k * q) + r
  BY <1>5, <1>6, <1>7, DivMod
<1>9. q < n
  <2>. SUFFICES ASSUME n <= q PROVE FALSE
    BY <1>5, <1>8
  <2>1. k * n <= k * q /\ n * k = k * n /\ k * q \in Nat
    BY <1>5, <1>8, ProductMonotone
  <2>. QED BY <1>5, <1>6, <1>8, <2>1
<1>10. q < mapped[s]
  <2>1. s \in DOMAIN mapped /\ mapped[s] \in 0 .. SegmentPages(Segment(s))
    BY <1>1 DEF KernelType
  <2>2. ~(mapped[s] < n)
    BY <1>1, <1>4, <2>1 DEF Unmapped
  <2>. QED BY <1>4, <1>5, <1>8, <1>9, <2>1, <2>2
<1>11. PICK to, w, x : to = loaded[s] + q * k /\ w = Segment(s).write /\ x = Segment(s).exec
  OBVIOUS
<1>12. to \in Nat /\ to + r = loaded[s] + i
  <2>1. q * k = k * q /\ q * k \in Nat
    BY <1>5, <1>8
  <2>. QED BY <1>5, <1>8, <1>11, <2>1
<1>13. Leaf(memory, Segment(s).page + q, Entry(to, FALSE, w, x))
  <2>1. Leaf(memory, Segment(s).page + q, PageEntry(s, q))
    BY <1>1, <1>2, <1>8, <1>10 DEF Leaves, KernelType
  <2>. QED BY <1>4, <1>11, <2>1 DEF PageEntry
<1>14. SeenAt(to, w, x) \in Walk(root, Segment(s).page + q)
  BY <1>12, <1>13, WalkLeaf
<1>15. memory[to + r] = Meant(s, i)
  BY <1>1, <1>3, <1>6, <1>12 DEF SegmentsMeant
<1>16. SeenAt(to, w, x).address = to /\ SeenAt(to, w, x).write = w /\ SeenAt(to, w, x).exec = x
  BY DEF SeenAt
<1>17. i \div PageWords = q /\ i % PageWords = r
  BY <1>4, <1>7
<1>. QED BY <1>11, <1>14, <1>15, <1>16, <1>17

\* The page of an address, in the gigabytes before the limit.
LEMMA PageOf ==
    ASSUME PageWords \in Nat \ {0}, GigabytePages \in Nat \ {0}, NEW m \in Nat,
           NEW a \in Nat, Aligned(a), a < m * GigabytePages * PageWords
    PROVE  /\ a \div PageWords \in Nat /\ a = (a \div PageWords) * PageWords
           /\ Gigabyte(a \div PageWords) \in Nat /\ Gigabyte(a \div PageWords) < m
           /\ a \div PageWords < m * GigabytePages
<1>1. PICK k, c, n, r : k = PageWords /\ c = GigabytePages /\ n = a \div k /\ r = a % k
  OBVIOUS
<1>2. k \in Nat \ {0} /\ c \in Nat \ {0} /\ n \in Nat /\ r = 0 /\ a = k * n + r
  <2>1. k \in Nat \ {0} /\ c \in Nat \ {0}
    BY <1>1
  <2>2. n \in Nat /\ a = k * n + r
    BY <1>1, <2>1, DivMod
  <2>3. r = 0
    BY <1>1 DEF Aligned
  <2>. QED BY <2>1, <2>2, <2>3
<1>3. a = n * k /\ m * c \in Nat
  BY <1>2
<1>4. n < m * c
  <2>. SUFFICES ASSUME m * c <= n PROVE FALSE
    BY <1>2, <1>3
  <2>1. (m * c) * k <= n * k
    BY <1>2, <1>3, ProductMonotone
  <2>2. (m * c) * k \in Nat /\ n * k \in Nat
    BY <1>2, <1>3
  <2>3. a < (m * c) * k
    BY <1>1, Zenon
  <2>. QED BY <1>3, <2>1, <2>2, <2>3
<1>5. PICK g : g = Gigabyte(n)
  OBVIOUS
<1>6. g \in Nat /\ \E i \in 0 .. c - 1 : n = c * g + i
  BY <1>1, <1>2, <1>5, GigabyteHas
<1>7. g < m
  <2>. SUFFICES ASSUME m <= g PROVE FALSE
    BY <1>6
  <2>1. c * m <= c * g /\ m * c = c * m /\ c * g \in Nat
    BY <1>2, <1>6, ProductMonotone
  <2>. QED BY <1>2, <1>3, <1>4, <1>6, <2>1
<1>. QED BY <1>1, <1>2, <1>3, <1>4, <1>5, <1>6, <1>7

\* The window of all memory ends behind it.
LEMMA AllOfMemory ==
    ASSUME KernelType
    PROVE  firmware.top <= HhdmGigabytes * GigabytePages * PageWords
           /\ HhdmGigabytes * GigabytePages * PageWords \in Nat
<1>1. PICK k, c, g, t, h : /\ k = PageWords /\ c = GigabytePages /\ g = GigabytePages * PageWords
                           /\ t = firmware.top /\ h = HhdmGigabytes
  OBVIOUS
<1>2. k \in Nat \ {0} /\ c \in Nat \ {0} /\ t \in Nat /\ h \in Nat /\ MinGigabytes \in Nat /\ g = c * k
  BY <1>1, MachineIs
<1>3. g \in Nat \ {0}
  BY <1>2, QuotientTwice
<1>4. PICK q, r : q = (t + g - 1) \div g /\ r = (t + g - 1) % g
  OBVIOUS
<1>5. q \in Nat /\ r \in 0 .. g - 1 /\ t + g - 1 = g * q + r
  <2>1. t + g - 1 \in Nat
    BY <1>2, <1>3
  <2>. QED BY <1>3, <1>4, <2>1, DivMod
<1>6. t <= g * q /\ g * q \in Nat
  BY <1>2, <1>3, <1>5
<1>7. q <= h
  <2>1. h = Larger(q, MinGigabytes)
    BY <1>1, <1>4, Zenon DEF HhdmGigabytes, Gigabytes
  <2>. QED BY <1>2, <1>5, <2>1 DEF Larger
<1>8. g * q <= g * h /\ g * h \in Nat
  BY <1>2, <1>3, <1>5, <1>7, ProductMonotone
<1>9. g * h = h * c * k
  BY <1>2
<1>. QED BY <1>1, <1>2, <1>6, <1>8, <1>9

LEMMA SeenInHigherHalf ==
    ASSUME KernelInv, root # None, outcome = "kernel",
           NEW a \in Nat, Aligned(a), a < HhdmGigabytes * GigabytePages * PageWords
    PROVE  SeenAt(a, TRUE, TRUE) \in Walk(root, HigherHalf + a \div PageWords)
<1>1. KernelType /\ hhdm = HhdmGigabytes /\ Windows(memory)
  BY DEF KernelInv, Ordered, TablesInv
<1>2. PICK n, g : n = a \div PageWords /\ g = Gigabyte(n)
  OBVIOUS
<1>3. n \in Nat /\ a = n * PageWords /\ g \in Nat /\ g < HhdmGigabytes /\ n < HhdmGigabytes * GigabytePages
  BY <1>1, <1>2, MachineIs, PageOf
<1>4. PICK q : q = HigherHalf + g * GigabytePages
  OBVIOUS
<1>5. /\ HigherGigabyte \in Nat /\ HigherHalf = GigabytePages * HigherGigabyte /\ HigherHalf \in Nat
      /\ q \in Nat /\ q < VirtualPages /\ Gigabyte(q) = HigherGigabyte + g
      /\ HigherHalf + HhdmGigabytes * GigabytePages <= VirtualPages /\ VirtualPages \in Nat
  BY <1>1, <1>3, <1>4, Addresses, KernelAssumption
<1>6. HigherHalf + n < VirtualPages
  <2>1. HhdmGigabytes * GigabytePages \in Nat
    BY <1>1, MachineIs
  <2>. QED BY <1>3, <1>5, <2>1
<1>7. Window(memory, q, g)
  BY <1>1, <1>3, <1>4 DEF Windows
<1>8. SeenAt(n * PageWords, TRUE, TRUE) \in Walk(root, GigabytePages * HigherGigabyte + n)
  BY <1>1, <1>2, <1>3, <1>5, <1>6, <1>7, WalkWindow
<1>. QED BY <1>2, <1>3, <1>5, <1>8

LEMMA SeenWhereItIs ==
    ASSUME KernelInv, root # None, outcome = "kernel",
           NEW a \in Nat, Aligned(a), a < MinGigabytes * GigabytePages * PageWords
    PROVE  SeenAt(a, TRUE, TRUE) \in Walk(root, a \div PageWords)
<1>1. KernelType /\ identity = MinGigabytes /\ Windows(memory)
  BY DEF KernelInv, Ordered, TablesInv
<1>2. PICK n, g : n = a \div PageWords /\ g = Gigabyte(n)
  OBVIOUS
<1>3. /\ PageWords \in Nat \ {0} /\ GigabytePages \in Nat \ {0} /\ MinGigabytes \in Nat
      /\ n \in Nat /\ a = n * PageWords /\ g \in Nat /\ g < MinGigabytes /\ n < MinGigabytes * GigabytePages
  BY <1>1, <1>2, MachineIs, PageOf
<1>4. PICK q : q = g * GigabytePages
  OBVIOUS
<1>5. q \in Nat /\ q < VirtualPages /\ Gigabyte(q) = g
  BY <1>1, <1>3, <1>4, Addresses
<1>6. n < VirtualPages
  <2>1. HhdmGigabytes \in Nat
    BY <1>1, MachineIs
  <2>2. PICK x, y : x = MinGigabytes * GigabytePages /\ y = HhdmGigabytes * GigabytePages
    OBVIOUS
  <2>3. x \in Nat /\ y \in Nat
    BY <1>3, <2>1, <2>2
  <2>4. x <= HigherHalf /\ HigherHalf \in Nat
    BY <2>2, AddressAssumption, KernelAssumption
  <2>5. HigherHalf + y <= VirtualPages /\ VirtualPages \in Nat
    BY <1>1, <2>2, Addresses
  <2>. QED BY <1>3, <2>2, <2>3, <2>4, <2>5
<1>7. Window(memory, q, g)
  BY <1>1, <1>3, <1>4 DEF Windows
<1>8. GigabytePages * 0 + n = n /\ Gigabyte(q) = 0 + Gigabyte(n)
  BY <1>2, <1>3, <1>5
<1>9. SeenAt(n * PageWords, TRUE, TRUE) \in Walk(root, GigabytePages * 0 + n)
  BY <1>1, <1>2, <1>3, <1>5, <1>6, <1>7, <1>8, WalkWindow
<1>. QED BY <1>2, <1>3, <1>8, <1>9

\* The windows end with a gigabyte.
LEMMA WindowedIsMapped ==
    ASSUME KernelType, NEW x \in Nat, Windowed(x)
    PROVE  x < HhdmGigabytes * GigabytePages * PageWords
<1>1. PICK k, c, g, h, m : /\ k = PageWords /\ c = GigabytePages /\ g = GigabytePages * PageWords
                           /\ h = HhdmGigabytes /\ m = MinGigabytes
  OBVIOUS
<1>2. /\ k \in Nat \ {0} /\ c \in Nat \ {0} /\ h \in Nat /\ m \in Nat /\ g = c * k
      /\ firmware.top \in Nat
  BY <1>1, MachineIs
<1>3. g \in Nat \ {0}
  BY <1>2, QuotientTwice
<1>4. g * h \in Nat /\ g * m \in Nat /\ g * h = h * c * k /\ g * m = m * c * k
  BY <1>2, <1>3
<1>5. CASE x < FourGiB
  <2>1. FourGiB <= m * c * k /\ FourGiB \in Nat
    BY <1>1, AddressAssumption, SizeAssumption
  <2>2. m <= h
    BY <1>1, <1>2, MachineIs DEF HhdmGigabytes, Gigabytes, Larger
  <2>3. g * m <= g * h
    BY <1>2, <1>3, <2>2, ProductMonotone
  <2>. QED BY <1>1, <1>4, <1>5, <2>1, <2>3
<1>6. ASSUME NEW a \in DOMAIN memory, a \div g = x \div g PROVE x < g * h
  <2>1. a \in Nat /\ a < firmware.top
    BY MachineIs, InWords DEF KernelType
  <2>2. a < g * h
    BY <1>1, <1>2, <1>4, <2>1, AllOfMemory
  <2>3. PICK q, r, s : q = a \div g /\ r = a % g /\ s = x % g
    OBVIOUS
  <2>4. /\ q \in Nat /\ a = g * q + r
        /\ r \in Nat /\ s \in Nat /\ s < g /\ x = g * q + s
    <3>1. q \in Nat /\ r \in 0 .. g - 1 /\ a = (g * q) + r
      BY <1>3, <2>1, <2>3, DivMod
    <3>2. x \div g = q
      BY <1>6, <2>3
    <3>3. s \in 0 .. g - 1 /\ x = (g * (x \div g)) + s
      BY <1>3, <2>3, DivMod
    <3>. QED BY <1>3, <3>1, <3>2, <3>3
  <2>5. g * q \in Nat /\ a >= g * q /\ x < g * q + g
    <3>1. g * q \in Nat
      BY <1>3, <2>4
    <3>. QED BY <1>3, <2>4, <3>1
  <2>6. q < h
    <3>. SUFFICES ASSUME h <= q PROVE FALSE
      BY <1>2, <2>4
    <3>1. g * h <= g * q
      BY <1>2, <1>3, <2>4, ProductMonotone
    <3>. QED BY <1>4, <2>1, <2>2, <2>5, <3>1
  <2>7. g * (q + 1) <= g * h /\ g * (q + 1) = g * q + g
    BY <1>2, <1>3, <2>4, <2>6, ProductMonotone
  <2>. QED BY <1>3, <1>4, <2>5, <2>7
<1>7. x < g * h
  <2>1. CASE x < FourGiB
    BY <1>1, <1>4, <1>5, <2>1
  <2>2. CASE \E a \in DOMAIN memory : a \div g = x \div g
    BY <1>6, <2>2
  <2>. QED BY <1>1, <2>1, <2>2 DEF Windowed
<1>. QED BY <1>1, <1>4, <1>7

LEMMA SeesAllMemory ==
    ASSUME KernelInv
    PROVE  WindowsWhole
<1>. SUFFICES ASSUME root # None, outcome = "kernel" PROVE WindowsWhole
  BY DEF WindowsWhole
<1>1. KernelType /\ ModulesThere
  BY DEF KernelInv
<1>2. \A a : /\ SeenAt(a, TRUE, TRUE).address = a /\ SeenAt(a, TRUE, TRUE).write
             /\ SeenAt(a, TRUE, TRUE).exec
  BY DEF SeenAt
<1>3. ASSUME NEW a \in DOMAIN memory, Aligned(a)
      PROVE  /\ \E seen \in Walk(root, HigherHalf + a \div PageWords) : seen.address = a /\ seen.write
             /\ a < FourGiB => \E seen \in Walk(root, a \div PageWords) :
                                 seen.address = a /\ seen.write /\ seen.exec
  <2>1. a \in Nat /\ a < firmware.top /\ firmware.top \in Nat
    BY <1>1, MachineIs, InWords DEF KernelType
  <2>2. SeenAt(a, TRUE, TRUE) \in Walk(root, HigherHalf + a \div PageWords)
    <3>1. a < HhdmGigabytes * GigabytePages * PageWords
      BY <1>1, <2>1, AllOfMemory
    <3>. QED BY <1>3, <2>1, <3>1, SeenInHigherHalf
  <2>3. ASSUME a < FourGiB PROVE SeenAt(a, TRUE, TRUE) \in Walk(root, a \div PageWords)
    <3>1. MinGigabytes * GigabytePages * PageWords \in Nat
      BY <1>1, MachineIs
    <3>2. a < MinGigabytes * GigabytePages * PageWords
      BY <2>1, <2>3, <3>1, AddressAssumption, SizeAssumption
    <3>. QED BY <1>3, <2>1, <3>2, SeenWhereItIs
  <2>. QED BY <1>2, <2>2, <2>3
<1>4. ASSUME firmware.display # None,
             Windowed(firmware.display)
      PROVE  \E seen \in Walk(root, HigherHalf + firmware.display \div PageWords) :
               seen.address = firmware.display /\ seen.write
  <2>1. firmware.display \in Nat /\ Aligned(firmware.display)
    BY <1>1, <1>4, KernelAssumption DEF KernelType
  <2>2. firmware.display < HhdmGigabytes * GigabytePages * PageWords
    BY <1>1, <1>4, <2>1, WindowedIsMapped
  <2>. QED BY <1>2, <2>1, <2>2, SeenInHigherHalf
<1>. QED BY <1>1, <1>3, <1>4 DEF WindowsWhole, ModulesThere

\* KernelInv is about a boot of a Limine kernel; in others there never is a
\* page table, and what the handover was not given is as LinuxInv says.
KernelPart ==
    /\ kind = "limine" => KernelInv
    /\ kind # "limine" => root = None
    /\ kind = "map" => memory = <<>>

\* boot_limine: until the kernel is entered each segment and module is whole
\* in pages of its own, and the tables lead where they were made to lead.
THEOREM KernelInvariance == Spec => []KernelPart
<1>1. Init => KernelPart
  BY KernelInit DEF Init, NoLimine, NoMachine, KernelPart
<1>2. KernelPart /\ [Next]_vars => KernelPart'
  <2>. SUFFICES ASSUME KernelPart, [Next]_vars PROVE KernelPart'
    OBVIOUS
  <2>1. CASE kind = "limine" /\ LimineNext /\ UNCHANGED <<map, handover, kind>>
    BY <2>1, KernelStep DEF KernelPart
  <2>2. CASE kind = "map" /\ MapNext /\ UNCHANGED <<machine, limine, handover, kind>>
    BY <2>2 DEF KernelPart, limine, machine
  <2>3. CASE kind = "linux" /\ LinuxNext /\ UNCHANGED <<limine, map, kind>>
    BY <2>3 DEF KernelPart, limine
  <2>4. CASE UNCHANGED vars
    <3>1. UNCHANGED <<machine, limine, kind>> /\ root' = root /\ memory' = memory
      BY <2>4 DEF vars, limine, machine
    <3>. QED BY <3>1, KernelStep DEF KernelPart
  <2>. QED BY <2>1, <2>2, <2>3, <2>4 DEF Next
<1>. QED BY <1>1, <1>2, PTL DEF Spec

\* Whichever way a kernel is handed over, with whatever size of memory, r-boot
\* writes only to pages the firmware gave it.
THEOREM OthersAreUntouched == Spec => []OthersUntouched
<1>1. LinuxPart /\ KernelPart /\ (kind \in {"limine", "map", "linux"}) => OthersUntouched
  BY DEF LinuxPart, LinuxInv, KernelPart, KernelInv, KernelType, OthersUntouched
<1>2. Spec => [](kind \in {"limine", "map", "linux"})
  <2>1. Init => kind \in {"limine", "map", "linux"}
    BY DEF Init
  <2>2. kind \in {"limine", "map", "linux"} /\ [Next]_vars => (kind \in {"limine", "map", "linux"})'
    BY MapSteps
  <2>. QED BY <2>1, <2>2, PTL DEF Spec
<1>. QED BY <1>1, <1>2, LinuxInvariance, KernelInvariance, PTL

\* boot_limine: a kernel linked as linkers do sees each word of its segments
\* where it was linked, its requests answered, for every size of the tables.
THEOREM KernelIsSeen == Spec => [](Linked => KernelSees)
<1>1. KernelPart => (Linked => KernelSees)
  <2>1. root = None => KernelSees
    BY DEF KernelSees
  <2>. QED BY <2>1, SeesWhatIsMeant DEF KernelPart
<1>. QED BY <1>1, KernelInvariance, PTL

\* map_identity_first_4g, map_hhdm_through and load_modules: a kernel that is
\* entered sees all memory, and its modules, whatever it has been linked to and
\* wherever the framebuffer is.
THEOREM WindowsAreWhole == Spec => []WindowsWhole
<1>1. KernelPart => WindowsWhole
  <2>1. root = None => WindowsWhole
    BY DEF WindowsWhole
  <2>. QED BY <2>1, SeesAllMemory DEF KernelPart
<1>. QED BY <1>1, KernelInvariance, PTL
=============================================================================
