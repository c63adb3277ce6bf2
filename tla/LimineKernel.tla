---------------------------- MODULE LimineKernel ----------------------------
(***************************************************************************)
(* boot_limine: from the bytes of an ELF kernel to the jump into it.  Its  *)
(* segments are copied to pages below 4 GiB, its requests answered in      *)
(* those copies, the page tables built, and boot services left.            *)
(*                                                                         *)
(* A kernel is [words, segments, modules]: what r-boot tells apart in each *)
(* word of the file, the program headers and the module files.  Words it   *)
(* only compares in pairs are one here: a tag is <<"base", revision>>, a   *)
(* request <<"common", id, response>>.  The window of all memory (HHDM)    *)
(* begins where the higher half does.                                      *)
(***************************************************************************)
EXTENDS Paging

CONSTANTS
    LimineMachines, \* what firmware may be
    Kernels,       \* [words, segments, modules]: see above
    HigherHalf,    \* the first virtual page of the higher half, HHDM_OFFSET
    MinGigabytes   \* what the windows map at least, 4

Segments == [page : Nat, aligned : BOOLEAN, offset : Nat, file : Nat, size : Nat,
             write : BOOLEAN, exec : BOOLEAN]

ASSUME KernelAssumption ==
    /\ Kernels \subseteq [words : Seq(STRING), segments : Seq(Segments),
                           modules : Seq([name : STRING, words : Nat])]
    /\ HigherHalf \in Nat /\ MinGigabytes \in Nat
    /\ \A f \in LimineMachines :   \* a framebuffer begins with a page
         f.top \in Nat /\ f.display \in {None} \cup {a \in Nat : Aligned(a)}

VARIABLES
    kernel,   \* the file being booted
    loaded,   \* addresses of its segments
    modules,  \* addresses of the modules
    root,     \* the top page table, None before there is one
    identity, hhdm,  \* gigabytes the two windows have so far
    mapped    \* pages mapped of each segment

limine == <<kernel, loaded, modules, root, identity, hhdm, mapped>>

Answered == {"bootloader_info", "firmware_type", "hhdm", "executable_address",
             "framebuffer", "memory_map", "modules"}
\* The address of a response; there is none about a framebuffer without one.
Response(id) ==
    IF id = "framebuffer" /\ firmware.display = None THEN Zero
    ELSE [is |-> "response", to |-> id]

Segment(s) == kernel.segments[s]
Length == Len(kernel.words)

Larger(a, b) == IF a > b THEN a ELSE b

\* Gigabytes that reach over all of memory, and what is always mapped.
Gigabytes(top) ==
    LET gigabyte == GigabytePages * PageWords
    IN  Larger((top + gigabyte - 1) \div gigabyte, MinGigabytes)

\* Mutant: a gigabyte begun is not mapped.
WholeGigabytes == Larger(firmware.top \div (GigabytePages * PageWords), MinGigabytes)

\* map_hhdm_through: all of memory, and four gigabytes at least.
HhdmGigabytes == Gigabytes(firmware.top)

\* Virtual pages are numbered by the bits that four levels of tables look at.
VirtualPages == PageWords * PageWords * PageWords * PageWords

\* Four gigabytes are mapped, and they end before the higher half; memory is
\* smaller than that half.  No segment goes over the last address: nothing
\* checks that, map_range would go on at address 0.
ASSUME AddressAssumption ==
    /\ HigherHalf % GigabytePages = 0
    /\ MinGigabytes * GigabytePages <= HigherHalf
    /\ FourGiB <= MinGigabytes * GigabytePages * PageWords
    /\ \A f \in LimineMachines : HigherHalf + Gigabytes(f.top) * GigabytePages <= VirtualPages
    /\ \A k \in Kernels : \A s \in DOMAIN k.segments :
         k.segments[s].page + PageCount(k.segments[s].size) <= VirtualPages

\* No segment is linked into the window of all memory.  Nothing checks that:
\* child_table would take the window's entries for tables.
Clear ==
    \A s \in DOMAIN kernel.segments :
        Segment(s).page >= HigherHalf => Segment(s).page >= HigherHalf + HhdmGigabytes * GigabytePages

LimineInit ==
    /\ PowerOn(LimineMachines)
    /\ kernel \in Kernels /\ Clear
    /\ loaded = <<>> /\ modules = <<>>
    /\ root = None /\ identity = 0 /\ hhdm = 0
    /\ mapped = [s \in DOMAIN kernel.segments |-> 0]

\* What Image::load_segments asks of a header.
Loadable(s) ==
    /\ s.file <= s.size /\ s.page >= HigherHalf
    /\ s.aligned /\ Aligned(s.offset)
    /\ s.offset + s.file <= Length

\* AllocateType::MaxAddress(0xffff_f000): all but the last page.
BelowFourGiB == FourGiB - PageWords

AllLoaded == Len(loaded) = Len(kernel.segments) /\ loaded # <<>>

\* Mutant: the end of the last page stays as it was found.
CopyOnly(m, at, s) == Copied(m, at, "kernel", s.offset, s.file)

\* The file's part of a segment, and zeroes to the end of its last page.
Fill(m, at, s) == Copied(Zeroed(m, at, PageCount(s.size) * PageWords), at, "kernel", s.offset, s.file)

\* load_segments: the headers are all read before the first segment is placed.
LoadSegment ==
    /\ outcome = "open" /\ Len(loaded) < Len(kernel.segments)
    /\ \A i \in DOMAIN kernel.segments : Loadable(Segment(i))
    /\ LET s == Segment(Len(loaded) + 1)
       IN  /\ PageCount(s.size) > 0
           /\ \E at \in Places(free, PageCount(s.size), BelowFourGiB) :
                /\ memory' = Fill(memory, at, s)
                /\ free' = free \ PagesOf(at, PageCount(s.size))
                /\ loaded' = Append(loaded, at)
    /\ UNCHANGED <<firmware, outcome, kernel, modules, root, identity, hhdm, mapped>>

RefuseSegments ==
    /\ outcome = "open"
    /\ \/ loaded = <<>> /\ kernel.segments = <<>>
       \/ \E i \in DOMAIN kernel.segments : ~Loadable(Segment(i))
       \/ Len(loaded) < Len(kernel.segments)
          /\ LET pages == PageCount(Segment(Len(loaded) + 1).size)
             IN  pages = 0 \/ Places(free, pages, BelowFourGiB) = {}
    /\ Fail /\ UNCHANGED limine

\* load_modules; the firmware has no place for no pages.
LoadModule ==
    /\ outcome = "open" /\ AllLoaded /\ Len(modules) < Len(kernel.modules)
    /\ LET words == kernel.modules[Len(modules) + 1].words
       IN  /\ PageCount(words) > 0
           /\ \E at \in Places(free, PageCount(words), BelowFourGiB) :
                /\ memory' = Copied(memory, at, kernel.modules[Len(modules) + 1].name, 0, words)
                /\ free' = free \ PagesOf(at, PageCount(words))
                /\ modules' = Append(modules, at)
    /\ UNCHANGED <<firmware, outcome, kernel, loaded, root, identity, hhdm, mapped>>

RefuseModule ==
    /\ outcome = "open" /\ AllLoaded /\ Len(modules) < Len(kernel.modules)
    /\ LET pages == PageCount(kernel.modules[Len(modules) + 1].words)
       IN  pages = 0 \/ Places(free, pages, BelowFourGiB) = {}
    /\ Fail /\ UNCHANGED limine

(***************************************************************************)
(* write_responses.                                                        *)
(***************************************************************************)

Word(offset) == kernel.words[offset + 1]

\* What is written to which word of the file: a request is answered if it is
\* whole, a tag seen up to two words, its length, before the end.
Answers ==
    {[at |-> o + 1, word |-> Zero] :
        o \in {p \in Words(0, Length - 2) : Word(p) = "base"}}
    \cup
    {[at |-> o + 2, word |-> Response(Word(o + 1))] :
        o \in {p \in Words(0, Length - 2) :
                 Word(p) = "common" /\ p + 3 <= Length /\ Word(p + 1) \in Answered}}

Holding(offset) ==
    {s \in DOMAIN loaded : /\ offset >= Segment(s).offset
                           /\ offset + 1 <= Segment(s).offset + Segment(s).file}

\* write_at_offset: the first segment that holds the word.
Target(offset) ==
    LET s == CHOOSE s \in Holding(offset) : \A t \in Holding(offset) : s <= t
    IN  loaded[s] + (offset - Segment(s).offset)

Prepared == AllLoaded /\ Len(modules) = Len(kernel.modules) /\ root = None

\* The tables' root comes right after.
Answer ==
    /\ outcome = "open" /\ Prepared
    /\ \A answer \in Answers : Holding(answer.at) # {}
    /\ LET m == [a \in DOMAIN memory |->
                    IF \E answer \in Answers : Target(answer.at) = a
                    THEN (CHOOSE answer \in Answers : Target(answer.at) = a).word
                    ELSE memory[a]]
           new == allocate_table([memory |-> m, free |-> free, table |-> None])
       IN  /\ memory' = new.memory /\ free' = new.free /\ root' = new.table
           /\ outcome' = IF new.table = None THEN "error" ELSE "open"
    /\ UNCHANGED <<firmware, kernel, loaded, modules, identity, hhdm, mapped>>

\* "Limine request is not in a loadable segment"
RefuseRequest ==
    /\ outcome = "open" /\ Prepared
    /\ \E answer \in Answers : Holding(answer.at) = {}
    /\ Fail /\ UNCHANGED limine

(***************************************************************************)
(* The page tables, and the jump.                                          *)
(***************************************************************************)
Tables == [memory |-> memory, free |-> free, table |-> root]

\* One more entry of them, or no page for a table.
Build(new) ==
    /\ memory' = new.memory /\ free' = new.free
    /\ outcome' = IF new.table = None THEN "error" ELSE "open"
    /\ UNCHANGED <<firmware, kernel, loaded, modules, root>>

MapIdentity ==
    /\ outcome = "open" /\ root # None /\ identity < MinGigabytes
    /\ Build(map_gigabyte(Tables, root, 0, identity))
    /\ identity' = identity + 1 /\ UNCHANGED <<hhdm, mapped>>

MapHhdm ==
    /\ outcome = "open" /\ root # None /\ identity = MinGigabytes /\ hhdm < HhdmGigabytes
    /\ Build(map_gigabyte(Tables, root, HigherHalf, hhdm))
    /\ hhdm' = hhdm + 1 /\ UNCHANGED <<identity, mapped>>

SegmentPages(s) == PageCount(s.size)

Unmapped == {s \in DOMAIN mapped : mapped[s] < SegmentPages(Segment(s))}

MapPage ==
    /\ outcome = "open" /\ root # None /\ hhdm = HhdmGigabytes /\ Unmapped # {}
    /\ LET s == CHOOSE s \in Unmapped : \A t \in Unmapped : s <= t
       IN  /\ Build(map_page(Tables, root, Segment(s).page + mapped[s],
                             loaded[s] + mapped[s] * PageWords, Segment(s)))
           /\ mapped' = [mapped EXCEPT ![s] = @ + 1]
    /\ UNCHANGED <<identity, hhdm>>

\* Boot services are left and the tables loaded.
Enter ==
    /\ outcome = "open" /\ root # None /\ hhdm = HhdmGigabytes /\ Unmapped = {}
    /\ outcome' = "kernel"
    /\ UNCHANGED <<firmware, memory, free, limine>>

LimineNext ==
    \/ LoadSegment \/ RefuseSegments
    \/ LoadModule \/ RefuseModule
    \/ Answer \/ RefuseRequest
    \/ MapIdentity \/ MapHhdm \/ MapPage
    \/ Enter

-----------------------------------------------------------------------------
\* A word of a segment as the kernel's author wrote it: that of the file, the
\* answer to a request there, or zero behind what the file has.
Meant(s, i) ==
    LET o == Segment(s).offset + i
    IN  IF i >= Segment(s).file THEN Zero
        ELSE IF o >= 1 /\ Word(o - 1) = "base" /\ o + 1 < Length THEN Zero
        ELSE IF o >= 2 /\ Word(o - 2) = "common" /\ Word(o - 1) \in Answered
        THEN Response(Word(o - 1))
        ELSE FileWord("kernel", o)

\* The kernel that is entered sees, through its page tables, each of its words
\* at the address it was linked for, with the rights its segment asks for, and
\* nothing but its words in its pages; its requests are answered there.
KernelSees ==
    root # None /\ outcome = "kernel" =>
        \A s \in DOMAIN kernel.segments :
          \A i \in Words(0, SegmentPages(Segment(s)) * PageWords) :
            \E seen \in Walk(root, Segment(s).page + i \div PageWords) :
              /\ memory[seen.address + (i % PageWords)] = Meant(s, i)
              /\ seen.write = Segment(s).write /\ seen.exec = Segment(s).exec

\* An address in the first four gigabytes, or in one that memory reaches into.
Windowed(address) ==
    LET gigabyte == GigabytePages * PageWords
    IN  address < FourGiB \/ \E a \in DOMAIN memory : a \div gigabyte = address \div gigabyte

\* And it sees all physical memory in the higher half, the first four gigabytes
\* also where they are, its modules in them, and a framebuffer unless that is
\* behind the last gigabyte begun: for one there, nothing is mapped.
WindowsWhole ==
    root # None /\ outcome = "kernel" =>
        /\ \A a \in {b \in DOMAIN memory : Aligned(b)} :
             /\ \E seen \in Walk(root, HigherHalf + a \div PageWords) :
                  seen.address = a /\ seen.write
             /\ a < FourGiB => \E seen \in Walk(root, a \div PageWords) :
                                 seen.address = a /\ seen.write /\ seen.exec
        /\ firmware.display # None /\ Windowed(firmware.display) =>
             \E seen \in Walk(root, HigherHalf + firmware.display \div PageWords) :
               seen.address = firmware.display /\ seen.write
        /\ \A n \in DOMAIN modules : \A i \in Words(0, kernel.modules[n].words) :
             memory[modules[n] + i] = FileWord(kernel.modules[n].name, i)
=============================================================================
