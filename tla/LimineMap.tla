----------------------------- MODULE LimineMap ------------------------------
(***************************************************************************)
(* The memory map a Limine kernel gets.  Its storage is sized while boot   *)
(* services still run, from a first map of the firmware; what is allocated *)
(* afterwards (the storage itself, responses, page tables) splits further  *)
(* descriptors; and it is filled after ExitBootServices, when nothing can  *)
(* be allocated and nobody can be told, so what does not fit is cut off.   *)
(*                                                                         *)
(* Kinds are the numbers of the Limine protocol: 0 usable, 1 reserved,     *)
(* 2 and 3 ACPI, 4 bad, 5 reclaimable, 6 kernel and modules, 7 framebuffer *)
(***************************************************************************)
EXTENDS Naturals, Sequences

CONSTANTS
    Machines,       \* memory maps with the ranges prepare collects:
                    \*   [descriptors, ranges]
    PageSize,       \* 4096
    Top,            \* the largest address, where sums saturate
    Slack,          \* entries to spare, 32
    MaxAllocations  \* bound on the allocations after the storage is sized

UefiTypes == {"conventional", "boot_services", "acpi_reclaim", "acpi_nvs", "unusable", "other"}
Descriptors == [start : 0 .. Top, pages : Nat \ {0}, type : UefiTypes]
Ranges == [base : 0 .. Top, length : Nat \ {0}, kind : {6, 7}]

ASSUME MapAssumption ==
    /\ PageSize \in Nat \ {0} /\ Top \in Nat /\ Slack \in Nat /\ MaxAllocations \in Nat
    /\ Machines \subseteq [descriptors : Seq(Descriptors), ranges : Seq(Ranges)]

VARIABLES
    phase,        \* "boot", "prepared", "populating", "done"
    descriptors,  \* the firmware's memory map
    ranges,       \* kernel segments, modules and the framebuffer
    counted,      \* descriptors when the storage was sized
    capacity,     \* entries in the storage
    allocations,  \* how many there were since
    index,        \* the descriptor being converted
    cursor,       \* how far that has come
    entries       \* the map: [base, length, kind]

map == <<phase, descriptors, ranges, counted, capacity, allocations, index, cursor, entries>>

Saturated(sum) == IF sum > Top THEN Top ELSE sum
End(d) == Saturated(d.start + d.pages * PageSize)
RangeEnd(r) == Saturated(r.base + r.length)
Least(S) == CHOOSE n \in S : \A m \in S : n <= m

uefi_memory_kind(type) ==
    CASE type = "conventional"  -> 0
      [] type = "acpi_reclaim"  -> 2
      [] type = "acpi_nvs"      -> 3
      [] type = "unusable"      -> 4
      [] type = "boot_services" -> 5
      [] OTHER                  -> 1

MapInit ==
    /\ phase = "boot"
    /\ \E m \in Machines : descriptors = m.descriptors /\ ranges = m.ranges
    /\ counted = 0 /\ capacity = 0 /\ allocations = 0
    /\ index = 0 /\ cursor = 0 /\ entries = <<>>

\* Mutant: a range is taken to split nothing.
CapacityForDescriptors(count) == count + Slack

\* "Every special range can split one UEFI descriptor into three pieces."
Capacity(count) == count + 2 * Len(ranges) + Slack

\* MemoryMapStorage::new.
Prepare ==
    /\ phase = "boot"
    /\ phase' = "prepared"
    /\ counted' = Len(descriptors)
    /\ capacity' = Capacity(Len(descriptors))
    /\ UNCHANGED <<descriptors, ranges, allocations, index, cursor, entries>>

\* The firmware gives away pages of a usable descriptor: those in front of
\* them and those behind become descriptors of their own.
AllocatePages(i, before, pages) ==
    LET d == descriptors[i]
        Part(skip, n, type) ==
            IF n = 0 THEN <<>>
            ELSE <<[start |-> d.start + skip * PageSize, pages |-> n, type |-> type]>>
    IN  /\ phase = "prepared" /\ allocations < MaxAllocations
        /\ d.type = "conventional" /\ before + pages <= d.pages
        /\ allocations' = allocations + 1
        /\ descriptors' = SubSeq(descriptors, 1, i - 1)
                            \o Part(0, before, "conventional") \o Part(before, pages, "other")
                            \o Part(before + pages, d.pages - before - pages, "conventional")
                            \o SubSeq(descriptors, i + 1, Len(descriptors))
        /\ UNCHANGED <<phase, ranges, counted, capacity, index, cursor, entries>>

\* The cursor at a descriptor, or past the last one.
At(i) ==
    /\ index' = i
    /\ IF i <= Len(descriptors)
       THEN cursor' = descriptors[i].start /\ phase' = "populating"
       ELSE cursor' = 0 /\ phase' = "done"

\* exit_boot_services, and populate begins.
ExitBootServices ==
    /\ phase = "prepared"
    /\ At(1)
    /\ UNCHANGED <<descriptors, ranges, counted, capacity, allocations, entries>>

RangesAt(address) == {r \in {ranges[i] : i \in DOMAIN ranges} : address \in r.base .. RangeEnd(r) - 1}

\* Mutant: a piece only ends where the range it is in does.
PieceToEnd(d) ==
    Least({End(d)} \cup {RangeEnd(r) : r \in RangesAt(cursor)})

\* A piece ends with the descriptor, with a range it is in, or where the
\* next range begins.
PieceEnd(d) ==
    Least({End(d)} \cup {RangeEnd(r) : r \in RangesAt(cursor)}
                   \cup {r.base : r \in {s \in {ranges[i] : i \in DOMAIN ranges} : s.base > cursor}})

\* The last range in the list wins.
PieceKind(d) ==
    LET inside == {i \in DOMAIN ranges : ranges[i] \in RangesAt(cursor)}
    IN  IF inside = {} THEN uefi_memory_kind(d.type)
        ELSE ranges[CHOOSE i \in inside : \A j \in inside : j <= i].kind

Room == Len(entries) < capacity

\* populate: one turn of its inner loop ...
Piece ==
    /\ phase = "populating"
    /\ LET d == descriptors[index]
       IN  /\ cursor < End(d) /\ Room
           /\ entries' = Append(entries, [base |-> cursor, length |-> PieceEnd(d) - cursor,
                                          kind |-> PieceKind(d)])
           /\ cursor' = PieceEnd(d)
    /\ UNCHANGED <<phase, descriptors, ranges, counted, capacity, allocations, index>>

\* ... and of its outer one.
NextDescriptor ==
    /\ phase = "populating"
    /\ ~(cursor < End(descriptors[index]) /\ Room)
    /\ At(index + 1)
    /\ UNCHANGED <<descriptors, ranges, counted, capacity, allocations, entries>>

MapNext ==
    \/ Prepare
    \/ \E i \in DOMAIN descriptors :
         \E before \in 0 .. descriptors[i].pages, pages \in 1 .. descriptors[i].pages :
           AllocatePages(i, before, pages)
    \/ ExitBootServices
    \/ Piece
    \/ NextDescriptor

-----------------------------------------------------------------------------
\* The kind of memory at an address: that of a range it is in, else that of
\* its descriptor.
KindAt(address, d) ==
    LET inside == {i \in DOMAIN ranges : ranges[i] \in RangesAt(address)}
    IN  IF inside = {} THEN uefi_memory_kind(d.type) ELSE ranges[CHOOSE i \in inside : TRUE].kind

EntriesAt(address) ==
    {i \in DOMAIN entries : address \in entries[i].base .. entries[i].base + entries[i].length - 1}
DescriptorsAt(address) ==
    {i \in DOMAIN descriptors : address \in descriptors[i].start .. End(descriptors[i]) - 1}

\* Unless more descriptors were added after the storage was sized than it
\* has entries to spare, the kernel's map has every address of the firmware's
\* exactly once and none else; no page of the kernel, a module or the
\* framebuffer is called anything else, no other memory is taken for them.
MapExact ==
    phase = "done" /\ Len(descriptors) <= counted + Slack =>
        \A address \in 0 .. Top - 1 :
            IF DescriptorsAt(address) = {} THEN EntriesAt(address) = {}
            ELSE \E i \in DOMAIN entries :
                   /\ EntriesAt(address) = {i}
                   /\ \A j \in DescriptorsAt(address) :
                        entries[i].kind = KindAt(address, descriptors[j])

\* Also a map cut short, and one half written, offers the kernel no memory
\* that it or a module is in, and none twice.
MapSafe ==
    \A i \in DOMAIN entries :
        LET e == entries[i]
            taken == e.base .. e.base + e.length - 1
        IN  /\ e.kind \in {0, 2, 5} => \A a \in taken : RangesAt(a) = {}
            /\ \A a \in taken : EntriesAt(a) = {i}
=============================================================================
