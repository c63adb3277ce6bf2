------------------------------- MODULE Paging -------------------------------
(***************************************************************************)
(* The four-level page tables r-boot builds for a Limine kernel.  A table  *)
(* is one page; an address in it holds Zero or an entry.  The operators    *)
(* take and return [memory, free, table]: the memory, what is free in it,  *)
(* and the table found or made, None if there was no page for it.          *)
(*                                                                         *)
(* Virtual and physical pages are counted; an entry of a page directory    *)
(* stands for PageWords pages ("2 MiB") and one of the table above it for  *)
(* PageWords ^ 2 ("1 GiB").                                                *)
(***************************************************************************)
EXTENDS Machine

Entry(to, huge, write, exec) ==
    [is |-> "entry", to |-> to, huge |-> huge, write |-> write, exec |-> exec]
TableEntry(table) == Entry(table, FALSE, TRUE, TRUE)

\* The processor, and child_table, take every word but zero for an entry; one
\* that is none leads anywhere, to address 0 here.
Present(word) == word # Zero
EntryIn(word) == IF word.is = "entry" THEN word ELSE Entry(0, FALSE, FALSE, FALSE)

index_pml4(page) == (page \div (PageWords * PageWords * PageWords)) % PageWords
index_pdpt(page) == (page \div (PageWords * PageWords)) % PageWords
index_pd(page)   == (page \div PageWords) % PageWords
index_pt(page)   == page % PageWords

\* A page at either end of free memory, wherever that is.
TablePlace(available) ==
    LET places == Places(available, 1, firmware.top)
    IN  CHOOSE a \in places :
          \A b \in places : IF firmware.upward THEN a <= b ELSE b <= a

allocate_table(m) ==
    IF Places(m.free, 1, firmware.top) = {} THEN [m EXCEPT !.table = None]
    ELSE LET a == TablePlace(m.free)
         IN  [memory |-> Zeroed(m.memory, a, PageWords), free |-> m.free \ PagesOf(a, 1), table |-> a]

\* The table an entry of m.table points to, made if there is none.  An entry
\* for a huge page is taken for one that points to a table.
child_table(m, index) ==
    IF m.table = None THEN m
    ELSE LET at == m.table + index
             made == allocate_table(m)
         IN  IF Present(m.memory[at]) THEN [m EXCEPT !.table = EntryIn(m.memory[at]).to]
             ELSE IF made.table = None THEN made
             ELSE [made EXCEPT !.memory = [@ EXCEPT ![at] = TableEntry(made.table)]]

GigabytePages == PageWords * PageWords

\* One turn of map_2m_window: a gigabyte of physical memory at a virtual page.
map_gigabyte(m, root, base, gigabyte) ==
    LET page == base + gigabyte * GigabytePages
        pdpt == child_table([m EXCEPT !.table = root], index_pml4(page))
        pd   == allocate_table(pdpt)
        filled == [a \in DOMAIN pd.memory |->
            IF a = pdpt.table + index_pdpt(page) THEN TableEntry(pd.table)
            ELSE IF a \in Words(pd.table, PageWords)
            THEN Entry((gigabyte * GigabytePages + (a - pd.table) * PageWords) * PageWords,
                       TRUE, TRUE, TRUE)
            ELSE pd.memory[a]]
    IN  IF pdpt.table = None THEN pdpt
        ELSE IF pd.table = None THEN pd
        ELSE [pd EXCEPT !.memory = filled]

\* One turn of map_range: a virtual page to the page at a physical address.
map_page(m, root, page, address, segment) ==
    LET pdpt == child_table([m EXCEPT !.table = root], index_pml4(page))
        pd   == child_table(pdpt, index_pdpt(page))
        pt   == child_table(pd, index_pd(page))
    IN  IF pt.table = None THEN pt
        ELSE [pt EXCEPT !.memory = [@ EXCEPT ![pt.table + index_pt(page)] =
                                       Entry(address, FALSE, segment.write, segment.exec)]]

-----------------------------------------------------------------------------
\* What the processor makes of the tables: at most one [address, write, exec]
\* for a virtual page.
Walk(root, page) ==
    LET l4 == root + index_pml4(page)
        l3 == EntryIn(memory[l4]).to + index_pdpt(page)
        l2 == EntryIn(memory[l3]).to + index_pd(page)
        l1 == EntryIn(memory[l2]).to + index_pt(page)
        Seen(word, offset) ==
            LET entry == EntryIn(word)
            IN  {[address |-> entry.to + offset, write |-> entry.write, exec |-> entry.exec]}
    IN  IF ~Present(memory[l4]) \/ ~Present(memory[l3]) \/ ~Present(memory[l2]) THEN {}
        ELSE IF EntryIn(memory[l2]).huge THEN Seen(memory[l2], index_pt(page) * PageWords)
        ELSE IF ~Present(memory[l1]) THEN {} ELSE Seen(memory[l1], 0)
=============================================================================
