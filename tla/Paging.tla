------------------------------- MODULE Paging -------------------------------
(***************************************************************************)
(* The page directory, the table behind its first entry and that of        *)
(* vidmap: paging.c.  An entry says whether it is present, open to         *)
(* programs, and which page or table it leads to; an entry of the          *)
(* directory leads to one page of 4 MB or to a table.                      *)
(***************************************************************************)
EXTENDS Integers

VARIABLES page_directory, page_table,
          page_table_2      \* the first entry of vidmap's table

pageVars == <<page_directory, page_table, page_table_2>>

Page(kind, n) == <<kind, n>>
Nothing == Page("nothing", 0)
Table == Page("table", 0)
Table2 == Page("table", 2)

Entry(present, user, to) == [present |-> present, user |-> user, to |-> to]
Absent == Entry(FALSE, FALSE, Nothing)

(* The entries of the directory that are ever used: low memory, the        *)
(* kernel's 4 MB, the program's and that of vidmap; and of the table,      *)
(* video memory at VM_ADDR and the page each terminal keeps its screen in. *)
LowMemory == 0
KernelMemory == 1
ProgramMemory == 32
VidmapMemory == 34
Entries == {LowMemory, KernelMemory, ProgramMemory, VidmapMemory}
VM_ADDR == 184
VideoPages == VM_ADDR .. VM_ADDR + 3
Neighbours == {"page_directory", "page_table_2", "unused"}

Unmapped == /\ page_directory = [e \in Entries |-> Absent]
            /\ page_table = [k \in 0 .. VM_ADDR + 4 |-> Absent]
            /\ page_table_2 = Absent

(* The loop over the table writes all 1024 of its entries to the word      *)
(* after it (page_table[i] with i = PAGE_SIZE), the last one being that of *)
(* page 1023, open to programs and not present.  What stands there is for  *)
(* the linker to say.                                                      *)
Overrun == Entry(FALSE, TRUE, Page("frame", 1023))

(* The directory's entry for low memory is open to programs (| 0x7).       *)
create_pages_Open ==
    /\ page_directory' = [e \in Entries |-> CASE e = LowMemory -> Entry(TRUE, TRUE, Table)
                                              [] e = KernelMemory -> Entry(TRUE, FALSE, Page("kernel", 0))
                                              [] OTHER -> Absent]
    /\ page_table' = [k \in DOMAIN page_table |->
                         IF k \in VideoPages THEN Entry(TRUE, TRUE, Page("frame", k)) ELSE page_table[k]]
    /\ UNCHANGED page_table_2

create_pages ==
    \E after \in Neighbours :
        LET cleared == [e \in Entries |-> IF e = LowMemory /\ after = "page_directory"
                                          THEN Overrun ELSE Absent]
        IN  /\ page_directory' = [cleared EXCEPT ![LowMemory] = Entry(TRUE, FALSE, Table),
                                                 ![KernelMemory] = Entry(TRUE, FALSE, Page("kernel", 0))]
            /\ page_table' = [k \in DOMAIN page_table |->
                                 IF k \in VideoPages THEN Entry(TRUE, TRUE, Page("frame", k)) ELSE page_table[k]]
            /\ page_table_2' = IF after = "page_table_2" THEN Overrun ELSE page_table_2

create_process_page(pid) ==
    /\ page_directory' = [page_directory EXCEPT ![ProgramMemory] = Entry(TRUE, TRUE, Page("program", pid))]
    /\ UNCHANGED <<page_table, page_table_2>>

(* vidmap opens its entry to programs for good, and the screen through it; *)
(* the scheduler has the entry lead to the page of a terminal or, for      *)
(* "terminal" -1, to the screen.                                           *)
VideoEntry(process) == Entry(TRUE, TRUE, Page("frame", VM_ADDR + process + 1))

vidmap_helper ==
    /\ page_directory' = [page_directory EXCEPT ![VidmapMemory] = Entry(TRUE, TRUE, Table2)]
    /\ page_table_2' = VideoEntry(-1)
    /\ UNCHANGED page_table

(* create_process_page, at a tick and after remap_vidmem.                  *)
remap_vidmem(process, pid) ==
    /\ page_directory' = [page_directory EXCEPT ![ProgramMemory] = Entry(TRUE, TRUE, Page("program", pid))]
    /\ page_table_2' = VideoEntry(process)
    /\ UNCHANGED page_table

(* What is reached through both levels, by the kernel or by a program.     *)
Opens(e, user) == e.present /\ (user => e.user)
Reached(user) ==
    LET direct == {page_directory[e].to : e \in {f \in Entries : Opens(page_directory[f], user)}}
        inTable == {page_table[k].to : k \in {j \in DOMAIN page_table : Opens(page_table[j], user)}}
        inTable2 == IF Opens(page_table_2, user) THEN {page_table_2.to} ELSE {}
    IN  (direct \ {Table, Table2}) \cup (IF Table \in direct THEN inTable ELSE {})
                                   \cup (IF Table2 \in direct THEN inTable2 ELSE {})
=============================================================================
