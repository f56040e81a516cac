----------------------------- MODULE FileSystem -----------------------------
(***************************************************************************)
(* The read-only file system and the descriptors of one process:           *)
(* read_dentry_by_name, read_data, file_read and dir_read of filesystem.c, *)
(* open, close and the loading of a program of syscall.c, add_fd and       *)
(* rem_fd of PCB.c.                                                        *)
(*                                                                         *)
(* The image is constant.  The loops of read_dentry_by_name and read_data  *)
(* are stepped, so that what they maintain can be stated.  What they share *)
(* with the other processes is the image alone.  A string is the sequence  *)
(* of its characters, without the NUL.                                     *)
(***************************************************************************)
EXTENDS Integers, Sequences

CONSTANTS BLOCK_SIZE,   \* bytes in a data block (4096)
          INODE_DB,     \* data blocks of an inode (1023)
          NUM_INODES,   \* inodes that are read; the image may have more (63)
          POSITIONS,    \* values of a position (2^32)
          FNAME_SIZE,   \* characters of a name (32)
          FDT_SIZE,     \* descriptors of a process (8)
          Dentries,     \* boot_block->dir_entries: sequence of [name, type, inode]
          Inodes,       \* inode number -> [length, inode_data]
          Data,         \* block number -> offset -> byte
          MAGIC,        \* the first bytes of an executable (4 of them)
          ENTRY_OFF,    \* where an executable holds its entry point (24)
          ENTRY_SIZE,   \* bytes of the entry point (4)
          PAGE_SIZE,    \* bytes load_prog asks for (OFF_4MB)
          Names,        \* names programs ask for
          Requests      \* numbers of bytes programs ask for

Fds == 2 .. FDT_SIZE - 1        \* 0 and 1 are the terminal
Types == {"rtc", "dir", "file"}
Offsets == 0 .. BLOCK_SIZE - 1
Indices == 0 .. INODE_DB - 1
MaxLength == BLOCK_SIZE * INODE_DB

(* read_data refuses the others.                                           *)
Readable(inode_num) == inode_num < NUM_INODES

ASSUME SizesAssumption ==
    /\ BLOCK_SIZE \in Nat \ {0}
    /\ INODE_DB \in Nat \ {0}
    /\ NUM_INODES \in Nat
    /\ POSITIONS \in Nat /\ MaxLength < POSITIONS
    /\ FNAME_SIZE \in Nat
    /\ FDT_SIZE \in Nat
    /\ Requests \subseteq Nat
    /\ ENTRY_OFF \in Nat /\ ENTRY_SIZE \in Nat /\ PAGE_SIZE \in Nat
    /\ ENTRY_OFF < MaxLength
    /\ Len(MAGIC) \in Nat

InodeNumbers == {f \in Nat : Readable(f) => f \in DOMAIN Inodes}

ASSUME ImageAssumption ==
    /\ DOMAIN Data \subseteq Nat /\ DOMAIN Inodes \subseteq Nat
    /\ \A b \in DOMAIN Data : DOMAIN Data[b] = Offsets
    /\ \A f \in DOMAIN Inodes :
         /\ Inodes[f].length \in 0 .. MaxLength
         /\ Inodes[f].inode_data \in [Indices -> DOMAIN Data]
    /\ Len(Dentries) \in Nat /\ DOMAIN Dentries = 1 .. Len(Dentries)
    /\ \A e \in DOMAIN Dentries :
         Dentries[e].type \in Types /\ Dentries[e].inode \in InodeNumbers

(* A name is a string; the field of an entry holds FNAME_SIZE characters.  *)
ASSUME NamesAssumption ==
    /\ \A name \in Names : name \in Seq({name[k] : k \in DOMAIN name})
    /\ \A e \in DOMAIN Dentries :
         LET name == Dentries[e].name IN
         name \in Seq({name[k] : k \in DOMAIN name}) /\ Len(name) <= FNAME_SIZE

(* The bytes of a file, one after another, whatever blocks hold them.      *)
ByteAt(f, p) == Data[Inodes[f].inode_data[p \div BLOCK_SIZE]][p % BLOCK_SIZE]

Content(f) == [k \in 1 .. Inodes[f].length |-> ByteAt(f, k - 1)]

VARIABLES
    fd_table,             \* descriptors in use: fd -> [entry, type, inode, file_position]
    pc, call,             \* where the process is, and in which call
    fname, index,         \* read_dentry_by_name
    fd,                   \* of the read in progress
    inode, offset, length,              \* arguments of read_data
    bytes_read, j, block_off, block_num,\* locals of read_data (its i is bytes_read)
    buf,                                \* what it copied
    program,              \* the bytes of the page of user memory
    answer                \* the last call: what it returned, the data it gave or,
                          \*   if it was an open, the name it was given

(* History: the entry fd was opened for is in fd_table; the bytes or names *)
(* read through each descriptor since it was opened (or started over).     *)
VARIABLE seen

nameVars == <<fname, index>>
argVars == <<inode, offset, length>>
loopVars == <<bytes_read, j, block_off, block_num, buf>>
vars == <<fd_table, pc, call, nameVars, fd, argVars, loopVars, program, answer, seen>>

NoAnswer == [call |-> "none", ret |-> 0, data |-> <<>>]

Init ==
    /\ fd_table = <<>>
    /\ pc = "user" /\ call = "none"
    /\ fname = <<>> /\ index = 0
    /\ fd = 0
    /\ inode = 0 /\ offset = 0 /\ length = 0
    /\ bytes_read = 0 /\ j = 0 /\ block_off = 0 /\ block_num = 0 /\ buf = <<>>
    /\ program = <<>>
    /\ answer = NoAnswer
    /\ seen = <<>>

(* The call returns ret, and data in the caller's buffer; its locals are   *)
(* dead.                                                                   *)
Return(what, ret, data) ==
    /\ pc' = "user" /\ call' = "none"
    /\ answer' = [call |-> what, ret |-> ret, data |-> data]
    /\ fname' = <<>> /\ index' = 0 /\ fd' = 0
    /\ inode' = 0 /\ offset' = 0 /\ length' = 0
    /\ bytes_read' = 0 /\ j' = 0 /\ block_off' = 0 /\ block_num' = 0 /\ buf' = <<>>

With(f, x, v) == [y \in DOMAIN f \cup {x} |-> IF y = x THEN v ELSE f[y]]
Without(f, x) == [y \in DOMAIN f \ {x} |-> f[y]]

-----------------------------------------------------------------------------
(* open and execute begin with read_dentry_by_name.                        *)

(* What answer keeps of the name: Files tells an open by it.               *)
Asked(what, name) == IF what = "open" THEN name ELSE <<>>

LookUp(what, name) ==
    /\ pc = "user"
    /\ \/ /\ Len(name) > FNAME_SIZE
          /\ Return(what, -1, Asked(what, name))
       \/ /\ Len(name) <= FNAME_SIZE
          /\ pc' = "lookup" /\ call' = what
          /\ fname' = name /\ index' = 1
          /\ UNCHANGED <<fd, argVars, loopVars, answer>>
    /\ UNCHANGED <<fd_table, program, seen>>

(* strncmp(name, target, strlen(name)) = 0.                                *)
SamePrefix(name, target) ==
    Len(name) <= Len(target) /\ SubSeq(target, 1, Len(name)) = name

Matches_Prefix(e) == SamePrefix(fname, Dentries[e].name)

Matches(e) == /\ Len(fname) = Len(Dentries[e].name)
              /\ SamePrefix(fname, Dentries[e].name)

NoMatch ==
    /\ pc = "lookup"
    /\ \/ /\ index \in DOMAIN Dentries
          /\ ~Matches(index)
          /\ index' = index + 1
          /\ UNCHANGED <<pc, call, fname, fd, argVars, loopVars, answer>>
       \/ /\ index \notin DOMAIN Dentries
          /\ Return(call, -1, Asked(call, fname))
    /\ UNCHANGED <<fd_table, program, seen>>

(* Counting the descriptors of the terminal among the free ones.           *)
Free_FromZero == (0 .. FDT_SIZE - 1) \ DOMAIN fd_table

Free == Fds \ DOMAIN fd_table
Lowest(f) == f \in Free /\ \A g \in Free : f <= g

(* add_fd takes the first free descriptor; the open of a file or of the    *)
(* directory does nothing.                                                 *)
OpenFound ==
    /\ pc = "lookup" /\ call = "open"
    /\ index \in DOMAIN Dentries /\ Matches(index)
    /\ \/ \E f \in Free :
            /\ Lowest(f)
            /\ fd_table' = With(fd_table, f, [entry |-> index,
                                              type |-> Dentries[index].type,
                                              inode |-> Dentries[index].inode,
                                              file_position |-> 0])
            /\ seen' = With(seen, f, <<>>)
            /\ Return("open", f, fname)
       \/ /\ Free = {}
          /\ Return("open", -1, fname)
          /\ UNCHANGED <<fd_table, seen>>
    /\ UNCHANGED program

Close(f) ==
    /\ pc = "user"
    /\ fd_table' = Without(fd_table, f)
    /\ seen' = Without(seen, f)
    /\ Return("close", IF f \in DOMAIN fd_table THEN 0 ELSE -1, <<>>)
    /\ UNCHANGED program

-----------------------------------------------------------------------------
(* read_data, for read and for execute.                                    *)

(* The locals of read_data as its loop begins; for an inode it does not    *)
(* read, and past the last index of one, it returns -1 at once (ReadFailed *)
(* and NotReadable).                                                       *)
StartReading(what, f, from, n) ==
    /\ pc' = "copy" /\ call' = what
    /\ inode' = f /\ offset' = from /\ length' = n
    /\ bytes_read' = 0 /\ j' = 0 /\ buf' = <<>>
    /\ block_num' = Inodes[f].inode_data[from \div BLOCK_SIZE]
    /\ block_off' = from % BLOCK_SIZE
    /\ UNCHANGED <<nameVars, answer>>

(* Taking the blocks of a file for adjacent.                               *)
CopyByte_Adjacent ==
    /\ pc = "copy"
    /\ bytes_read < length /\ offset + bytes_read < Inodes[inode].length
    /\ \/ /\ block_off + bytes_read >= BLOCK_SIZE
          /\ j' = j + 1
          /\ block_off' = -bytes_read
          /\ block_num' = block_num + 1
       \/ /\ block_off + bytes_read < BLOCK_SIZE
          /\ UNCHANGED <<j, block_off, block_num>>
    /\ buf' = Append(buf, Data[block_num'][block_off' + bytes_read])
    /\ bytes_read' = bytes_read + 1
    /\ UNCHANGED <<fd_table, pc, call, nameVars, fd, argVars, program, answer, seen>>

(* The next byte of the block, or the first of the next block.             *)
CopyByte ==
    /\ pc = "copy"
    /\ bytes_read < length /\ offset + bytes_read < Inodes[inode].length
    /\ \/ /\ block_off + bytes_read >= BLOCK_SIZE
          /\ j' = j + 1
          /\ block_off' = -bytes_read
          /\ block_num' = Inodes[inode].inode_data[offset \div BLOCK_SIZE + j']
       \/ /\ block_off + bytes_read < BLOCK_SIZE
          /\ UNCHANGED <<j, block_off, block_num>>
    /\ buf' = Append(buf, Data[block_num'][block_off' + bytes_read])
    /\ bytes_read' = bytes_read + 1
    /\ UNCHANGED <<fd_table, pc, call, nameVars, fd, argVars, program, answer, seen>>

(* The loop ends: all that was asked for, or the end of the file.          *)
Copied == /\ pc = "copy"
          /\ bytes_read = length \/ offset + bytes_read >= Inodes[inode].length

-----------------------------------------------------------------------------
(* read                                                                    *)

Is(f, type) == f \in DOMAIN fd_table /\ fd_table[f].type = type

ReadAbsent(f) ==
    /\ pc = "user" /\ f \notin DOMAIN fd_table
    /\ Return("absent", -1, <<>>)
    /\ UNCHANGED <<fd_table, program, seen>>

ReadFile(f, n) ==
    /\ pc = "user" /\ Is(f, "file")
    /\ Readable(fd_table[f].inode)
    /\ fd_table[f].file_position \div BLOCK_SIZE < INODE_DB
    /\ StartReading("read", fd_table[f].inode, fd_table[f].file_position, n)
    /\ fd' = f
    /\ UNCHANGED <<fd_table, program, seen>>

(* An inode that is not read, or a position past the last index: -1, which *)
(* file_read adds to the position as if it were a number of bytes.         *)
ReadFailed(f) ==
    /\ pc = "user" /\ Is(f, "file")
    /\ ~Readable(fd_table[f].inode) \/ fd_table[f].file_position \div BLOCK_SIZE >= INODE_DB
    /\ fd_table' = [fd_table EXCEPT ![f].file_position = (@ - 1) % POSITIONS]
    /\ Return("read", -1, <<>>)
    /\ UNCHANGED <<program, seen>>

FileRead_Overwritten ==
    /\ Copied /\ call = "read"
    /\ fd_table' = [fd_table EXCEPT ![fd].file_position = bytes_read]
    /\ seen' = [seen EXCEPT ![fd] = @ \o buf]
    /\ Return("read", bytes_read, buf)
    /\ UNCHANGED program

FileRead ==
    /\ Copied /\ call = "read"
    /\ fd_table' = [fd_table EXCEPT ![fd].file_position = @ + bytes_read]
    /\ seen' = [seen EXCEPT ![fd] = @ \o buf]
    /\ Return("read", bytes_read, buf)
    /\ UNCHANGED program

(* dir_read: the next name, or 0 and back to the first.                    *)
DirRead_NoReset(f) ==
    /\ pc = "user" /\ Is(f, "dir")
    /\ LET position == fd_table[f].file_position IN
       \/ /\ position < Len(Dentries)
          /\ fd_table' = [fd_table EXCEPT ![f].file_position = @ + 1]
          /\ seen' = [seen EXCEPT ![f] = Append(@, Dentries[position + 1].name)]
          /\ Return("list", Len(Dentries[position + 1].name), Dentries[position + 1].name)
       \/ /\ position >= Len(Dentries)
          /\ seen' = [seen EXCEPT ![f] = <<>>]
          /\ Return("list", 0, <<>>)
          /\ UNCHANGED fd_table
    /\ UNCHANGED program

DirRead(f) ==
    /\ pc = "user" /\ Is(f, "dir")
    /\ LET position == fd_table[f].file_position IN
       \/ /\ position < Len(Dentries)
          /\ fd_table' = [fd_table EXCEPT ![f].file_position = @ + 1]
          /\ seen' = [seen EXCEPT ![f] = Append(@, Dentries[position + 1].name)]
          /\ Return("list", Len(Dentries[position + 1].name), Dentries[position + 1].name)
       \/ /\ position >= Len(Dentries)
          /\ fd_table' = [fd_table EXCEPT ![f].file_position = 0]
          /\ seen' = [seen EXCEPT ![f] = <<>>]
          /\ Return("list", 0, <<>>)
    /\ UNCHANGED program

(* file_write and dir_write; a descriptor that is not in use.              *)
Write(f) ==
    /\ pc = "user" /\ ~Is(f, "rtc")
    /\ Return("write", -1, <<>>)
    /\ UNCHANGED <<fd_table, program, seen>>

-----------------------------------------------------------------------------
(* execute: the file must begin with the magic number; its entry point and *)
(* its bytes are read.  exec_buffer and entry_buf are not initialised.     *)

NotExecutable ==
    /\ pc = "lookup" /\ call = "exec"
    /\ index \in DOMAIN Dentries /\ Matches(index)
    /\ Dentries[index].type # "file"
    /\ Return("exec", -1, <<>>)
    /\ UNCHANGED <<fd_table, program, seen>>

(* No read gives anything, and load_prog's says so: what exec_buffer held  *)
(* decides only which of the two returns of -1 is taken.                   *)
NotReadable ==
    /\ pc = "lookup" /\ call = "exec"
    /\ index \in DOMAIN Dentries /\ Matches(index)
    /\ Dentries[index].type = "file" /\ ~Readable(Dentries[index].inode)
    /\ Return("exec", -1, <<>>)
    /\ UNCHANGED <<fd_table, program, seen>>

ReadMagic ==
    /\ pc = "lookup" /\ call = "exec"
    /\ index \in DOMAIN Dentries /\ Matches(index)
    /\ Dentries[index].type = "file" /\ Readable(Dentries[index].inode)
    /\ StartReading("exec", Dentries[index].inode, 0, Len(MAGIC))
    /\ UNCHANGED <<fd_table, fd, program, seen>>

(* The bytes that were read are those of the magic number; the rest of a   *)
(* short file's exec_buffer is what the stack held, the last execute's     *)
(* magic number perhaps.                                                   *)
MagicSeen == \A k \in 1 .. bytes_read : buf[k] = MAGIC[k]

MagicWrong ==
    /\ Copied /\ call = "exec"
    /\ ~MagicSeen \/ bytes_read < Len(MAGIC)
    /\ Return("exec", -1, <<>>)
    /\ UNCHANGED <<fd_table, program, seen>>

ReadEntry ==
    /\ Copied /\ call = "exec"
    /\ MagicSeen
    /\ StartReading("entry", inode, ENTRY_OFF, ENTRY_SIZE)
    /\ UNCHANGED <<fd_table, fd, program, seen>>

LoadProg_FromEntry ==
    /\ Copied /\ call = "entry"
    /\ StartReading("load", inode, ENTRY_OFF, PAGE_SIZE)
    /\ UNCHANGED <<fd_table, fd, program, seen>>

LoadProg ==
    /\ Copied /\ call = "entry"
    /\ StartReading("load", inode, 0, PAGE_SIZE)
    /\ UNCHANGED <<fd_table, fd, program, seen>>

(* The program runs and halts: execute returns its status.  Nothing read:  *)
(* execute returns -1, the process was created all the same.               *)
Loaded ==
    /\ Copied /\ call = "load"
    /\ program' = buf
    /\ Return("exec", IF bytes_read <= 0 THEN -1 ELSE 0, <<>>)
    /\ UNCHANGED <<fd_table, seen>>

-----------------------------------------------------------------------------
Next ==
    \/ \E name \in Names : LookUp("open", name) \/ LookUp("exec", name)
    \/ NoMatch \/ OpenFound
    \/ \E f \in Fds : Close(f) \/ ReadAbsent(f) \/ ReadFailed(f) \/ DirRead(f) \/ Write(f)
    \/ \E f \in Fds, n \in Requests : ReadFile(f, n)
    \/ CopyByte \/ FileRead
    \/ NotExecutable \/ NotReadable \/ ReadMagic \/ MagicWrong \/ ReadEntry \/ LoadProg \/ Loaded

Spec == Init /\ [][Next]_vars

-----------------------------------------------------------------------------
(* Properties.                                                             *)

Bytes == UNION {{Data[b][o] : o \in Offsets} : b \in DOMAIN Data}
EntryNames == {Dentries[e].name : e \in DOMAIN Dentries}

Descriptors == [entry : DOMAIN Dentries, type : Types, inode : InodeNumbers,
                file_position : Nat]

TablesOK ==
    /\ fd_table \in [DOMAIN fd_table -> Descriptors]
    /\ DOMAIN fd_table \subseteq Fds
    /\ DOMAIN seen = DOMAIN fd_table
    /\ \A f \in DOMAIN seen : seen[f] \in Seq(IF Is(f, "dir") THEN EntryNames ELSE Bytes)

LocalsOK ==
    /\ pc \in {"user", "lookup", "copy"}
    /\ call \in {"none", "open", "exec", "read", "entry", "load"}
    /\ index \in Nat
    /\ inode \in Nat /\ offset \in Nat /\ length \in Nat
    /\ bytes_read \in Nat /\ j \in Nat /\ block_off \in Int /\ block_num \in Nat
    /\ buf \in Seq(Bytes)
    /\ pc = "lookup" => call \in {"open", "exec"}
    /\ pc = "copy" => /\ inode \in DOMAIN Inodes /\ Readable(inode) /\ block_num \in DOMAIN Data
                      /\ call \in {"exec", "read", "entry", "load"}

(* The types of the variables: reading never leaves the table of inodes or *)
(* of blocks (filesystem.c:97-132).                                        *)
TypeOK == TablesOK /\ LocalsOK

Promised(f) == Readable(f) /\ Inodes[f].length < MaxLength

(* The bytes read through a descriptor are those of its file, in order and *)
(* without a gap, however the reads cut it and whatever blocks it is in;   *)
(* the position counts them (read_data and file_read, filesystem.c:97-132  *)
(* and 205-219).  For files whose inode is read, and that are shorter than *)
(* it allows: reads of the others fail, at once or at the end, and move    *)
(* the position back by one.                                               *)
BytesInOrder ==
    \A f \in DOMAIN fd_table :
        Is(f, "file") /\ Promised(fd_table[f].inode) =>
            /\ Len(seen[f]) = fd_table[f].file_position
            /\ Len(seen[f]) <= Inodes[fd_table[f].inode].length
            /\ \A k \in 1 .. Len(seen[f]) : seen[f][k] = ByteAt(fd_table[f].inode, k - 1)

(* A listing of the directory gives every entry once and in order before   *)
(* it ends and starts over (dir_read, filesystem.c:139-171).               *)
ListingInOrder ==
    \A f \in DOMAIN fd_table :
        Is(f, "dir") =>
            /\ Len(seen[f]) = fd_table[f].file_position
            /\ \A k \in 1 .. Len(seen[f]) :
                 k \in DOMAIN Dentries /\ seen[f][k] = Dentries[k].name

(* The loop of read_data: where its locals point is offset + bytes_read,   *)
(* and what it copied is the file from offset on.                          *)
CopyInv ==
    pc = "copy" =>
        LET block == offset \div BLOCK_SIZE + j IN
        /\ bytes_read <= length
        /\ bytes_read > 0 => offset + bytes_read <= Inodes[inode].length
        /\ block_off = offset - block * BLOCK_SIZE
        /\ block_off + bytes_read \in 0 .. BLOCK_SIZE
        /\ block \in Indices
        /\ block_num = Inodes[inode].inode_data[block]
        /\ Len(buf) = bytes_read
        /\ \A k \in 1 .. bytes_read : buf[k] = ByteAt(inode, offset + k - 1)

(* A read in progress is one of an open file, from its position.           *)
ReadInv ==
    pc = "copy" /\ call = "read" =>
        /\ Is(fd, "file")
        /\ inode = fd_table[fd].inode
        /\ offset = fd_table[fd].file_position

(* The page of a program that is started holds the whole file, as far as   *)
(* a page goes (load_prog, paging.c:119-133).                              *)
WholeProgram ==
    [][pc' = "user" /\ call = "load" =>
         LET n == Len(program') IN
         /\ n = PAGE_SIZE \/ n = Inodes[inode].length
         /\ program' = SubSeq(Content(inode), 1, n)]_vars

(* The descriptors keep what the abstract file system promises: the bytes  *)
(* of all files but the longest, and -1 of those that cannot be read,      *)
(* however far their positions have been moved.                            *)
Refused(type, f) == type = "file" /\ ~Readable(f)
Full(f) == Readable(f) /\ ~Promised(f)
Held(f) == IF Readable(f) THEN Content(f) ELSE <<>>

F == INSTANCE Files WITH
       Entries <- [e \in DOMAIN Dentries |->
                     [name |-> Dentries[e].name, type |-> Dentries[e].type,
                      bytes |-> Held(Dentries[e].inode)]],
       Unpromised <- {e \in DOMAIN Dentries : Full(Dentries[e].inode)},
       Unreadable <- {e \in DOMAIN Dentries : Refused(Dentries[e].type, Dentries[e].inode)},
       open <- [f \in DOMAIN fd_table |->
                  [entry |-> fd_table[f].entry,
                   position |-> IF Refused(fd_table[f].type, fd_table[f].inode) THEN 0
                                ELSE fd_table[f].file_position]]

ImplementsFiles == F!Spec
=============================================================================
