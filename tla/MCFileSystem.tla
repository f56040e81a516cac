---------------------------- MODULE MCFileSystem ----------------------------
(***************************************************************************)
(* A file system image for TLC.                                            *)
(***************************************************************************)
EXTENDS FileSystem, FiniteSets, TLC

Blocks == 0 .. 9

(* Every byte is different, but those of block 7, which begin like the     *)
(* executable's.                                                           *)
MCData == [b \in Blocks |-> [o \in 0 .. 1 |-> IF b = 7 THEN 20 + o ELSE 10 * b + o]]
MCMagic == <<20, 21>>

File(len, a, b, c) == [length |-> len, inode_data |-> (0 :> a @@ 1 :> b @@ 2 :> c)]

(* No data; a text that ends with its second block, which is not next to   *)
(* the first; an executable over three; a file of the maximal length; a    *)
(* file shorter than the magic number.  The image has an inode more, which *)
(* is not read.                                                            *)
MCInodes == (0 :> File(0, 0, 0, 0) @@ 1 :> File(4, 5, 1, 0) @@ 2 :> File(5, 2, 6, 3)
             @@ 3 :> File(MaxLength, 8, 4, 0) @@ 4 :> File(1, 7, 0, 0) @@ 5 :> File(2, 2, 0, 0))

Dentry(name, type, inode_num) == [name |-> name, type |-> type, inode |-> inode_num]

(* Names that are prefixes of one another, and one of the longest length.  *)
MCDentries == << Dentry(<<".">>, "dir", 0), Dentry(<<"a", "b">>, "file", 1),
                 Dentry(<<"a">>, "file", 2), Dentry(<<"a", "b", "c">>, "file", 3),
                 Dentry(<<"r">>, "rtc", 0), Dentry(<<"s">>, "file", 4), Dentry(<<"u">>, "file", 5) >>

MCNames == {MCDentries[e].name : e \in {1, 2, 3, 4, 6, 7}}
             \cup {<<>>, <<"a", "b", "c", "d">>}

(* Bound: a file is read once, or a little more (the longest one could be  *)
(* read again and again), and the one that cannot be read is tried once or *)
(* twice, through one descriptor, beside the directory or the text.  After *)
(* a program was loaded a single descriptor is used.                       *)
Open(entries) == {f \in DOMAIN fd_table : fd_table[f].entry \in entries}
DirectoryOrText == {1, 2}
Tried == Open({7})
ReadOnce ==
    /\ \A f \in DOMAIN seen : Is(f, "file") => Len(seen[f]) <= MaxLength
    /\ \A f \in Tried : fd_table[f].file_position \in {0, POSITIONS - 1}
    /\ Cardinality(Tried) <= 1
    /\ Tried # {} => DOMAIN fd_table \ Tried \subseteq Open(DirectoryOrText)
    /\ program # <<>> => Cardinality(DOMAIN fd_table) <= 1
=============================================================================
