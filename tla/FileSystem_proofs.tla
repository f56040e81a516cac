------------------------- MODULE FileSystem_proofs -------------------------
(***************************************************************************)
(* The bytes a descriptor reads are those of its file, and the names a     *)
(* listing gives those of the directory, for every image and every         *)
(* sequence of calls.                                                      *)
(***************************************************************************)
EXTENDS FileSystem, TLAPS

(* Division by the size of a block.                                        *)
LEMMA Division ==
  ASSUME NEW B \in Nat \ {0}, NEW p \in Nat
  PROVE /\ p \div B \in Nat /\ p % B \in 0 .. B - 1
        /\ p = (p \div B) * B + (p % B)
BY SMTT(60)

LEMMA NextMultiple ==
  ASSUME NEW B \in Nat \ {0}, NEW q \in Int, NEW r \in Int, q < r
  PROVE r * B >= q * B + B
<1>1. (r - q - 1) * B >= 0
  BY SMTT(30)
<1>2. r * B = q * B + B + (r - q - 1) * B
  BY SMTT(30)
<1>3. QED
  BY <1>1, <1>2

LEMMA Quotient ==
  ASSUME NEW B \in Nat \ {0}, NEW p \in Nat, NEW q \in Int, NEW r \in 0 .. B - 1,
         p = q * B + r
  PROVE p \div B = q /\ p % B = r
<1> DEFINE d == p \div B
           m == p % B
<1>1. d \in Nat /\ m \in 0 .. B - 1 /\ p = d * B + m
  BY Division
<1> HIDE DEF d, m
<1>2. d * B \in Int /\ q * B \in Int
  BY <1>1
<1>3. ~(d < q)
  <2>1. ASSUME d < q PROVE q * B >= d * B + B
    BY <2>1, <1>1, NextMultiple
  <2>2. QED
    BY <2>1, <1>1, <1>2
<1>4. ~(q < d)
  <2>1. ASSUME q < d PROVE d * B >= q * B + B
    BY <2>1, <1>1, NextMultiple
  <2>2. QED
    BY <2>1, <1>1, <1>2
<1>5. d = q
  BY <1>1, <1>3, <1>4
<1>6. QED
  BY <1>1, <1>2, <1>5 DEF d, m

(* A position before the maximal length has an index.                      *)
LEMMA BeforeMaximum ==
  ASSUME NEW q \in Int, q >= 0, q * BLOCK_SIZE < MaxLength
  PROVE q \in Indices
<1>1. BLOCK_SIZE \in Nat \ {0} /\ INODE_DB \in Nat \ {0}
  BY SizesAssumption
<1>2. ASSUME q > INODE_DB PROVE FALSE
  <2>1. q * BLOCK_SIZE >= INODE_DB * BLOCK_SIZE + BLOCK_SIZE
    BY <1>1, <1>2, NextMultiple
  <2>2. INODE_DB * BLOCK_SIZE = MaxLength /\ MaxLength \in Int /\ q * BLOCK_SIZE \in Int
    BY <1>1 DEF MaxLength
  <2>3. QED
    BY <1>1, <2>1, <2>2
<1>3. ASSUME q = INODE_DB PROVE FALSE
  <2>1. q * BLOCK_SIZE = MaxLength /\ MaxLength \in Int
    BY <1>1, <1>3 DEF MaxLength
  <2>2. QED
    BY <2>1
<1>4. QED
  BY <1>1, <1>2, <1>3 DEF Indices

-----------------------------------------------------------------------------
(* Sequences that grow.                                                    *)
LEMMA AppendTo ==
  ASSUME NEW S, NEW s \in Seq(S), NEW x \in S
  PROVE /\ Append(s, x) \in Seq(S)
        /\ Len(Append(s, x)) = Len(s) + 1
        /\ \A k \in 1 .. Len(s) : Append(s, x)[k] = s[k]
        /\ Append(s, x)[Len(s) + 1] = x
OBVIOUS

LEMMA Concatenate ==
  ASSUME NEW S, NEW s \in Seq(S), NEW t \in Seq(S)
  PROVE /\ s \o t \in Seq(S)
        /\ Len(s \o t) = Len(s) + Len(t)
        /\ \A k \in 1 .. Len(s) + Len(t) :
             (s \o t)[k] = IF k <= Len(s) THEN s[k] ELSE t[k - Len(s)]
OBVIOUS

(* Where read_data's locals point is a byte of the file.                   *)
LEMMA Pointed ==
  ASSUME NEW f \in DOMAIN Inodes, NEW q \in Indices, NEW r \in Offsets, NEW p \in Nat,
         p = q * BLOCK_SIZE + r
  PROVE /\ Data[Inodes[f].inode_data[q]][r] = ByteAt(f, p)
        /\ Data[Inodes[f].inode_data[q]][r] \in Bytes
        /\ Inodes[f].inode_data[q] \in DOMAIN Data
        /\ DOMAIN Data \subseteq Nat
<1>1. BLOCK_SIZE \in Nat \ {0} /\ INODE_DB \in Nat \ {0}
  BY SizesAssumption
<1>2. q \in Int /\ r \in 0 .. BLOCK_SIZE - 1
  BY <1>1 DEF Indices, Offsets
<1>3. p \div BLOCK_SIZE = q /\ p % BLOCK_SIZE = r
  BY <1>1, <1>2, Quotient
<1>4. Inodes[f].inode_data[q] \in DOMAIN Data
  BY ImageAssumption
<1>5. QED
  BY <1>3, <1>4, ImageAssumption DEF ByteAt, Bytes

FileInv == TypeOK /\ CopyInv /\ ReadInv /\ BytesInOrder

(* Setting the locals of read_data establishes what its loop maintains.    *)
LEMMA Started ==
  ASSUME NEW what, NEW f \in DOMAIN Inodes, NEW from \in Nat, NEW n \in Nat,
         Readable(f), from \div BLOCK_SIZE < INODE_DB,
         StartReading(what, f, from, n)
  PROVE /\ CopyInv'
        /\ inode' \in Nat /\ offset' \in Nat /\ length' \in Nat
        /\ bytes_read' \in Nat /\ j' \in Nat /\ block_off' \in Int /\ block_num' \in Nat
        /\ buf' \in Seq(Bytes)
        /\ inode' \in DOMAIN Inodes /\ Readable(inode') /\ block_num' \in DOMAIN Data
        /\ pc' = "copy" /\ call' = what /\ index' = index
<1> DEFINE q == from \div BLOCK_SIZE
           m == from % BLOCK_SIZE
<1>1. BLOCK_SIZE \in Nat \ {0} /\ INODE_DB \in Nat \ {0}
  BY SizesAssumption
<1>2. /\ q \in Nat /\ m \in 0 .. BLOCK_SIZE - 1
      /\ from = q * BLOCK_SIZE + m
  BY <1>1, Division
<1>3. q \in Indices
  BY <1>1, <1>2 DEF Indices
<1>4. Inodes[f].inode_data[q] \in DOMAIN Data /\ DOMAIN Data \subseteq Nat /\ DOMAIN Inodes \subseteq Nat
  BY <1>3, ImageAssumption
<1>5. /\ inode' = f /\ offset' = from /\ length' = n /\ bytes_read' = 0 /\ j' = 0 /\ buf' = <<>>
      /\ block_num' = Inodes[f].inode_data[q] /\ block_off' = m
      /\ pc' = "copy" /\ call' = what /\ index' = index
  BY DEF StartReading, nameVars
<1>6. q + 0 = q
  BY <1>2
<1> HIDE DEF q, m
<1>7. block_off' = from - q * BLOCK_SIZE /\ block_off' + 0 \in 0 .. BLOCK_SIZE
  <2> DEFINE first == q * BLOCK_SIZE
  <2>1. first \in Int
    BY <1>1, <1>2
  <2>2. from = first + m /\ m \in 0 .. BLOCK_SIZE - 1 /\ block_off' = m
    BY <1>2, <1>5
  <2>3. block_off' = from - first /\ block_off' + 0 \in 0 .. BLOCK_SIZE
    <3> HIDE DEF first
    <3>1. QED
      BY <1>1, <2>1, <2>2
  <2>4. QED
    BY <2>3
<1>8. Len(buf') = 0 /\ buf' \in Seq(Bytes)
  BY <1>5
<1>9. CopyInv'
  BY <1>2, <1>3, <1>5, <1>6, <1>7, <1>8 DEF CopyInv, q
<1>10. QED
  BY <1>1, <1>2, <1>4, <1>5, <1>8, <1>9

(* Returning to the caller leaves nothing to maintain.                     *)
LEMMA Returned ==
  ASSUME NEW what, NEW ret, NEW data, Return(what, ret, data)
  PROVE LocalsOK' /\ CopyInv' /\ ReadInv'
<1>1. /\ pc' = "user" /\ call' = "none" /\ index' = 0
      /\ inode' = 0 /\ offset' = 0 /\ length' = 0
      /\ bytes_read' = 0 /\ j' = 0 /\ block_off' = 0 /\ block_num' = 0 /\ buf' = <<>>
  BY DEF Return
<1>2. LocalsOK'
  BY <1>1 DEF LocalsOK
<1>3. QED
  BY <1>1, <1>2 DEF CopyInv, ReadInv

(* With the descriptors unchanged, or those that are files left alone.     *)
LEMMA SameTables ==
  ASSUME TablesOK, BytesInOrder, UNCHANGED <<fd_table, seen>>
  PROVE TablesOK' /\ BytesInOrder'
BY DEF TablesOK, BytesInOrder, Is

LEMMA Looking ==
  ASSUME FileInv, NEW what \in {"open", "exec"}, NEW name, LookUp(what, name)
  PROVE FileInv'
<1>1. TablesOK' /\ BytesInOrder'
  BY SameTables DEF FileInv, TypeOK, LookUp
<1>2. CASE Return(what, -1, Asked(what, name))
  BY <1>1, <1>2, Returned DEF FileInv, TypeOK
<1>3. CASE /\ pc' = "lookup" /\ call' = what
           /\ fname' = name /\ index' = 1
           /\ UNCHANGED <<fd, argVars, loopVars, answer>>
  <2>1. LocalsOK'
    BY <1>3 DEF FileInv, TypeOK, LocalsOK, argVars, loopVars
  <2>2. CopyInv' /\ ReadInv'
    BY <1>3 DEF CopyInv, ReadInv
  <2>3. QED
    BY <1>1, <2>1, <2>2 DEF FileInv, TypeOK
<1>4. QED
  BY <1>2, <1>3 DEF LookUp

LEMMA NotThisOne ==
  ASSUME FileInv, NoMatch
  PROVE FileInv'
<1>1. TablesOK' /\ BytesInOrder'
  BY SameTables DEF FileInv, TypeOK, NoMatch
<1>2. CASE Return(call, -1, Asked(call, fname))
  BY <1>1, <1>2, Returned DEF FileInv, TypeOK
<1>3. CASE /\ index \in DOMAIN Dentries
           /\ index' = index + 1
           /\ UNCHANGED <<pc, call, fname, fd, argVars, loopVars, answer>>
  <2>1. pc' = "lookup"
    BY <1>3 DEF NoMatch
  <2>2. LocalsOK'
    BY <1>3, <2>1 DEF FileInv, TypeOK, LocalsOK, argVars, loopVars
  <2>3. CopyInv' /\ ReadInv'
    BY <2>1 DEF CopyInv, ReadInv
  <2>4. QED
    BY <1>1, <2>2, <2>3 DEF FileInv, TypeOK
<1>4. QED
  BY <1>2, <1>3 DEF NoMatch

LEMMA Opened ==
  ASSUME FileInv, OpenFound
  PROVE FileInv'
<1>1. CASE Free = {} /\ Return("open", -1, fname) /\ UNCHANGED <<fd_table, seen>>
  BY <1>1, Returned, SameTables DEF FileInv, TypeOK
<1>2. CASE \E f \in Free :
             /\ fd_table' = With(fd_table, f, [entry |-> index,
                                               type |-> Dentries[index].type,
                                               inode |-> Dentries[index].inode,
                                               file_position |-> 0])
             /\ seen' = With(seen, f, <<>>)
             /\ Return("open", f, fname)
  <2> DEFINE new == [entry |-> index, type |-> Dentries[index].type,
                     inode |-> Dentries[index].inode, file_position |-> 0]
  <2>1. PICK f \in Free : /\ fd_table' = With(fd_table, f, new)
                          /\ seen' = With(seen, f, <<>>)
                          /\ Return("open", f, fname)
    BY <1>2
  <2>2. index \in DOMAIN Dentries
    BY DEF OpenFound
  <2>3. new \in Descriptors
    BY <2>2, ImageAssumption DEF Descriptors
  <2>4. f \in Fds
    BY DEF Free
  <2>5. /\ DOMAIN fd_table' = DOMAIN fd_table \cup {f} /\ DOMAIN seen' = DOMAIN fd_table'
        /\ \A g \in DOMAIN fd_table' :
             /\ fd_table'[g] = IF g = f THEN new ELSE fd_table[g]
             /\ seen'[g] = IF g = f THEN <<>> ELSE seen[g]
    BY <2>1 DEF With, FileInv, TypeOK, TablesOK
  <2> HIDE DEF new
  <2>6. fd_table' = [g \in DOMAIN fd_table' |-> IF g = f THEN new ELSE fd_table[g]]
    BY <2>1, <2>5 DEF With
  <2>7. TablesOK'
    <3>1. fd_table' \in [DOMAIN fd_table' -> Descriptors] /\ DOMAIN fd_table' \subseteq Fds
      BY <2>3, <2>4, <2>5, <2>6 DEF FileInv, TypeOK, TablesOK
    <3>2. ASSUME NEW g \in DOMAIN seen'
          PROVE seen'[g] \in Seq(IF Is(g, "dir")' THEN EntryNames ELSE Bytes)
      <4>1. CASE g = f
        <5>1. <<>> \in Seq(EntryNames) /\ <<>> \in Seq(Bytes)
          OBVIOUS
        <5>2. seen'[g] = <<>>
          BY <2>5, <3>2, <4>1
        <5>3. QED
          BY <5>1, <5>2
      <4>2. CASE g # f
        BY <2>5, <3>2, <4>2 DEF FileInv, TypeOK, TablesOK, Is
      <4>3. QED
        BY <4>1, <4>2
    <3>3. QED
      BY <2>5, <3>1, <3>2 DEF TablesOK
  <2>8. BytesInOrder'
    <3>1. SUFFICES ASSUME NEW g \in DOMAIN fd_table', Is(g, "file")', Promised(fd_table'[g].inode)
                   PROVE /\ Len(seen'[g]) = fd_table'[g].file_position
                         /\ Len(seen'[g]) <= Inodes[fd_table'[g].inode].length
                         /\ \A k \in 1 .. Len(seen'[g]) :
                              seen'[g][k] = ByteAt(fd_table'[g].inode, k - 1)
      BY DEF BytesInOrder
    <3>2. CASE g = f
      <4>1. seen'[g] = <<>> /\ fd_table'[g].file_position = 0
            /\ fd_table'[g].inode \in DOMAIN Inodes
        BY <2>2, <2>5, <3>1, <3>2, ImageAssumption DEF new, Promised, InodeNumbers
      <4>2. Inodes[fd_table'[g].inode].length >= 0
        BY <4>1, SizesAssumption, ImageAssumption DEF MaxLength
      <4>3. QED
        BY <4>1, <4>2
    <3>3. CASE g # f
      BY <2>5, <3>1, <3>3 DEF FileInv, BytesInOrder, Is
    <3>4. QED
      BY <3>2, <3>3
  <2>9. QED
    BY <2>1, <2>7, <2>8, Returned DEF FileInv, TypeOK
<1>3. QED
  BY <1>1, <1>2 DEF OpenFound

LEMMA Closed ==
  ASSUME FileInv, NEW f \in Fds, Close(f)
  PROVE FileInv'
<1>1. LocalsOK' /\ CopyInv' /\ ReadInv'
  BY Returned DEF Close
<1>2. /\ DOMAIN fd_table' = DOMAIN fd_table \ {f} /\ DOMAIN seen' = DOMAIN fd_table'
      /\ \A g \in DOMAIN fd_table' : fd_table'[g] = fd_table[g] /\ seen'[g] = seen[g]
      /\ fd_table' = [g \in DOMAIN fd_table' |-> fd_table[g]]
  BY DEF Close, Without, FileInv, TypeOK, TablesOK
<1>3. TablesOK'
  BY <1>2 DEF FileInv, TypeOK, TablesOK, Is
<1>4. BytesInOrder'
  BY <1>2 DEF FileInv, BytesInOrder, Is
<1>5. QED
  BY <1>1, <1>3, <1>4 DEF FileInv, TypeOK

LEMMA DirectoryRead ==
  ASSUME FileInv, NEW f \in Fds, DirRead(f)
  PROVE FileInv'
<1>1. f \in DOMAIN fd_table /\ Is(f, "dir")
  BY DEF DirRead, Is
<1>2. PICK n \in Nat, s \in Seq(EntryNames) :
        /\ fd_table' = [fd_table EXCEPT ![f].file_position = n]
        /\ seen' = [seen EXCEPT ![f] = s]
        /\ \E ret, data : Return("list", ret, data)
  <2> DEFINE position == fd_table[f].file_position
  <2>1. position \in Nat /\ seen[f] \in Seq(EntryNames) /\ fd_table[f] \in Descriptors
    BY <1>1 DEF FileInv, TypeOK, TablesOK, Descriptors
  <2>2. CASE position < Len(Dentries)
    <3>1. Dentries[position + 1].name \in EntryNames
      BY <2>1, <2>2, ImageAssumption DEF EntryNames
    <3>2. Append(seen[f], Dentries[position + 1].name) \in Seq(EntryNames)
      BY <2>1, <3>1, AppendTo
    <3>3. /\ fd_table' = [fd_table EXCEPT ![f].file_position = position + 1]
          /\ seen' = [seen EXCEPT ![f] = Append(seen[f], Dentries[position + 1].name)]
          /\ Return("list", Len(Dentries[position + 1].name), Dentries[position + 1].name)
      BY <2>1, <2>2 DEF DirRead
    <3>4. position + 1 \in Nat
      BY <2>1
    <3>5. \E ret, data : Return("list", ret, data)
      BY <3>3
    <3> HIDE DEF position
    <3>6. QED
      BY <3>2, <3>3, <3>4, <3>5
  <2>3. CASE ~(position < Len(Dentries))
    <3>1. <<>> \in Seq(EntryNames) /\ 0 \in Nat
      OBVIOUS
    <3>2. QED
      BY <2>1, <2>3, <3>1 DEF DirRead
  <2>4. QED
    BY <2>2, <2>3
<1>3. LocalsOK' /\ CopyInv' /\ ReadInv'
  BY <1>2, Returned
<1>4. /\ DOMAIN fd_table' = DOMAIN fd_table /\ DOMAIN seen' = DOMAIN fd_table
      /\ seen'[f] = s
      /\ \A g \in DOMAIN fd_table : g # f => fd_table'[g] = fd_table[g] /\ seen'[g] = seen[g]
  <2>1. DOMAIN fd_table' = DOMAIN fd_table
        /\ \A g \in DOMAIN fd_table : g # f => fd_table'[g] = fd_table[g]
    BY <1>2 DEF FileInv, TypeOK, TablesOK
  <2>2. DOMAIN seen' = DOMAIN seen /\ \A g \in DOMAIN seen : g # f => seen'[g] = seen[g]
    BY <1>2
  <2>3. DOMAIN seen = DOMAIN fd_table
    BY DEF FileInv, TypeOK, TablesOK
  <2>4. seen'[f] = s
    BY <1>1, <1>2, <2>3
  <2>5. QED
    BY <2>1, <2>2, <2>3, <2>4
<1>5. /\ fd_table' \in [DOMAIN fd_table -> Descriptors]
      /\ \A g \in DOMAIN fd_table : fd_table'[g].type = fd_table[g].type
  BY <1>1, <1>2 DEF FileInv, TypeOK, TablesOK, Descriptors
<1>6. TablesOK'
  BY <1>1, <1>2, <1>4, <1>5 DEF FileInv, TypeOK, TablesOK, Is
<1>7. BytesInOrder'
  <2>1. ~Is(f, "file")'
    BY <1>1, <1>4, <1>5 DEF Is
  <2>2. QED
    BY <1>4, <2>1 DEF FileInv, BytesInOrder, Is
<1>8. QED
  BY <1>3, <1>6, <1>7 DEF FileInv, TypeOK

(* A read that begins, for a program or for execute.                       *)
LEMMA Begun ==
  ASSUME FileInv, NEW what \in {"exec", "read", "entry", "load"},
         NEW f \in DOMAIN Inodes, NEW from \in Nat, NEW n \in Nat,
         Readable(f), from \div BLOCK_SIZE < INODE_DB,
         StartReading(what, f, from, n),
         UNCHANGED <<fd_table, seen>>,
         what = "read" => /\ Is(fd', "file")
                          /\ f = fd_table[fd'].inode
                          /\ from = fd_table[fd'].file_position
  PROVE FileInv'
<1>1. TablesOK' /\ BytesInOrder'
  BY SameTables DEF FileInv, TypeOK
<1>2. CopyInv'
  BY Started
<1>3. LocalsOK'
  <2>1. index' \in Nat
    BY Started DEF FileInv, TypeOK, LocalsOK
  <2>2. QED
    BY Started, <2>1 DEF LocalsOK
<1>4. ReadInv'
  BY DEF StartReading, ReadInv, Is
<1>5. QED
  BY <1>1, <1>2, <1>3, <1>4 DEF FileInv, TypeOK

LEMMA ReadBegun ==
  ASSUME FileInv, NEW f \in Fds, NEW n \in Requests, ReadFile(f, n)
  PROVE FileInv'
<1>1. Is(f, "file") /\ f \in DOMAIN fd_table /\ fd_table[f] \in Descriptors
  BY DEF ReadFile, Is, FileInv, TypeOK, TablesOK
<1>2. /\ fd_table[f].inode \in DOMAIN Inodes /\ Readable(fd_table[f].inode)
      /\ fd_table[f].file_position \in Nat /\ n \in Nat
  BY <1>1, SizesAssumption DEF Descriptors, InodeNumbers, ReadFile
<1>3. /\ fd_table[f].file_position \div BLOCK_SIZE < INODE_DB
      /\ StartReading("read", fd_table[f].inode, fd_table[f].file_position, n)
      /\ fd' = f
      /\ UNCHANGED <<fd_table, seen>>
  BY DEF ReadFile
<1>4. QED
  BY <1>1, <1>2, <1>3, Begun

(* Positions inside an inode, and the first one.                           *)
LEMMA IndexBelow ==
  ASSUME NEW p \in Nat, p < MaxLength
  PROVE p \div BLOCK_SIZE < INODE_DB
<1> DEFINE q == p \div BLOCK_SIZE
           m == p % BLOCK_SIZE
<1>1. BLOCK_SIZE \in Nat \ {0} /\ INODE_DB \in Nat \ {0}
  BY SizesAssumption
<1>2. q \in Nat /\ m \in 0 .. BLOCK_SIZE - 1 /\ p = q * BLOCK_SIZE + m
  BY <1>1, Division
<1> HIDE DEF q, m
<1>3. q * BLOCK_SIZE \in Int /\ MaxLength \in Int
  BY <1>1, <1>2 DEF MaxLength
<1>4. q * BLOCK_SIZE < MaxLength
  BY <1>1, <1>2, <1>3
<1>5. q \in Indices
  BY <1>2, <1>4, BeforeMaximum
<1>6. q < INODE_DB
  BY <1>1, <1>5 DEF Indices
<1>7. QED
  BY <1>6 DEF q

LEMMA Positive == 0 < MaxLength
<1>1. BLOCK_SIZE \in Nat \ {0} /\ INODE_DB \in Nat \ {0}
  BY SizesAssumption
<1>2. INODE_DB * BLOCK_SIZE >= 0 * BLOCK_SIZE + BLOCK_SIZE
  BY <1>1, NextMultiple
<1>3. MaxLength = INODE_DB * BLOCK_SIZE /\ 0 * BLOCK_SIZE = 0
  BY <1>1 DEF MaxLength
<1>4. QED
  BY <1>1, <1>2, <1>3

LEMMA ExecuteReads ==
  ASSUME FileInv, ReadMagic \/ ReadEntry \/ LoadProg
  PROVE FileInv'
<1>1. 0 \div BLOCK_SIZE < INODE_DB /\ ENTRY_OFF \div BLOCK_SIZE < INODE_DB
  BY Positive, IndexBelow, SizesAssumption
<1>2. CASE ReadMagic
  <2>1. Dentries[index].inode \in DOMAIN Inodes /\ Readable(Dentries[index].inode)
    BY <1>2, ImageAssumption DEF ReadMagic, InodeNumbers
  <2>2. /\ StartReading("exec", Dentries[index].inode, 0, Len(MAGIC))
        /\ UNCHANGED <<fd_table, seen>>
    BY <1>2 DEF ReadMagic
  <2>3. QED
    BY <1>1, <2>1, <2>2, Begun, SizesAssumption
<1>3. CASE ReadEntry
  <2>1. inode \in DOMAIN Inodes /\ Readable(inode)
    BY <1>3 DEF ReadEntry, Copied, FileInv, TypeOK, LocalsOK
  <2>2. StartReading("entry", inode, ENTRY_OFF, ENTRY_SIZE) /\ UNCHANGED <<fd_table, seen>>
    BY <1>3 DEF ReadEntry
  <2>3. QED
    BY <1>1, <2>1, <2>2, Begun, SizesAssumption
<1>4. CASE LoadProg
  <2>1. inode \in DOMAIN Inodes /\ Readable(inode)
    BY <1>4 DEF LoadProg, Copied, FileInv, TypeOK, LocalsOK
  <2>2. StartReading("load", inode, 0, PAGE_SIZE) /\ UNCHANGED <<fd_table, seen>>
    BY <1>4 DEF LoadProg
  <2>3. QED
    BY <1>1, <2>1, <2>2, Begun, SizesAssumption
<1>5. QED
  BY <1>2, <1>3, <1>4

(* Calls that only return.                                                 *)
LEMMA OnlyReturned ==
  ASSUME FileInv, UNCHANGED <<fd_table, seen>>, \E what, ret, data : Return(what, ret, data)
  PROVE FileInv'
BY Returned, SameTables DEF FileInv, TypeOK

(* A read that fails is of a file of which nothing is promised.            *)
LEMMA FailsUnpromised ==
  ASSUME FileInv, NEW f \in Fds, ReadFailed(f)
  PROVE ~Promised(fd_table[f].inode)
<1> DEFINE p == fd_table[f].file_position
<1>1. SUFFICES ASSUME Promised(fd_table[f].inode) PROVE FALSE
  OBVIOUS
<1>2. /\ Is(f, "file") /\ f \in DOMAIN fd_table /\ fd_table[f] \in Descriptors
      /\ p \in Nat /\ fd_table[f].inode \in DOMAIN Inodes
  BY <1>1 DEF ReadFailed, Is, FileInv, TypeOK, TablesOK, Descriptors, InodeNumbers, Promised
<1>3. BLOCK_SIZE \in Nat \ {0} /\ INODE_DB \in Nat \ {0} /\ MaxLength \in Int
  BY SizesAssumption DEF MaxLength
<1>4. p >= MaxLength
  <2>1. p \div BLOCK_SIZE >= INODE_DB /\ p \div BLOCK_SIZE \in Nat
    BY <1>1, <1>2, <1>3, Division DEF ReadFailed, Promised
  <2>2. p < MaxLength => p \div BLOCK_SIZE < INODE_DB
    BY <1>2, IndexBelow
  <2>3. QED
    BY <1>2, <1>3, <2>1, <2>2
<1>5. p <= Inodes[fd_table[f].inode].length
  BY <1>1, <1>2 DEF FileInv, BytesInOrder
<1>6. Inodes[fd_table[f].inode].length < MaxLength /\ Inodes[fd_table[f].inode].length \in Int
  BY <1>1, <1>2, <1>3, ImageAssumption DEF Promised
<1>7. QED
  BY <1>2, <1>3, <1>4, <1>5, <1>6

(* The error of a read, which the longest files meet and those that are    *)
(* not read.                                                               *)
LEMMA Failed ==
  ASSUME FileInv, NEW f \in Fds, ReadFailed(f)
  PROVE FileInv'
<1> DEFINE p == (fd_table[f].file_position - 1) % POSITIONS
<1>1. /\ Is(f, "file") /\ f \in DOMAIN fd_table /\ fd_table[f] \in Descriptors
      /\ fd_table[f].file_position \in Nat
  BY DEF ReadFailed, Is, FileInv, TypeOK, TablesOK, Descriptors
<1>2. POSITIONS \in Nat \ {0}
  BY SizesAssumption, Positive DEF MaxLength
<1>3. p \in Nat
  BY <1>1, <1>2
<1>4. ~Promised(fd_table[f].inode)
  BY FailsUnpromised
<1>5. /\ fd_table' = [fd_table EXCEPT ![f].file_position = p]
      /\ Return("read", -1, <<>>)
      /\ seen' = seen
  BY DEF ReadFailed
<1>6. /\ fd_table' \in [DOMAIN fd_table -> Descriptors]
      /\ \A g \in DOMAIN fd_table :
           fd_table'[g].type = fd_table[g].type /\ fd_table'[g].inode = fd_table[g].inode
      /\ \A g \in DOMAIN fd_table : g # f => fd_table'[g] = fd_table[g]
  <2>1. fd_table \in [DOMAIN fd_table -> Descriptors]
    BY DEF FileInv, TypeOK, TablesOK
  <2> HIDE DEF p
  <2>2. QED
    BY <1>1, <1>3, <1>5, <2>1 DEF Descriptors
<1> HIDE DEF p
<1>7. TablesOK'
  BY <1>5, <1>6 DEF FileInv, TypeOK, TablesOK, Is
<1>8. BytesInOrder'
  <2>1. SUFFICES ASSUME NEW g \in DOMAIN fd_table', Is(g, "file")', Promised(fd_table'[g].inode)
                 PROVE /\ Len(seen'[g]) = fd_table'[g].file_position
                       /\ Len(seen'[g]) <= Inodes[fd_table'[g].inode].length
                       /\ \A k \in 1 .. Len(seen'[g]) :
                            seen'[g][k] = ByteAt(fd_table'[g].inode, k - 1)
    BY DEF BytesInOrder, Promised
  <2>2. g # f
    BY <1>4, <1>6, <2>1
  <2>3. QED
    BY <1>5, <1>6, <2>1, <2>2 DEF FileInv, BytesInOrder, Is
<1>9. QED
  BY <1>5, <1>7, <1>8, Returned DEF FileInv, TypeOK

(* One byte: whichever block it is taken from, it is the next of the file. *)
LEMMA ByteCopied ==
  ASSUME FileInv, CopyByte
  PROVE FileInv'
<1> DEFINE d == offset \div BLOCK_SIZE
           q == d + j
           p == offset + bytes_read
<1>1. BLOCK_SIZE \in Nat \ {0} /\ INODE_DB \in Nat \ {0} /\ MaxLength \in Int
  BY SizesAssumption DEF MaxLength
<1>2. /\ pc = "copy" /\ inode \in DOMAIN Inodes /\ offset \in Nat /\ length \in Nat
      /\ bytes_read \in Nat /\ j \in Nat /\ block_off \in Int /\ buf \in Seq(Bytes)
      /\ d \in Nat /\ p \in Nat /\ q \in Nat
      /\ bytes_read < length /\ p < Inodes[inode].length
  <2>1. /\ pc = "copy" /\ inode \in DOMAIN Inodes /\ offset \in Nat /\ length \in Nat
        /\ bytes_read \in Nat /\ j \in Nat /\ block_off \in Int /\ buf \in Seq(Bytes)
        /\ bytes_read < length /\ p < Inodes[inode].length
    BY DEF FileInv, TypeOK, LocalsOK, CopyByte
  <2>2. d \in Nat
    BY <1>1, <2>1, Division
  <2>3. p \in Nat /\ q \in Nat
    BY <2>1, <2>2
  <2>4. QED
    BY <2>1, <2>2, <2>3
<1>3. /\ block_off = offset - q * BLOCK_SIZE
      /\ block_off + bytes_read \in 0 .. BLOCK_SIZE
      /\ q \in Indices
      /\ block_num = Inodes[inode].inode_data[q]
      /\ Len(buf) = bytes_read
      /\ \A k \in 1 .. bytes_read : buf[k] = ByteAt(inode, offset + k - 1)
  BY <1>2 DEF FileInv, CopyInv
<1>4. Inodes[inode].length \in Int /\ Inodes[inode].length <= MaxLength
  BY <1>1, <1>2, ImageAssumption
<1>5. /\ pc' = pc /\ call' = call /\ index' = index /\ fd' = fd
      /\ inode' = inode /\ offset' = offset /\ length' = length
      /\ bytes_read' = bytes_read + 1
      /\ buf' = Append(buf, Data[block_num'][block_off' + bytes_read])
      /\ UNCHANGED <<fd_table, seen>>
  BY DEF CopyByte, nameVars, argVars
<1>6. PICK r \in Indices, o \in Offsets :
        /\ d + j' = r
        /\ block_num' = Inodes[inode].inode_data[r]
        /\ block_off' = offset - r * BLOCK_SIZE
        /\ block_off' + bytes_read = o
        /\ p = r * BLOCK_SIZE + o
        /\ j' \in Nat
  <2> HIDE DEF d
  <2>1. q * BLOCK_SIZE \in Int /\ (q + 1) * BLOCK_SIZE = q * BLOCK_SIZE + BLOCK_SIZE
    BY <1>1, <1>2
  <2>2. CASE block_off + bytes_read < BLOCK_SIZE
    <3>1. block_off' = block_off /\ block_num' = block_num /\ j' = j
      BY <1>1, <1>2, <2>2 DEF CopyByte
    <3>2. block_off + bytes_read \in Offsets
      BY <1>1, <1>2, <1>3, <2>2 DEF Offsets
    <3>3. p = q * BLOCK_SIZE + (block_off + bytes_read)
      <4> DEFINE first == q * BLOCK_SIZE
      <4>1. first \in Int
        BY <2>1
      <4>2. block_off = offset - first
        BY <1>3
      <4>3. offset \in Nat /\ bytes_read \in Nat
        BY <1>2
      <4>4. p = first + (block_off + bytes_read)
        <5> HIDE DEF first
        <5>1. QED
          BY <4>1, <4>2, <4>3
      <4>5. QED
        BY <4>4
    <3>4. QED
      BY <1>2, <1>3, <3>1, <3>2, <3>3
  <2>3. CASE block_off + bytes_read >= BLOCK_SIZE
    <3>1. block_off + bytes_read = BLOCK_SIZE
      BY <1>1, <1>2, <1>3, <2>3
    <3>2. p = (q + 1) * BLOCK_SIZE
      BY <1>1, <1>2, <1>3, <2>1, <3>1
    <3>3. (q + 1) * BLOCK_SIZE < MaxLength
      BY <1>1, <1>2, <1>4, <3>2
    <3>4. q + 1 \in Indices
      BY <1>2, <3>3, BeforeMaximum
    <3>5. /\ j' = j + 1 /\ block_off' = -bytes_read
          /\ block_num' = Inodes[inode].inode_data[d + j']
      BY <1>1, <1>2, <2>3 DEF CopyByte, d
    <3>6. d + j' = q + 1
      BY <1>2, <3>5
    <3>7. block_off' = offset - (q + 1) * BLOCK_SIZE /\ block_off' + bytes_read = 0
      BY <1>2, <3>2, <3>5
    <3>8. 0 \in Offsets /\ p = (q + 1) * BLOCK_SIZE + 0
      BY <1>1, <1>2, <3>2 DEF Offsets
    <3>9. QED
      BY <1>2, <3>4, <3>5, <3>6, <3>7, <3>8
  <2>4. QED
    BY <1>1, <1>2, <2>2, <2>3
<1>7. /\ Data[block_num'][o] = ByteAt(inode, p) /\ Data[block_num'][o] \in Bytes
      /\ block_num' \in DOMAIN Data /\ block_num' \in Nat
  BY <1>2, <1>6, Pointed
<1>8. /\ buf' \in Seq(Bytes) /\ Len(buf') = bytes_read + 1
      /\ \A k \in 1 .. bytes_read : buf'[k] = buf[k]
      /\ buf'[bytes_read + 1] = ByteAt(inode, p)
  <2> DEFINE x == Data[block_num'][o]
  <2>1. buf' = Append(buf, x) /\ x \in Bytes /\ x = ByteAt(inode, p)
    BY <1>5, <1>6, <1>7
  <2> HIDE DEF x
  <2>2. /\ Append(buf, x) \in Seq(Bytes) /\ Len(Append(buf, x)) = Len(buf) + 1
        /\ \A k \in 1 .. Len(buf) : Append(buf, x)[k] = buf[k]
        /\ Append(buf, x)[Len(buf) + 1] = x
    BY <1>2, <2>1, AppendTo
  <2>3. Len(buf) = bytes_read
    BY <1>3
  <2>4. QED
    BY <2>1, <2>2, <2>3
<1>9. block_off' \in Int /\ block_off' + (bytes_read + 1) \in 0 .. BLOCK_SIZE
  <2>1. o \in 0 .. BLOCK_SIZE - 1 /\ block_off' = o - bytes_read
    <3>1. o \in Int /\ r \in Int
      BY <1>1, <1>6 DEF Offsets, Indices
    <3>2. r * BLOCK_SIZE \in Int
      BY <1>1, <3>1
    <3>3. block_off' \in Int
      BY <1>2, <1>6, <3>2
    <3>4. QED
      BY <1>1, <1>2, <1>6, <3>1, <3>3 DEF Offsets
  <2>2. QED
    BY <1>1, <1>2, <2>1
<1>10. \A k \in 1 .. bytes_read + 1 : buf'[k] = ByteAt(inode, offset + k - 1)
  <2>1. SUFFICES ASSUME NEW k \in 1 .. bytes_read + 1
                 PROVE buf'[k] = ByteAt(inode, offset + k - 1)
    OBVIOUS
  <2>2. CASE k \in 1 .. bytes_read
    BY <1>3, <1>8, <2>2
  <2>3. CASE k = bytes_read + 1
    <3>1. offset + k - 1 = p
      BY <1>2, <2>3
    <3>2. QED
      BY <1>8, <2>3, <3>1
  <2>4. QED
    BY <1>2, <2>2, <2>3
<1>11. CopyInv'
  <2>1. bytes_read + 1 <= length /\ offset + (bytes_read + 1) <= Inodes[inode].length
    BY <1>2, <1>4
  <2> HIDE DEF q
  <2>2. QED
    BY <1>5, <1>6, <1>8, <1>9, <1>10, <2>1 DEF CopyInv
<1>12. LocalsOK'
  <2>1. index \in Nat /\ call \in {"exec", "read", "entry", "load"}
    BY <1>2 DEF FileInv, TypeOK, LocalsOK
  <2>2. inode \in Nat /\ Readable(inode) /\ bytes_read + 1 \in Nat
    BY <1>2, ImageAssumption DEF FileInv, TypeOK, LocalsOK
  <2> HIDE DEF d, q, p
  <2>3. QED
    BY <1>2, <1>5, <1>6, <1>7, <1>8, <1>9, <2>1, <2>2 DEF LocalsOK
<1>13. TablesOK' /\ BytesInOrder'
  BY <1>5, SameTables DEF FileInv, TypeOK
<1>14. ReadInv'
  BY <1>5 DEF FileInv, ReadInv, Is
<1>15. QED
  BY <1>11, <1>12, <1>13, <1>14 DEF FileInv, TypeOK

(* What was copied goes after what was read before.                        *)
LEMMA Read ==
  ASSUME FileInv, FileRead
  PROVE FileInv'
<1> DEFINE f == fd
           n == bytes_read
           old == seen[f]
<1>1. /\ Is(f, "file") /\ f \in DOMAIN fd_table /\ fd_table[f] \in Descriptors
      /\ inode = fd_table[f].inode /\ offset = fd_table[f].file_position
      /\ inode \in DOMAIN Inodes
  BY DEF FileRead, Copied, FileInv, ReadInv, Is, TypeOK, TablesOK, LocalsOK
<1>2. /\ n \in Nat /\ offset \in Nat /\ buf \in Seq(Bytes)
      /\ Len(buf) = n
      /\ n > 0 => offset + n <= Inodes[inode].length
      /\ \A k \in 1 .. n : buf[k] = ByteAt(inode, offset + k - 1)
  BY DEF FileRead, Copied, FileInv, CopyInv, TypeOK, LocalsOK
<1>3. old \in Seq(Bytes)
  <2>1. ~Is(f, "dir")
    BY <1>1 DEF Is
  <2>2. QED
    BY <1>1, <2>1 DEF FileInv, TypeOK, TablesOK
<1>4. /\ fd_table' = [fd_table EXCEPT ![f].file_position = offset + n]
      /\ seen' = [seen EXCEPT ![f] = old \o buf]
      /\ Return("read", n, buf)
  BY <1>1 DEF FileRead
<1>5. old \o buf \in Seq(Bytes)
  BY <1>2, <1>3, Concatenate
<1>6. ASSUME Promised(inode)
      PROVE /\ Len(old \o buf) = offset + n
            /\ offset + n <= Inodes[inode].length
            /\ \A k \in 1 .. offset + n : (old \o buf)[k] = ByteAt(inode, k - 1)
  <2>1. /\ Len(old) = offset
        /\ Len(old) <= Inodes[inode].length
        /\ \A k \in 1 .. offset : old[k] = ByteAt(inode, k - 1)
    BY <1>1, <1>6 DEF FileInv, BytesInOrder
  <2>2. /\ Len(old \o buf) = offset + n
        /\ \A k \in 1 .. offset + n :
             (old \o buf)[k] = IF k <= offset THEN old[k] ELSE buf[k - offset]
    <3>1. /\ Len(old \o buf) = Len(old) + Len(buf)
          /\ \A k \in 1 .. Len(old) + Len(buf) :
               (old \o buf)[k] = IF k <= Len(old) THEN old[k] ELSE buf[k - Len(old)]
      BY <1>2, <1>3, Concatenate
    <3> QED
      BY <1>2, <2>1, <3>1
  <2>3. ASSUME NEW k \in 1 .. offset + n
        PROVE (old \o buf)[k] = ByteAt(inode, k - 1)
    <3>1. CASE k <= offset
      <4>1. k \in 1 .. offset
        BY <1>2, <3>1
      <4>2. QED
        BY <2>1, <2>2, <3>1, <4>1
    <3>2. CASE ~(k <= offset)
      <4>1. k - offset \in 1 .. n /\ offset + (k - offset) - 1 = k - 1
        BY <1>2, <3>2
      <4>2. buf[k - offset] = ByteAt(inode, offset + (k - offset) - 1)
        BY <1>2, <4>1
      <4>3. QED
        BY <2>2, <3>2, <4>1, <4>2
    <3>3. QED
      BY <3>1, <3>2
  <2>4. offset + n <= Inodes[inode].length
    <3>1. CASE n = 0
      BY <1>2, <2>1, <3>1
    <3>2. CASE n > 0
      BY <1>2, <3>2
    <3>3. QED
      BY <1>2, <3>1, <3>2
  <2>5. QED
    BY <2>2, <2>3, <2>4
<1>8. /\ DOMAIN seen = DOMAIN fd_table
      /\ DOMAIN fd_table' = DOMAIN fd_table /\ DOMAIN seen' = DOMAIN fd_table
      /\ seen'[f] = old \o buf
      /\ \A g \in DOMAIN fd_table : g # f => fd_table'[g] = fd_table[g] /\ seen'[g] = seen[g]
  <2>1. DOMAIN seen = DOMAIN fd_table /\ fd_table \in [DOMAIN fd_table -> Descriptors]
    BY DEF FileInv, TypeOK, TablesOK
  <2>2. QED
    BY <1>1, <1>4, <2>1
<1>9. /\ fd_table' \in [DOMAIN fd_table -> Descriptors]
      /\ fd_table'[f].inode = inode /\ fd_table'[f].file_position = offset + n
      /\ \A g \in DOMAIN fd_table : fd_table'[g].type = fd_table[g].type
  <2>1. fd_table \in [DOMAIN fd_table -> Descriptors] /\ offset + n \in Nat
    BY <1>2 DEF FileInv, TypeOK, TablesOK
  <2>2. QED
    BY <1>1, <1>4, <2>1 DEF Descriptors
<1> HIDE DEF f, n, old
<1>10. TablesOK'
  <2>1. ASSUME NEW g \in DOMAIN seen'
        PROVE seen'[g] \in Seq(IF Is(g, "dir")' THEN EntryNames ELSE Bytes)
    <3>1. CASE g = f
      <4>1. ~Is(g, "dir")'
        BY <1>1, <1>9, <3>1 DEF Is
      <4>2. QED
        BY <1>5, <1>8, <3>1, <4>1
    <3>2. CASE g # f
      BY <1>8, <1>9, <2>1, <3>2 DEF FileInv, TypeOK, TablesOK, Is
    <3>3. QED
      BY <3>1, <3>2
  <2>2. DOMAIN fd_table \subseteq Fds
    BY DEF FileInv, TypeOK, TablesOK
  <2>3. QED
    BY <1>8, <1>9, <2>1, <2>2 DEF TablesOK
<1>11. BytesInOrder'
  <2>1. SUFFICES ASSUME NEW g \in DOMAIN fd_table', Is(g, "file")', Promised(fd_table'[g].inode)
                 PROVE /\ Len(seen'[g]) = fd_table'[g].file_position
                       /\ Len(seen'[g]) <= Inodes[fd_table'[g].inode].length
                       /\ \A k \in 1 .. Len(seen'[g]) :
                            seen'[g][k] = ByteAt(fd_table'[g].inode, k - 1)
    BY DEF BytesInOrder
  <2>2. CASE g = f
    BY <1>6, <1>8, <1>9, <2>1, <2>2
  <2>3. CASE g # f
    BY <1>8, <1>9, <2>1, <2>3 DEF FileInv, BytesInOrder, Is
  <2>4. QED
    BY <2>2, <2>3
<1>12. QED
  BY <1>4, <1>10, <1>11, Returned DEF FileInv, TypeOK

-----------------------------------------------------------------------------
LEMMA FileInit == Init => FileInv
<1>1. SUFFICES ASSUME Init PROVE FileInv
  OBVIOUS
<1>2. DOMAIN fd_table = {} /\ DOMAIN seen = {} /\ fd_table = <<>>
  BY <1>1 DEF Init
<1>3. TablesOK
  BY <1>2 DEF TablesOK
<1>4. LocalsOK
  BY <1>1 DEF Init, LocalsOK
<1>5. CopyInv /\ ReadInv /\ BytesInOrder
  BY <1>1, <1>2 DEF Init, CopyInv, ReadInv, BytesInOrder
<1>6. QED
  BY <1>3, <1>4, <1>5 DEF FileInv, TypeOK

LEMMA FileStep ==
  ASSUME FileInv, [Next]_vars
  PROVE FileInv'
<1>1. CASE UNCHANGED vars
  BY <1>1 DEF vars, nameVars, argVars, loopVars, FileInv, TypeOK, TablesOK, LocalsOK,
              CopyInv, ReadInv, BytesInOrder, Is
<1>2. CASE \E name \in Names : LookUp("open", name) \/ LookUp("exec", name)
  BY <1>2, Looking
<1>3. CASE NoMatch
  BY <1>3, NotThisOne
<1>4. CASE OpenFound
  BY <1>4, Opened
<1>5. ASSUME NEW f \in Fds, Close(f)
      PROVE FileInv'
  BY <1>5, Closed
<1>6. ASSUME NEW f \in Fds, ReadAbsent(f) \/ Write(f)
      PROVE FileInv'
  <2>1. UNCHANGED <<fd_table, seen>> /\ \E what, ret, data : Return(what, ret, data)
    BY <1>6 DEF ReadAbsent, Write
  <2>2. QED
    BY <2>1, OnlyReturned
<1>7. ASSUME NEW f \in Fds, ReadFailed(f)
      PROVE FileInv'
  BY <1>7, Failed
<1>8. ASSUME NEW f \in Fds, DirRead(f)
      PROVE FileInv'
  BY <1>8, DirectoryRead
<1>9. ASSUME NEW f \in Fds, NEW n \in Requests, ReadFile(f, n)
      PROVE FileInv'
  BY <1>9, ReadBegun
<1>10. CASE CopyByte
  BY <1>10, ByteCopied
<1>11. CASE FileRead
  BY <1>11, Read
<1>12. CASE NotExecutable \/ NotReadable \/ MagicWrong \/ Loaded
  <2>1. UNCHANGED <<fd_table, seen>> /\ \E what, ret, data : Return(what, ret, data)
    BY <1>12 DEF NotExecutable, NotReadable, MagicWrong, Loaded
  <2>2. QED
    BY <2>1, OnlyReturned
<1>13. CASE ReadMagic \/ ReadEntry \/ LoadProg
  BY <1>13, ExecuteReads
<1>14. QED
  BY <1>1, <1>2, <1>3, <1>4, <1>5, <1>6, <1>7, <1>8, <1>9, <1>10, <1>11, <1>12, <1>13 DEF Next

(* Whatever the image and the sizes of blocks and inodes, the bytes read   *)
(* through a descriptor are those of its file (filesystem.c:97-132 and     *)
(* 205-219).                                                               *)
THEOREM FileBytes == Spec => []BytesInOrder
<1>1. Init => FileInv
  BY FileInit
<1>2. FileInv /\ [Next]_vars => FileInv'
  BY FileStep
<1>3. FileInv => BytesInOrder
  BY DEF FileInv
<1>4. QED
  BY <1>1, <1>2, <1>3, PTL DEF Spec

(* Reading never leaves the table of inodes or of blocks                   *)
(* (filesystem.c:97-132).                                                  *)
THEOREM FileTypes == Spec => []TypeOK
<1>1. Init => FileInv
  BY FileInit
<1>2. FileInv /\ [Next]_vars => FileInv'
  BY FileStep
<1>3. FileInv => TypeOK
  BY DEF FileInv
<1>4. QED
  BY <1>1, <1>2, <1>3, PTL DEF Spec

(* The loop of read_data stays inside the inode's indices and the blocks'  *)
(* offsets, and copies the byte it should (filesystem.c:116-130).          *)
THEOREM FileLoop == Spec => []CopyInv
<1>1. Init => FileInv
  BY FileInit
<1>2. FileInv /\ [Next]_vars => FileInv'
  BY FileStep
<1>3. FileInv => CopyInv
  BY DEF FileInv
<1>4. QED
  BY <1>1, <1>2, <1>3, PTL DEF Spec

(* Only reads of the directory touch a listing.                            *)
LEMMA ListingStep ==
  ASSUME FileInv, ListingInOrder, [Next]_vars
  PROVE ListingInOrder'
<1>1. CASE UNCHANGED <<fd_table, seen>>
  BY <1>1 DEF ListingInOrder, Is
<1>2. ASSUME NEW f \in Free, NEW new, new.file_position = 0,
             fd_table' = With(fd_table, f, new), seen' = With(seen, f, <<>>)
      PROVE ListingInOrder'
  <2>1. SUFFICES ASSUME NEW g \in DOMAIN fd_table', Is(g, "dir")'
                 PROVE /\ Len(seen'[g]) = fd_table'[g].file_position
                       /\ \A k \in 1 .. Len(seen'[g]) :
                            k \in DOMAIN Dentries /\ seen'[g][k] = Dentries[k].name
    BY DEF ListingInOrder
  <2>3. CASE g = f
    <3>1. seen'[g] = <<>> /\ fd_table'[g].file_position = 0
      BY <1>2, <2>1, <2>3 DEF With
    <3>2. Len(<<>>) = 0 /\ 1 .. 0 = {}
      OBVIOUS
    <3>3. QED
      BY <3>1, <3>2
  <2>4. CASE g # f
    <3>1. /\ g \in DOMAIN fd_table /\ g \in DOMAIN seen
          /\ fd_table'[g] = fd_table[g] /\ seen'[g] = seen[g]
      BY <1>2, <2>1, <2>4 DEF With, FileInv, TypeOK, TablesOK
    <3>2. QED
      BY <2>1, <3>1 DEF ListingInOrder, Is
  <2>5. QED
    BY <2>3, <2>4
<1>3. ASSUME NEW f \in Fds, Close(f)
      PROVE ListingInOrder'
  BY <1>3 DEF Close, Without, ListingInOrder, Is, FileInv, TypeOK, TablesOK
<1>4. ASSUME NEW f \in Fds, NEW position, Is(f, "file"),
             fd_table' = [fd_table EXCEPT ![f].file_position = position],
             DOMAIN seen' = DOMAIN seen, \A g \in DOMAIN seen : g # f => seen'[g] = seen[g]
      PROVE ListingInOrder'
  <2>1. /\ DOMAIN fd_table' = DOMAIN fd_table /\ DOMAIN seen = DOMAIN fd_table
        /\ \A g \in DOMAIN fd_table : g # f => fd_table'[g] = fd_table[g] /\ seen'[g] = seen[g]
        /\ fd_table'[f].type = "file"
    BY <1>4 DEF FileInv, TypeOK, TablesOK, Is, Descriptors
  <2>2. QED
    BY <2>1 DEF ListingInOrder, Is
<1>5. ASSUME NEW f \in Fds, ReadFailed(f)
      PROVE ListingInOrder'
  BY <1>4, <1>5 DEF ReadFailed
<1>6. CASE FileRead
  <2>1. Is(fd, "file") /\ fd \in Fds
    BY <1>6 DEF FileRead, Copied, FileInv, ReadInv, Is, TypeOK, TablesOK
  <2>2. QED
    BY <1>4, <1>6, <2>1 DEF FileRead
<1>7. ASSUME NEW f \in Fds, DirRead(f)
      PROVE ListingInOrder'
  <2> DEFINE position == fd_table[f].file_position
  <2>1. /\ f \in DOMAIN fd_table /\ f \in DOMAIN seen /\ Is(f, "dir")
        /\ fd_table[f] \in Descriptors /\ position \in Nat
        /\ seen[f] \in Seq(EntryNames)
        /\ Len(seen[f]) = position
        /\ \A k \in 1 .. Len(seen[f]) : k \in DOMAIN Dentries /\ seen[f][k] = Dentries[k].name
    BY <1>7 DEF DirRead, Is, FileInv, TypeOK, TablesOK, Descriptors, ListingInOrder
  <2>2. ASSUME NEW n \in Nat, NEW s,
               fd_table' = [fd_table EXCEPT ![f].file_position = n],
               seen' = [seen EXCEPT ![f] = s],
               Len(s) = n,
               \A k \in 1 .. n : k \in DOMAIN Dentries /\ s[k] = Dentries[k].name
        PROVE ListingInOrder'
    <3>1. /\ DOMAIN fd_table' = DOMAIN fd_table /\ DOMAIN seen = DOMAIN fd_table
          /\ \A g \in DOMAIN fd_table :
               g # f => fd_table'[g] = fd_table[g] /\ seen'[g] = seen[g]
          /\ fd_table'[f].file_position = n /\ seen'[f] = s
      BY <2>1, <2>2 DEF FileInv, TypeOK, TablesOK, Descriptors
    <3> HIDE DEF position
    <3>2. QED
      BY <2>2, <3>1 DEF ListingInOrder, Is
  <2>3. CASE position < Len(Dentries)
    <3> DEFINE name == Dentries[position + 1].name
    <3>1. position + 1 \in DOMAIN Dentries
      BY <2>1, <2>3, ImageAssumption
    <3>2. name \in EntryNames
      BY <3>1 DEF EntryNames
    <3>3. /\ fd_table' = [fd_table EXCEPT ![f].file_position = position + 1]
          /\ seen' = [seen EXCEPT ![f] = Append(seen[f], name)]
      BY <1>7, <2>1, <2>3 DEF DirRead
    <3>4. /\ Len(Append(seen[f], name)) = position + 1
          /\ \A k \in 1 .. position : Append(seen[f], name)[k] = seen[f][k]
          /\ Append(seen[f], name)[position + 1] = name
      BY <2>1, <3>2, AppendTo
    <3>5. ASSUME NEW k \in 1 .. position + 1
          PROVE k \in DOMAIN Dentries /\ Append(seen[f], name)[k] = Dentries[k].name
      <4>1. CASE k = position + 1
        BY <3>1, <3>4, <4>1
      <4>2. CASE k # position + 1
        <5>1. k \in 1 .. position
          BY <2>1, <4>2
        <5>2. QED
          BY <2>1, <3>4, <5>1
      <4>3. QED
        BY <4>1, <4>2
    <3>6. position + 1 \in Nat
      BY <2>1
    <3> HIDE DEF position, name
    <3>7. QED
      BY <2>2, <3>3, <3>4, <3>5, <3>6
  <2>4. CASE ~(position < Len(Dentries))
    <3>1. Len(<<>>) = 0 /\ 1 .. 0 = {} /\ 0 \in Nat
      OBVIOUS
    <3>2. /\ fd_table' = [fd_table EXCEPT ![f].file_position = 0]
          /\ seen' = [seen EXCEPT ![f] = <<>>]
      BY <1>7, <2>1, <2>4 DEF DirRead
    <3>3. QED
      BY <2>2, <3>1, <3>2
  <2>5. QED
    BY <2>3, <2>4
<1>8. CASE OpenFound
  <2> DEFINE new == [entry |-> index, type |-> Dentries[index].type,
                     inode |-> Dentries[index].inode, file_position |-> 0]
  <2>1. \/ UNCHANGED <<fd_table, seen>>
        \/ \E f \in Free : fd_table' = With(fd_table, f, new) /\ seen' = With(seen, f, <<>>)
    BY <1>8 DEF OpenFound
  <2>2. new.file_position = 0
    OBVIOUS
  <2> HIDE DEF new
  <2>3. QED
    BY <1>1, <1>2, <2>1, <2>2
<1>9. \/ UNCHANGED <<fd_table, seen>> \/ OpenFound \/ FileRead
      \/ \E f \in Fds : Close(f) \/ ReadFailed(f) \/ DirRead(f)
  BY DEF Next, vars, LookUp, NoMatch, ReadAbsent, Write, ReadFile, CopyByte, NotExecutable, NotReadable,
         ReadMagic, MagicWrong, ReadEntry, LoadProg, Loaded
<1>10. QED
  BY <1>1, <1>3, <1>5, <1>6, <1>7, <1>8, <1>9

(* Whatever the directory holds, a listing gives its entries once and in   *)
(* order, and starts over only after the last (filesystem.c:139-171).      *)
THEOREM FileListings == Spec => []ListingInOrder
<1>1. Init => ListingInOrder
  BY DEF Init, ListingInOrder
<1>2. Init => FileInv
  BY FileInit
<1>3. FileInv /\ ListingInOrder /\ [Next]_vars => FileInv' /\ ListingInOrder'
  BY FileStep, ListingStep
<1>4. QED
  BY <1>1, <1>2, <1>3, PTL DEF Spec

-----------------------------------------------------------------------------
(* FileSystem implements Files for every image, every size of blocks,      *)
(* inodes and names, and every sequence of calls; and a program that is    *)
(* loaded is the whole of its file.                                        *)

(* What the refinement needs besides FileInv: where read_dentry_by_name    *)
(* has got to, what a read was asked for, and which entry a descriptor is. *)
Idle == pc = "user" => call = "none"

Searching ==
  pc = "lookup" => /\ index \in 1 .. Len(Dentries) + 1
                   /\ fname \in Names /\ Len(fname) <= FNAME_SIZE
                   /\ \A d \in 1 .. index - 1 : Dentries[d].name # fname

Wanted ==
  pc = "copy" => /\ call = "read" => length \in Requests
                 /\ call = "load" => offset = 0 /\ length = PAGE_SIZE

Described ==
  \A f \in DOMAIN fd_table :
    LET e == fd_table[f].entry IN
    fd_table[f].type = Dentries[e].type /\ fd_table[f].inode = Dentries[e].inode

CallInv == Idle /\ Searching /\ Wanted /\ Described

-----------------------------------------------------------------------------
(* A name is the sequence of all its characters.                           *)
LEMMA WholeName ==
  ASSUME NEW s, s \in Seq({s[k] : k \in DOMAIN s})
  PROVE SubSeq(s, 1, Len(s)) = s
OBVIOUS

(* strncmp over the whole of two names of the same length compares them.   *)
LEMMA MatchesName ==
  ASSUME NEW e \in DOMAIN Dentries, fname \in Names
  PROVE Matches(e) <=> Dentries[e].name = fname
<1> DEFINE name == Dentries[e].name
<1>1. SubSeq(name, 1, Len(name)) = name /\ SubSeq(fname, 1, Len(fname)) = fname
  <2>1. name \in Seq({name[k] : k \in DOMAIN name})
    BY NamesAssumption
  <2>2. fname \in Seq({fname[k] : k \in DOMAIN fname})
    BY NamesAssumption
  <2>3. QED
    <3> HIDE DEF name
    <3>1. SubSeq(name, 1, Len(name)) = name
      BY <2>1, WholeName
    <3>2. SubSeq(fname, 1, Len(fname)) = fname
      BY <2>2, WholeName
    <3>3. QED
      BY <3>1, <3>2
<1>2. Len(fname) \in Nat
  BY NamesAssumption
<1>3. CASE Len(fname) = Len(name)
  BY <1>1, <1>2, <1>3 DEF Matches, SamePrefix
<1>4. CASE Len(fname) # Len(name)
  BY <1>4 DEF Matches
<1>5. QED
  BY <1>3, <1>4

LEMMA CallInit == Init => CallInv
BY DEF Init, CallInv, Idle, Searching, Wanted, Described

(* Back in the program, with the descriptors as they were described.       *)
LEMMA CallEnds ==
  ASSUME NEW what, NEW ret, NEW data, Return(what, ret, data), Described'
  PROVE CallInv'
BY DEF Return, CallInv, Idle, Searching, Wanted

LEMMA SameDescribed ==
  ASSUME Described, UNCHANGED fd_table
  PROVE Described'
BY DEF Described

(* Moving a position leaves the rest of a descriptor alone.                *)
LEMMA MovedDescribed ==
  ASSUME FileInv, Described, NEW f, NEW n,
         fd_table' = [fd_table EXCEPT ![f].file_position = n]
  PROVE Described'
BY DEF Described, FileInv, TypeOK, TablesOK, Descriptors

(* A call keeps what it needs to know of itself.                           *)
LEMMA CallStep ==
  ASSUME FileInv, CallInv, [Next]_vars
  PROVE CallInv'
<1> USE DEF CallInv
<1>1. CASE UNCHANGED vars
  BY <1>1 DEF vars, nameVars, argVars, Idle, Searching, Wanted, Described
<1>2. ASSUME NEW what \in {"open", "exec"}, NEW name \in Names, LookUp(what, name)
      PROVE CallInv'
  <2>1. Described'
    BY <1>2, SameDescribed DEF LookUp
  <2>2. CASE Return(what, -1, Asked(what, name))
    BY <2>1, <2>2, CallEnds
  <2>3. CASE /\ Len(name) <= FNAME_SIZE
             /\ pc' = "lookup" /\ call' = what /\ fname' = name /\ index' = 1
    <3>1. 1 \in 1 .. Len(Dentries) + 1 /\ 1 .. 1 - 1 = {}
      BY ImageAssumption
    <3>2. QED
      BY <2>1, <2>3, <3>1 DEF Idle, Searching, Wanted
  <2>4. QED
    BY <1>2, <2>2, <2>3 DEF LookUp
<1>3. CASE NoMatch
  <2>1. Described'
    BY <1>3, SameDescribed DEF NoMatch
  <2>2. CASE Return(call, -1, Asked(call, fname))
    BY <2>1, <2>2, CallEnds
  <2>3. CASE /\ index \in DOMAIN Dentries /\ ~Matches(index)
             /\ index' = index + 1 /\ UNCHANGED <<pc, fname>>
    <3>1. pc = "lookup" /\ pc' = "lookup"
      BY <1>3, <2>3 DEF NoMatch
    <3>2. Dentries[index].name # fname
      BY <2>3, <3>1, MatchesName DEF Searching
    <3>3. Len(Dentries) \in Nat /\ index \in 1 .. Len(Dentries)
      BY <2>3, ImageAssumption
    <3>4. index' \in 1 .. Len(Dentries) + 1
      BY <2>3, <3>3
    <3>5. ASSUME NEW d \in 1 .. index' - 1 PROVE Dentries[d].name # fname
      <4>1. d \in 1 .. index - 1 \/ d = index
        BY <2>3, <3>3
      <4>2. QED
        BY <3>1, <3>2, <4>1 DEF Searching
    <3>6. QED
      BY <2>1, <2>3, <3>1, <3>4, <3>5 DEF Idle, Searching, Wanted
  <2>4. QED
    BY <1>3, <2>2, <2>3 DEF NoMatch
<1>4. CASE OpenFound
  <2>1. CASE UNCHANGED fd_table /\ Return("open", -1, fname)
    BY <2>1, SameDescribed, CallEnds
  <2> DEFINE new == [entry |-> index, type |-> Dentries[index].type,
                     inode |-> Dentries[index].inode, file_position |-> 0]
  <2>2. ASSUME NEW f, fd_table' = With(fd_table, f, new), Return("open", f, fname)
        PROVE CallInv'
    <3>1. ASSUME NEW g \in DOMAIN fd_table', g = f
          PROVE fd_table'[g].entry = index /\ fd_table'[g].type = Dentries[index].type
                /\ fd_table'[g].inode = Dentries[index].inode
      BY <2>2, <3>1 DEF With
    <3>2. ASSUME NEW g \in DOMAIN fd_table', g # f
          PROVE fd_table'[g] = fd_table[g] /\ g \in DOMAIN fd_table
      BY <2>2, <3>2 DEF With
    <3> HIDE DEF new
    <3>3. Described'
      BY <3>1, <3>2 DEF Described
    <3>4. QED
      BY <2>2, <3>3, CallEnds
  <2>3. \/ UNCHANGED fd_table /\ Return("open", -1, fname)
        \/ \E f \in Free : fd_table' = With(fd_table, f, new) /\ Return("open", f, fname)
    BY <1>4 DEF OpenFound
  <2> HIDE DEF new
  <2>4. QED
    BY <2>1, <2>2, <2>3
<1>5. ASSUME NEW f \in Fds, Close(f)
      PROVE CallInv'
  <2>1. Described'
    BY <1>5 DEF Close, Without, Described
  <2>2. QED
    BY <1>5, <2>1, CallEnds DEF Close
<1>6. ASSUME NEW f \in Fds, DirRead(f)
      PROVE CallInv'
  <2>1. \E n : fd_table' = [fd_table EXCEPT ![f].file_position = n]
    BY <1>6 DEF DirRead
  <2>2. \E ret, data : Return("list", ret, data)
    BY <1>6 DEF DirRead
  <2>3. QED
    BY <2>1, <2>2, MovedDescribed, CallEnds
<1>7. ASSUME NEW f \in Fds, ReadFailed(f)
      PROVE CallInv'
  BY <1>7, MovedDescribed, CallEnds DEF ReadFailed
<1>8. CASE FileRead
  BY <1>8, MovedDescribed, CallEnds DEF FileRead
<1>9. ASSUME NEW f \in Fds, NEW n \in Requests, ReadFile(f, n)
      PROVE CallInv'
  BY <1>9, SameDescribed DEF ReadFile, StartReading, Idle, Searching, Wanted
<1>10. CASE ReadMagic \/ ReadEntry \/ LoadProg
  BY <1>10, SameDescribed DEF ReadMagic, ReadEntry, LoadProg, StartReading, Idle, Searching, Wanted
<1>11. CASE CopyByte
  BY <1>11, SameDescribed DEF CopyByte, argVars, Idle, Searching, Wanted
<1>12. ASSUME UNCHANGED fd_table, \E what, ret, data : Return(what, ret, data)
       PROVE CallInv'
  BY <1>12, SameDescribed, CallEnds
<1>13. CASE \/ \E f \in Fds : ReadAbsent(f) \/ Write(f)
            \/ NotExecutable \/ NotReadable \/ MagicWrong \/ Loaded
  <2>1. UNCHANGED fd_table /\ \E what, ret, data : Return(what, ret, data)
    BY <1>13 DEF ReadAbsent, Write, NotExecutable, NotReadable, MagicWrong, Loaded
  <2>2. QED
    BY <1>12, <2>1
<1> HIDE DEF CallInv
<1>14. QED
  BY <1>1, <1>2, <1>3, <1>4, <1>5, <1>6, <1>7, <1>8, <1>9, <1>10, <1>11, <1>13 DEF Next
-----------------------------------------------------------------------------
(* What Files sees.                                                        *)
Handle(f) == [entry |-> fd_table[f].entry,
              position |-> IF Refused(fd_table[f].type, fd_table[f].inode) THEN 0
                           ELSE fd_table[f].file_position]
OpenFiles == [f \in DOMAIN fd_table |-> Handle(f)]
Directory == [e \in DOMAIN Dentries |->
                [name |-> Dentries[e].name, type |-> Dentries[e].type,
                 bytes |-> Held(Dentries[e].inode)]]
Longest == {e \in DOMAIN Dentries : Full(Dentries[e].inode)}
NeverRead == {e \in DOMAIN Dentries : Refused(Dentries[e].type, Dentries[e].inode)}

LEMMA Listed ==
  /\ Len(Directory) = Len(Dentries) /\ DOMAIN Directory = DOMAIN Dentries
  /\ \A e \in DOMAIN Dentries :
       /\ Directory[e].name = Dentries[e].name /\ Directory[e].type = Dentries[e].type
       /\ Directory[e].bytes = Held(Dentries[e].inode)
<1>1. Len(Dentries) \in Nat /\ DOMAIN Dentries = 1 .. Len(Dentries)
  BY ImageAssumption
<1>2. Len(Directory) = Len(Dentries)
  BY <1>1 DEF Directory
<1>3. QED
  BY <1>2 DEF Directory

LEMMA Contents ==
  ASSUME NEW f \in DOMAIN Inodes
  PROVE /\ Len(Content(f)) = Inodes[f].length /\ Inodes[f].length \in Nat
        /\ \A k \in 1 .. Inodes[f].length : Content(f)[k] = ByteAt(f, k - 1)
<1>1. Inodes[f].length \in Nat
  BY ImageAssumption, SizesAssumption DEF MaxLength
<1>2. QED
  BY <1>1 DEF Content

(* A sequence that agrees with a stretch of another is that stretch.       *)
LEMMA Stretch ==
  ASSUME NEW S, NEW s \in Seq(S), NEW t, NEW from \in Nat,
         \A k \in 1 .. Len(s) : s[k] = t[from + k]
  PROVE SubSeq(t, from + 1, from + Len(s)) = s
OBVIOUS

LEMMA Moves ==
  ASSUME FileInv, NEW f \in DOMAIN fd_table, NEW n,
         fd_table' = [fd_table EXCEPT ![f].file_position = n]
  PROVE OpenFiles' = IF Refused(fd_table[f].type, fd_table[f].inode) THEN OpenFiles
                     ELSE [OpenFiles EXCEPT ![f].position = n]
<1>1. /\ DOMAIN fd_table' = DOMAIN fd_table
      /\ \A g \in DOMAIN fd_table :
           /\ fd_table'[g].entry = fd_table[g].entry
           /\ fd_table'[g].type = fd_table[g].type /\ fd_table'[g].inode = fd_table[g].inode
           /\ fd_table'[g].file_position = IF g = f THEN n ELSE fd_table[g].file_position
  BY DEF FileInv, TypeOK, TablesOK, Descriptors
<1>2. QED
  BY <1>1 DEF OpenFiles, Handle

LEMMA SameOpen ==
  ASSUME UNCHANGED fd_table
  PROVE OpenFiles' = OpenFiles
BY DEF OpenFiles, Handle

(* execute and the calls that fail say so and touch no descriptor.         *)
LEMMA Refuses ==
  ASSUME NEW what \in {"open", "exec"}, NEW name \in Names,
         Return(what, -1, Asked(what, name)), UNCHANGED fd_table,
         \A e \in DOMAIN Dentries : Dentries[e].name # name
  PROVE F!Next
<1>1. CASE what = "open"
  <2>1. Asked(what, name) = name
    BY <1>1 DEF Asked
  <2>2. answer' = [call |-> "open", ret |-> -1, data |-> name]
    BY <1>1, <2>1 DEF Return
  <2>3. F!Open(name)
    BY <2>2, SameOpen, Listed DEF F!Open, F!Answer, F!Named, OpenFiles, Handle, Directory
  <2>4. QED
    BY <2>3 DEF F!Next
<1>2. CASE what = "exec"
  <2>1. answer' = [call |-> "exec", ret |-> -1, data |-> <<>>]
    BY <1>2 DEF Return, Asked
  <2>2. F!Execute
    BY <2>1, SameOpen DEF F!Execute, F!Answer, OpenFiles, Handle
  <2>3. QED
    BY <2>2 DEF F!Next
<1>3. QED
  BY <1>1, <1>2

(* open takes the lowest free descriptor for the first entry of that name. *)
LEMMA Opens ==
  ASSUME FileInv, CallInv, OpenFound
  PROVE F!Next
<1>1. /\ fname \in Names /\ index \in DOMAIN Dentries /\ Dentries[index].name = fname
      /\ \A d \in 1 .. index - 1 : Dentries[d].name # fname
  BY MatchesName DEF OpenFound, CallInv, Searching
<1>2. PICK name \in Names : name = fname
  BY <1>1
<1>3. DOMAIN OpenFiles = DOMAIN fd_table /\ F!Free = Free
  BY DEF OpenFiles, Free, F!Free, Handle
<1>4. Asked("open", fname) = fname
  BY DEF Asked
<1>5. CASE Free = {} /\ Return("open", -1, fname) /\ UNCHANGED fd_table
  <2>1. answer' = [call |-> "open", ret |-> -1, data |-> name]
    BY <1>2, <1>5 DEF Return
  <2>2. F!Open(name)
    BY <1>3, <1>5, <2>1, SameOpen DEF F!Open, F!Answer, OpenFiles, Handle
  <2>3. QED
    BY <2>2 DEF F!Next
<1> DEFINE new == [entry |-> index, type |-> Dentries[index].type,
                   inode |-> Dentries[index].inode, file_position |-> 0]
<1>6. ASSUME NEW f \in Free, Lowest(f), fd_table' = With(fd_table, f, new),
             Return("open", f, fname)
      PROVE F!Next
  <2>1. OpenFiles' = [g \in DOMAIN OpenFiles \cup {f} |->
                        IF g = f THEN [entry |-> index, position |-> 0] ELSE OpenFiles[g]]
    BY <1>6 DEF OpenFiles, Handle, With
  <2>2. answer' = [call |-> "open", ret |-> f, data |-> name]
    BY <1>2, <1>6 DEF Return
  <2>3. F!Named(name, index)
    BY <1>1, <1>2, Listed, ImageAssumption DEF F!Named, Directory
  <2>4. \A g \in F!Free : f <= g
    BY <1>3, <1>6 DEF Lowest
  <2>5. PICK e \in DOMAIN Directory : e = index
    BY <1>1, Listed
  <2>6. /\ F!Named(name, e)
        /\ OpenFiles' = [g \in DOMAIN OpenFiles \cup {f} |->
                           IF g = f THEN [entry |-> e, position |-> 0] ELSE OpenFiles[g]]
    BY <2>1, <2>3, <2>5 DEF F!Named
  <2>7. F!Open(name)
    BY <1>3, <1>6, <2>2, <2>4, <2>5, <2>6 DEF F!Open, F!Answer, OpenFiles, Handle, Directory
  <2>8. QED
    BY <2>7 DEF F!Next
<1>7. \/ Free = {} /\ Return("open", -1, fname) /\ UNCHANGED fd_table
      \/ \E f \in Free : /\ Lowest(f) /\ fd_table' = With(fd_table, f, new)
                         /\ Return("open", f, fname)
  BY DEF OpenFound
<1> HIDE DEF new
<1>8. QED
  BY <1>5, <1>6, <1>7

LEMMA Closes ==
  ASSUME NEW f \in Fds, Close(f)
  PROVE F!Next
<1>1. OpenFiles' = [g \in DOMAIN OpenFiles \ {f} |-> OpenFiles[g]]
  BY DEF Close, Without, OpenFiles, Handle
<1>2. DOMAIN OpenFiles = DOMAIN fd_table
  BY DEF OpenFiles
<1>3. answer' = [call |-> "close", ret |-> IF f \in DOMAIN OpenFiles THEN 0 ELSE -1, data |-> <<>>]
  BY <1>2 DEF Close, Return
<1>4. F!Close(f)
  BY <1>1, <1>3 DEF F!Close, F!Answer, OpenFiles, Handle
<1>5. QED
  BY <1>4 DEF F!Next

(* A listing goes on from its position.                                    *)
LEMMA Lists ==
  ASSUME FileInv, CallInv, NEW f \in Fds, DirRead(f)
  PROVE F!Next
<1> DEFINE position == fd_table[f].file_position
           e == fd_table[f].entry
<1>1. /\ f \in DOMAIN fd_table /\ fd_table[f] \in Descriptors /\ fd_table[f].type = "dir"
      /\ ~Refused(fd_table[f].type, fd_table[f].inode)
      /\ position \in Nat /\ e \in DOMAIN Dentries /\ Dentries[e].type = "dir"
  BY DEF DirRead, Is, FileInv, TypeOK, TablesOK, Descriptors, CallInv, Described, Refused
<1>2. /\ f \in DOMAIN OpenFiles /\ OpenFiles[f].position = position
      /\ OpenFiles[f].entry = e /\ Directory[OpenFiles[f].entry].type = "dir"
  BY <1>1, Listed DEF OpenFiles, Handle
<1> HIDE DEF position, e
<1>3. CASE position < Len(Dentries)
  <2>1. fd_table' = [fd_table EXCEPT ![f].file_position = position + 1]
    BY <1>1, <1>3, ImageAssumption DEF DirRead, position
  <2>2. answer' = [call |-> "list", ret |-> Len(Dentries[position + 1].name),
                   data |-> Dentries[position + 1].name]
    BY <1>1, <1>3, ImageAssumption DEF DirRead, position, Return
  <2>3. OpenFiles' = [OpenFiles EXCEPT ![f].position = position + 1]
    BY <1>1, <2>1, Moves
  <2>4. /\ position + 1 \in DOMAIN Dentries /\ position + 1 <= Len(Directory)
        /\ Directory[position + 1].name = Dentries[position + 1].name
    BY <1>1, <1>3, Listed, ImageAssumption
  <2>5. F!ReadDirectory(f)
    BY <1>2, <2>2, <2>3, <2>4
       DEF F!ReadDirectory, F!Entry, F!Answer, F!Moved, OpenFiles, Handle, Directory
  <2>6. QED
    BY <2>5 DEF F!Next
<1>4. CASE ~(position < Len(Dentries))
  <2>1. fd_table' = [fd_table EXCEPT ![f].file_position = 0]
    BY <1>4 DEF DirRead, position
  <2>2. answer' = [call |-> "list", ret |-> 0, data |-> <<>>]
    BY <1>4 DEF DirRead, position, Return
  <2>3. OpenFiles' = [OpenFiles EXCEPT ![f].position = 0]
    BY <1>1, <2>1, Moves
  <2>4. position + 1 > Len(Directory)
    BY <1>1, <1>4, Listed, ImageAssumption
  <2>5. F!ReadDirectory(f)
    BY <1>2, <2>2, <2>3, <2>4
       DEF F!ReadDirectory, F!Entry, F!Answer, F!Moved, OpenFiles, Handle, Directory
  <2>6. QED
    BY <2>5 DEF F!Next
<1>5. QED
  BY <1>3, <1>4

(* A read of a promised file gives what lies from its position on, as much *)
(* as was asked for or as there is.                                        *)
LEMMA Reads ==
  ASSUME FileInv, CallInv, FileRead
  PROVE F!Next
<1> DEFINE e == fd_table[fd].entry
           to == F!Fewest(offset + length, Len(Content(inode)))
<1>1. /\ pc = "copy" /\ call = "read"
      /\ bytes_read = length \/ offset + bytes_read >= Inodes[inode].length
      /\ fd_table' = [fd_table EXCEPT ![fd].file_position = @ + bytes_read]
      /\ answer' = [call |-> "read", ret |-> bytes_read, data |-> buf]
  BY DEF FileRead, Copied, Return
<1>2. /\ fd \in DOMAIN fd_table /\ fd \in Fds /\ fd_table[fd] \in Descriptors
      /\ fd_table[fd].type = "file"
      /\ e \in DOMAIN Dentries /\ inode = fd_table[fd].inode
      /\ offset = fd_table[fd].file_position /\ inode \in DOMAIN Inodes
      /\ Readable(inode) /\ ~Refused(fd_table[fd].type, fd_table[fd].inode)
  BY <1>1 DEF FileInv, ReadInv, Is, TypeOK, TablesOK, LocalsOK, Descriptors, Refused
<1>3. Dentries[e].type = "file" /\ Dentries[e].inode = inode
  BY <1>2 DEF CallInv, Described
<1>4. length \in Requests
  BY <1>1 DEF CallInv, Wanted
<1>5. /\ offset \in Nat /\ length \in Nat /\ bytes_read \in Nat
      /\ buf \in Seq(Bytes) /\ Len(buf) = bytes_read /\ bytes_read <= length
      /\ bytes_read > 0 => offset + bytes_read <= Inodes[inode].length
      /\ \A k \in 1 .. bytes_read : buf[k] = ByteAt(inode, offset + k - 1)
  BY <1>1 DEF FileInv, CopyInv, TypeOK, LocalsOK
<1>6. /\ fd \in DOMAIN OpenFiles /\ OpenFiles[fd].position = offset /\ OpenFiles[fd].entry = e
      /\ Directory[e].type = "file" /\ Directory[e].bytes = Content(inode)
      /\ e \in Longest <=> ~Promised(inode)
      /\ e \notin NeverRead
  BY <1>2, <1>3, Listed DEF OpenFiles, Handle, Longest, NeverRead, Held, Full
<1>7. OpenFiles' = [OpenFiles EXCEPT ![fd].position = offset + bytes_read]
  <2>1. fd_table' = [fd_table EXCEPT ![fd].file_position = offset + bytes_read]
    BY <1>1, <1>2
  <2>2. QED
    BY <1>2, <2>1, Moves
<1> HIDE DEF e
<1>8. CASE Promised(inode)
  <2>1. offset <= Inodes[inode].length
    BY <1>2, <1>8 DEF FileInv, BytesInOrder, Is
  <2>2. /\ Len(Content(inode)) = Inodes[inode].length /\ Inodes[inode].length \in Nat
        /\ \A k \in 1 .. Inodes[inode].length : Content(inode)[k] = ByteAt(inode, k - 1)
    BY <1>2, Contents
  <2>3. to = offset + bytes_read /\ to - offset = bytes_read
    <3>1. to = IF offset + length <= Inodes[inode].length THEN offset + length
               ELSE Inodes[inode].length
      BY <2>2 DEF F!Fewest
    <3> HIDE DEF to
    <3>2. CASE bytes_read = length
      BY <1>5, <2>1, <2>2, <3>1, <3>2
    <3>3. CASE bytes_read # length
      <4>1. bytes_read < length
        BY <1>5, <3>3
      <4>2. offset + bytes_read = Inodes[inode].length
        <5>1. offset + bytes_read >= Inodes[inode].length
          BY <1>1, <3>3
        <5>2. CASE bytes_read = 0
          BY <1>5, <2>1, <2>2, <5>1, <5>2
        <5>3. CASE bytes_read # 0
          BY <1>5, <2>2, <5>1, <5>3
        <5>4. QED
          BY <5>2, <5>3
      <4>3. QED
        BY <1>5, <2>2, <3>1, <4>1, <4>2
    <3>4. QED
      BY <3>2, <3>3
  <2>4. \A k \in 1 .. Len(buf) : buf[k] = Content(inode)[offset + k]
    <3>1. SUFFICES ASSUME NEW k \in 1 .. bytes_read PROVE buf[k] = Content(inode)[offset + k]
      BY <1>5
    <3>2. offset + k \in 1 .. Inodes[inode].length /\ (offset + k) - 1 = offset + k - 1
      BY <1>5, <2>2
    <3>3. QED
      BY <1>5, <2>2, <3>2
  <2>5. SubSeq(Content(inode), offset + 1, to) = buf
    BY <1>5, <2>3, <2>4, Stretch, SMTT(30)
  <2> HIDE DEF to
  <2>6. PICK f \in Fds, n \in Requests : f = fd /\ n = length
    BY <1>2, <1>4
  <2>7. /\ OpenFiles' = [OpenFiles EXCEPT ![f].position = to]
        /\ answer' = [call |-> "read", ret |-> to - offset, data |-> SubSeq(Content(inode), offset + 1, to)]
    BY <1>1, <1>7, <2>3, <2>5, <2>6
  <2>8. F!ReadFile(f, n)
    BY <1>6, <1>8, <2>6, <2>7
       DEF F!ReadFile, F!Entry, F!Answer, F!Moved, to, OpenFiles, Handle, Directory, Longest, NeverRead
  <2>9. QED
    BY <2>8 DEF F!Next
<1>9. CASE ~Promised(inode)
  <2>1. PICK f \in Fds : f = fd
    BY <1>2
  <2>2. /\ DOMAIN OpenFiles' = DOMAIN OpenFiles
        /\ OpenFiles'[f].entry = OpenFiles[f].entry
        /\ \A g \in DOMAIN OpenFiles \ {f} : OpenFiles'[g] = OpenFiles[g]
    BY <1>6, <1>7, <2>1 DEF OpenFiles, Handle
  <2>3. answer'.call = "read"
    BY <1>1
  <2>4. f \in DOMAIN OpenFiles /\ OpenFiles[f].entry \in Longest
    BY <1>6, <1>9, <2>1
  <2>5. F!ReadAnything(f)
    BY <2>2, <2>3, <2>4 DEF F!ReadAnything, OpenFiles, Handle, Longest
  <2>6. QED
    BY <2>5 DEF F!Next
<1>10. QED
  BY <1>8, <1>9

(* Past the last index of an inode nothing is promised; of a file that is  *)
(* not read, the failure is.                                               *)
LEMMA Fails ==
  ASSUME FileInv, CallInv, NEW f \in Fds, ReadFailed(f)
  PROVE F!Next
<1> DEFINE e == fd_table[f].entry
           n == (fd_table[f].file_position - 1) % POSITIONS
<1>1. /\ f \in DOMAIN fd_table /\ fd_table[f].type = "file"
      /\ e \in DOMAIN Dentries
      /\ fd_table[f].inode = Dentries[e].inode /\ Dentries[e].type = "file"
      /\ ~Promised(Dentries[e].inode)
  BY FailsUnpromised
     DEF ReadFailed, Is, FileInv, TypeOK, TablesOK, Descriptors, CallInv, Described
<1>2. f \in DOMAIN OpenFiles /\ OpenFiles[f].entry = e
  BY <1>1 DEF OpenFiles, Handle
<1>3. answer' = [call |-> "read", ret |-> -1, data |-> <<>>]
  BY DEF ReadFailed, Return
<1>4. fd_table' = [fd_table EXCEPT ![f].file_position = n]
  BY <1>1 DEF ReadFailed
<1> HIDE DEF e, n
<1>5. CASE Readable(Dentries[e].inode)
  <2>1. e \in Longest /\ ~Refused(fd_table[f].type, fd_table[f].inode)
    BY <1>1, <1>5 DEF Longest, Full, Refused
  <2>2. OpenFiles' = [OpenFiles EXCEPT ![f].position = n]
    BY <1>1, <1>4, <2>1, Moves
  <2>3. /\ DOMAIN OpenFiles' = DOMAIN OpenFiles
        /\ OpenFiles'[f].entry = OpenFiles[f].entry
        /\ \A g \in DOMAIN OpenFiles \ {f} : OpenFiles'[g] = OpenFiles[g]
    BY <1>2, <2>2 DEF OpenFiles, Handle
  <2>4. F!ReadAnything(f)
    BY <1>2, <1>3, <2>1, <2>3 DEF F!ReadAnything, OpenFiles, Handle, Longest
  <2>5. QED
    BY <2>4 DEF F!Next
<1>6. CASE ~Readable(Dentries[e].inode)
  <2>1. e \in NeverRead /\ Refused(fd_table[f].type, fd_table[f].inode)
    BY <1>1, <1>6 DEF NeverRead, Refused
  <2>2. OpenFiles' = OpenFiles
    BY <1>1, <1>4, <2>1, Moves
  <2>3. F!ReadRefused(f)
    BY <1>2, <1>3, <2>1, <2>2 DEF F!ReadRefused, F!Answer, OpenFiles, Handle, NeverRead
  <2>4. QED
    BY <2>3 DEF F!Next
<1>7. QED
  BY <1>5, <1>6

(* What fails at once, and what execute answers.                           *)
LEMMA Answers ==
  ASSUME UNCHANGED fd_table
  PROVE /\ (\E f \in Fds : ReadAbsent(f)) => F!Next
        /\ (\E f \in Fds : Write(f)) => F!Next
        /\ NotExecutable \/ NotReadable \/ MagicWrong \/ Loaded => F!Next
<1>1. OpenFiles' = OpenFiles
  BY SameOpen
<1>2. ASSUME NEW f \in Fds, ReadAbsent(f) PROVE F!Next
  <2>1. f \notin DOMAIN OpenFiles /\ answer' = [call |-> "absent", ret |-> -1, data |-> <<>>]
    BY <1>2 DEF ReadAbsent, Return, OpenFiles
  <2>2. F!Refuse("absent")
    BY <1>1, <2>1 DEF F!Refuse, F!Answer, OpenFiles, Handle
  <2>3. QED
    BY <2>1, <2>2 DEF F!Next, OpenFiles, Handle
<1>3. ASSUME NEW f \in Fds, Write(f) PROVE F!Next
  <2>1. answer' = [call |-> "write", ret |-> -1, data |-> <<>>]
    BY <1>3 DEF Write, Return
  <2>2. F!Refuse("write")
    BY <1>1, <2>1 DEF F!Refuse, F!Answer, OpenFiles, Handle
  <2>3. QED
    BY <2>2 DEF F!Next
<1>4. ASSUME NotExecutable \/ NotReadable \/ MagicWrong \/ Loaded PROVE F!Next
  <2>1. \E status \in {-1, 0} : answer' = [call |-> "exec", ret |-> status, data |-> <<>>]
    BY <1>4 DEF NotExecutable, NotReadable, MagicWrong, Loaded, Return
  <2>2. F!Execute
    BY <1>1, <2>1 DEF F!Execute, F!Answer, OpenFiles, Handle
  <2>3. QED
    BY <2>2 DEF F!Next
<1>5. QED
  BY <1>2, <1>3, <1>4

(* A name that no field can hold is no entry's; nor is one that was        *)
(* compared with every entry.                                              *)
LEMMA NotFound ==
  ASSUME FileInv, CallInv,
         \/ NoMatch \/ \E what \in {"open", "exec"}, name \in Names : LookUp(what, name),
         ~UNCHANGED answer
  PROVE F!Next
<1>1. CASE NoMatch
  <2>1. /\ pc = "lookup" /\ call \in {"open", "exec"} /\ index \notin DOMAIN Dentries
        /\ Return(call, -1, Asked(call, fname)) /\ UNCHANGED fd_table
    BY <1>1 DEF NoMatch, FileInv, TypeOK, LocalsOK
  <2>2. fname \in Names /\ \A e \in DOMAIN Dentries : Dentries[e].name # fname
    <3>1. /\ index \in 1 .. Len(Dentries) + 1 /\ fname \in Names
          /\ \A d \in 1 .. index - 1 : Dentries[d].name # fname
      BY <2>1 DEF CallInv, Searching
    <3>2. DOMAIN Dentries = 1 .. index - 1
      BY <2>1, <3>1, ImageAssumption
    <3>3. QED
      BY <3>1, <3>2
  <2>3. PICK what \in {"open", "exec"}, name \in Names : what = call /\ name = fname
    BY <2>1, <2>2
  <2>4. Return(what, -1, Asked(what, name))
    BY <2>1, <2>3
  <2>5. QED
    BY <2>1, <2>2, <2>3, <2>4, Refuses
<1>2. ASSUME NEW what \in {"open", "exec"}, NEW name \in Names, LookUp(what, name)
      PROVE F!Next
  <2>1. Len(name) > FNAME_SIZE /\ Return(what, -1, Asked(what, name)) /\ UNCHANGED fd_table
    BY <1>2 DEF LookUp
  <2>2. \A e \in DOMAIN Dentries : Dentries[e].name # name
    <3>1. SUFFICES ASSUME NEW e \in DOMAIN Dentries, Dentries[e].name = name PROVE FALSE
      OBVIOUS
    <3>2. Len(Dentries[e].name) <= FNAME_SIZE
      BY NamesAssumption
    <3>3. Len(name) \in Nat /\ FNAME_SIZE \in Nat
      BY NamesAssumption, SizesAssumption
    <3>4. QED
      BY <2>1, <3>1, <3>2, <3>3
  <2>3. QED
    BY <2>1, <2>2, Refuses
<1>3. QED
  BY <1>1, <1>2

(* The rest happens between a call and its answer.                         *)
LEMMA FilesStep ==
  ASSUME FileInv, CallInv, [Next]_vars
  PROVE [F!Next]_(F!vars)
<1>1. CASE UNCHANGED <<fd_table, answer>>
  BY <1>1, SameOpen DEF F!vars, OpenFiles, Handle
<1>2. CASE \/ NoMatch
           \/ \E what \in {"open", "exec"}, name \in Names : LookUp(what, name)
  <2>1. UNCHANGED fd_table
    BY <1>2 DEF NoMatch, LookUp
  <2>2. QED
    BY <1>1, <1>2, <2>1, NotFound
<1>3. CASE OpenFound
  BY <1>3, Opens
<1>4. ASSUME NEW f \in Fds, Close(f) PROVE F!Next
  BY <1>4, Closes
<1>5. ASSUME NEW f \in Fds, DirRead(f) PROVE F!Next
  BY <1>5, Lists
<1>6. ASSUME NEW f \in Fds, ReadFailed(f) PROVE F!Next
  BY <1>6, Fails
<1>7. CASE FileRead
  BY <1>7, Reads
<1>8. CASE \/ \E f \in Fds : ReadAbsent(f) \/ Write(f)
           \/ NotExecutable \/ NotReadable \/ MagicWrong \/ Loaded
  <2>1. UNCHANGED fd_table
    BY <1>8 DEF ReadAbsent, Write, NotExecutable, NotReadable, MagicWrong, Loaded
  <2>2. QED
    BY <1>8, <2>1, Answers
<1>9. CASE \/ \E f \in Fds, n \in Requests : ReadFile(f, n)
           \/ CopyByte \/ ReadMagic \/ ReadEntry \/ LoadProg \/ UNCHANGED vars
  <2>1. UNCHANGED <<fd_table, answer>>
    BY <1>9 DEF ReadFile, CopyByte, ReadMagic, ReadEntry, LoadProg, StartReading, vars
  <2>2. QED
    BY <1>1, <2>1
<1>10. QED
  BY <1>2, <1>3, <1>4, <1>5, <1>6, <1>7, <1>8, <1>9 DEF Next

LEMMA FilesInit == Init => F!Init
<1>1. SUFFICES ASSUME Init PROVE F!Init
  OBVIOUS
<1>2. OpenFiles = <<>>
  BY <1>1 DEF Init, OpenFiles
<1>3. answer = [call |-> "none", ret |-> 0, data |-> <<>>]
  BY <1>1 DEF Init, NoAnswer
<1>4. QED
  BY <1>2, <1>3 DEF F!Init, OpenFiles, Handle

LEMMA Invariants == Spec => [](FileInv /\ CallInv)
<1>1. Init => FileInv /\ CallInv
  BY FileInit, CallInit
<1>2. FileInv /\ CallInv /\ [Next]_vars => FileInv' /\ CallInv'
  BY FileStep, CallStep
<1>3. QED
  BY <1>1, <1>2, PTL DEF Spec

(* open, read and close keep the promise of Files (syscall.c:248-326,      *)
(* filesystem.c:41-219), whatever the image and however the calls follow   *)
(* each other; of files of the greatest length nothing is promised.        *)
THEOREM FilesImplemented == Spec => ImplementsFiles
<1>1. FileInv /\ CallInv /\ [Next]_vars => [F!Next]_(F!vars)
  BY FilesStep
<1>2. QED
  BY <1>1, FilesInit, Invariants, PTL DEF Spec, ImplementsFiles, F!Spec

(* A program that runs is the whole file, or what fits the page            *)
(* (load_prog, paging.c:119-133).                                          *)
LEMMA LoadedWhole ==
  ASSUME FileInv, CallInv, [Next]_vars, pc' = "user", call = "load"
  PROVE LET n == Len(program') IN
        /\ n = PAGE_SIZE \/ n = Inodes[inode].length
        /\ program' = SubSeq(Content(inode), 1, n)
<1>1. pc = "copy"
  BY DEF CallInv, Idle, FileInv, TypeOK, LocalsOK
<1>2. Loaded
  BY <1>1 DEF Next, vars, LookUp, NoMatch, OpenFound, Close, ReadAbsent, ReadFailed, DirRead, Write,
              ReadFile, CopyByte, FileRead, NotExecutable, NotReadable, ReadMagic, MagicWrong, ReadEntry,
              LoadProg, StartReading, Copied
<1>3. /\ offset = 0 /\ length = PAGE_SIZE
      /\ bytes_read = length \/ offset + bytes_read >= Inodes[inode].length
      /\ program' = buf /\ inode \in DOMAIN Inodes
  BY <1>1, <1>2 DEF Loaded, Copied, CallInv, Wanted, FileInv, TypeOK, LocalsOK
<1>4. /\ bytes_read \in Nat /\ buf \in Seq(Bytes) /\ Len(buf) = bytes_read
      /\ bytes_read > 0 => offset + bytes_read <= Inodes[inode].length
      /\ \A k \in 1 .. bytes_read : buf[k] = ByteAt(inode, offset + k - 1)
  BY <1>1 DEF FileInv, CopyInv, TypeOK, LocalsOK
<1>5. /\ Inodes[inode].length \in Nat
      /\ \A k \in 1 .. Inodes[inode].length : Content(inode)[k] = ByteAt(inode, k - 1)
  BY <1>3, Contents
<1>6. bytes_read = PAGE_SIZE \/ bytes_read = Inodes[inode].length
  BY <1>3, <1>4, <1>5
<1>7. \A k \in 1 .. Len(buf) : buf[k] = Content(inode)[0 + k]
  <2>1. SUFFICES ASSUME NEW k \in 1 .. bytes_read PROVE buf[k] = Content(inode)[k]
    BY <1>4
  <2>2. k \in 1 .. Inodes[inode].length /\ offset + k - 1 = k - 1
    BY <1>3, <1>4, <1>5
  <2>3. QED
    BY <1>4, <1>5, <2>2
<1>8. SubSeq(Content(inode), 0 + 1, 0 + Len(buf)) = buf
  BY <1>4, <1>7, Stretch
<1>9. QED
  BY <1>3, <1>4, <1>6, <1>8

THEOREM LoadsWholeProgram == Spec => WholeProgram
<1>1. FileInv /\ CallInv /\ [Next]_vars
      => [pc' = "user" /\ call = "load" =>
            LET n == Len(program') IN
            /\ n = PAGE_SIZE \/ n = Inodes[inode].length
            /\ program' = SubSeq(Content(inode), 1, n)]_vars
  BY LoadedWhole
<1>2. QED
  BY <1>1, Invariants, PTL DEF Spec, WholeProgram
=============================================================================
