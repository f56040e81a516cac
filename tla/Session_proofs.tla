--------------------------- MODULE Session_proofs ---------------------------
(***************************************************************************)
(* Proofs about Session: for every directory, every contents, every size   *)
(* of the buffers and every line that may be typed, what runs is what was  *)
(* typed, cat writes the file and grep the lines that it was asked for.    *)
(* In front stands what they rest on: what becomes of a line on its way    *)
(* (CommandLine).                                                          *)
(***************************************************************************)
EXTENDS Session, Induction, SequenceTheorems

(* The first place from i on that holds one of, or none of, the characters.*)
StopsAt(s, i, ends, k) == k \in i .. Len(s) /\ s[k] \in ends /\ \A j \in i .. k - 1 : s[j] \notin ends
StartsAt(s, i, k) == k \in i .. Len(s) /\ s[k] # Blank /\ \A j \in i .. k - 1 : s[j] = Blank

LEMMA UptoIs ==
    ASSUME NEW s, NEW i \in Nat, NEW ends, NEW k, Len(s) \in Nat, StopsAt(s, i, ends, k)
    PROVE  Upto(s, i, ends) = k
<1>1. \A x : x \in i .. Len(s) /\ s[x] \in ends /\ (\A j \in i .. x - 1 : ~(s[j] \in ends)) <=> x = k
  BY DEF StopsAt
<1>2. Upto(s, i, ends) = CHOOSE x \in i .. Len(s) : s[x] \in ends /\ \A j \in i .. x - 1 : ~(s[j] \in ends)
  BY Zenon DEF Upto, First
<1> QED
  BY <1>1, <1>2

LEMMA SkipBlanksIs ==
    ASSUME NEW s, NEW i \in Nat, NEW k, Len(s) \in Nat, StartsAt(s, i, k)
    PROVE  SkipBlanks(s, i) = k
<1>1. \A x : x \in i .. Len(s) /\ s[x] # Blank /\ (\A j \in i .. x - 1 : ~(s[j] # Blank)) <=> x = k
  BY DEF StartsAt
<1>2. SkipBlanks(s, i) = CHOOSE x \in i .. Len(s) : s[x] # Blank /\ \A j \in i .. x - 1 : ~(s[j] # Blank)
  BY Zenon DEF SkipBlanks, First
<1> QED
  BY <1>1, <1>2

Blanks(s, b) == /\ b \in 0 .. Len(s)
                /\ \A i \in 1 .. b : s[i] = Blank
                /\ b < Len(s) => s[b + 1] # Blank

LEMMA TrimmedIs ==
    ASSUME NEW s, Len(s) \in Nat
    PROVE  \E b : Blanks(s, b) /\ Trimmed(s) = Without(s, b)
<1> DEFINE blanks == {n \in 0 .. Len(s) : \A i \in 1 .. n : s[i] = Blank}
<1>1. blanks \in SUBSET (0 .. Len(s)) /\ 0 \in blanks
  OBVIOUS
<1>2. PICK b \in blanks : \A m \in blanks : m <= b
  <2> HIDE DEF blanks
  <2> QED
    BY <1>1, GreatestElement
<1>3. (CHOOSE n \in blanks : \A m \in blanks : m <= n) = b
  BY <1>1, <1>2
<1>4. b < Len(s) => s[b + 1] # Blank
  BY <1>2
<1> QED
  BY <1>2, <1>3, <1>4 DEF Trimmed, Blanks

FirstSize(s) == LET words == {n \in 0 .. Len(s) : \A i \in 1 .. n : s[i] # Blank}
                IN  CHOOSE n \in words : \A m \in words : m <= n

LEMMA FirstWord ==
    ASSUME NEW s, Len(s) \in Nat
    PROVE  /\ FirstSize(s) \in 0 .. Len(s)
           /\ \A i \in 1 .. FirstSize(s) : s[i] # Blank
           /\ FirstSize(s) < Len(s) => s[FirstSize(s) + 1] = Blank
<1> DEFINE words == {n \in 0 .. Len(s) : \A i \in 1 .. n : s[i] # Blank}
<1>1. words \in SUBSET (0 .. Len(s)) /\ 0 \in words
  OBVIOUS
<1>2. PICK b \in words : \A m \in words : m <= b
  <2> HIDE DEF words
  <2> QED
    BY <1>1, GreatestElement
<1>3. (CHOOSE n \in words : \A m \in words : m <= n) = b
  <2>1. \A x \in words : (\A m \in words : m <= x) => x = b
    <3> HIDE DEF words
    <3> QED
      BY <1>1, <1>2
  <2> HIDE DEF words
  <2> QED
    BY <1>2, <2>1, Zenon
<1>4. FirstSize(s) = b
  BY <1>3 DEF FirstSize
<1>5. b < Len(s) => s[b + 1] = Blank
  BY <1>2
<1> QED
  BY <1>2, <1>4, <1>5

(* A part of a sequence, and a part of the part.                           *)
LEMMA Part ==
    ASSUME NEW S, NEW s \in Seq(S), NEW m \in Nat, NEW n \in Nat, n <= Len(s), m <= n
    PROVE  /\ SubSeq(s, m + 1, n) \in Seq(S) /\ Len(SubSeq(s, m + 1, n)) = n - m
           /\ \A i \in 1 .. n - m : SubSeq(s, m + 1, n)[i] = s[m + i]
<1>1. \A i \in m + 1 .. n : s[i] \in S
  BY ElementOfSeq, LenProperties
<1>2. \A i \in 1 .. n - m : m + 1 + i - 1 = m + i
  OBVIOUS
<1> QED
  BY <1>1, <1>2, SubSeqProperties

LEMMA PartOfPart ==
    ASSUME NEW S, NEW s \in Seq(S), NEW m \in Nat, NEW n \in Nat, n <= Len(s), m <= n,
           NEW k \in Nat, NEW l \in Nat, k <= l, l <= n - m
    PROVE  SubSeq(SubSeq(s, m + 1, n), k + 1, l) = SubSeq(s, m + k + 1, m + l)
<1> DEFINE t == SubSeq(s, m + 1, n)
<1>1. t \in Seq(S) /\ Len(t) = n - m /\ \A i \in 1 .. n - m : t[i] = s[m + i]
  BY Part
<1> HIDE DEF t
<1>2. /\ SubSeq(t, k + 1, l) \in Seq(S) /\ Len(SubSeq(t, k + 1, l)) = l - k
      /\ \A i \in 1 .. l - k : SubSeq(t, k + 1, l)[i] = t[k + i]
  BY <1>1, Part
<1>3. m + k \in Nat /\ m + l \in Nat /\ m + k <= m + l /\ m + l <= Len(s) /\ (m + l) - (m + k) = l - k
  BY LenProperties
<1>4. /\ SubSeq(s, (m + k) + 1, m + l) \in Seq(S) /\ Len(SubSeq(s, (m + k) + 1, m + l)) = l - k
      /\ \A i \in 1 .. l - k : SubSeq(s, (m + k) + 1, m + l)[i] = s[(m + k) + i]
  BY <1>3, Part
<1>5. \A i \in 1 .. l - k : k + i \in 1 .. n - m /\ m + (k + i) = (m + k) + i
  OBVIOUS
<1>6. \A i \in 1 .. l - k : SubSeq(t, k + 1, l)[i] = SubSeq(s, (m + k) + 1, m + l)[i]
  BY <1>1, <1>2, <1>4, <1>5
<1>7. SubSeq(t, k + 1, l) = SubSeq(s, (m + k) + 1, m + l)
  BY <1>2, <1>4, <1>6, SeqEqual
<1> QED
  BY <1>7 DEF t

(* A line is b blanks, a word up to e, blanks up to a, and the argument.   *)
Split(line, b, e, a) ==
    LET n == Len(line) - 1
    IN  /\ b \in 0 .. n /\ e \in b .. n /\ a \in e .. n
        /\ \A i \in 1 .. b : line[i] = Blank
        /\ b < n => line[b + 1] # Blank
        /\ \A i \in b + 1 .. e : line[i] # Blank
        /\ e < n => line[e + 1] = Blank
        /\ \A i \in e + 1 .. a : line[i] = Blank
        /\ a < n => line[a + 1] # Blank
SaidBy(line, b, e, a) == [word |-> SubSeq(line, b + 1, e), argument |-> SubSeq(line, a + 1, Len(line) - 1)]

LEMMA SaysSplit ==
    ASSUME NEW line, TypedLine(line)
    PROVE  \E b, e, a : Split(line, b, e, a) /\ Says(line) = SaidBy(line, b, e, a)
<1> DEFINE n == Len(line) - 1
           typed == SubSeq(line, 1, n)
<1>1. line \in Seq(Characters) /\ n \in Nat /\ n <= Len(line)
  BY LenProperties DEF TypedLine
<1>2. typed \in Seq(Characters) /\ Len(typed) = n /\ \A i \in 1 .. n : typed[i] = line[i]
  <2> HIDE DEF n
  <2>1. SubSeq(line, 0 + 1, n) \in Seq(Characters) /\ Len(SubSeq(line, 0 + 1, n)) = n - 0
        /\ \A i \in 1 .. n - 0 : SubSeq(line, 0 + 1, n)[i] = line[0 + i]
    BY <1>1, Part
  <2> QED
    BY <1>1, <2>1
<1>3. PICK b : Blanks(typed, b) /\ Trimmed(typed) = Without(typed, b)
  BY <1>1, <1>2, TrimmedIs
<1> DEFINE txt == SubSeq(line, b + 1, n)
<1>4. b \in 0 .. n /\ (\A i \in 1 .. b : line[i] = Blank) /\ (b < n => line[b + 1] # Blank)
  <2> HIDE DEF typed, n
  <2> QED
    BY <1>1, <1>2, <1>3 DEF Blanks
<1>5. Trimmed(typed) = txt
  <2>1. SubSeq(SubSeq(line, 0 + 1, n), b + 1, n) = SubSeq(line, 0 + b + 1, 0 + n)
    <3> HIDE DEF n
    <3>1. 0 \in Nat /\ b \in Nat /\ b <= n /\ n <= n - 0
      BY <1>1, <1>4
    <3> QED
      BY <1>1, <3>1, PartOfPart
  <2>2. 0 + 1 = 1 /\ 0 + b = b /\ 0 + n = n
    BY <1>1, <1>4
  <2> QED
    BY <1>2, <1>3, <2>1, <2>2 DEF Without
<1>6. txt \in Seq(Characters) /\ Len(txt) = n - b /\ \A i \in 1 .. n - b : txt[i] = line[b + i]
  <2> HIDE DEF n
  <2> QED
    BY <1>1, <1>4, Part
<1> DEFINE w == FirstSize(txt)
           rest == SubSeq(line, b + w + 1, n)
<1>7. /\ w \in 0 .. n - b /\ \A i \in 1 .. w : line[b + i] # Blank
      /\ w < n - b => line[b + w + 1] = Blank
  <2>1. Len(txt) \in Nat /\ n - b \in Nat
    BY <1>1, <1>4, <1>6
  <2> HIDE DEF txt, n
  <2>2. /\ w \in 0 .. n - b /\ \A i \in 1 .. w : txt[i] # Blank
        /\ w < n - b => txt[w + 1] = Blank
    BY <1>6, <2>1, FirstWord
  <2> HIDE DEF w
  <2>3. b + (w + 1) = b + w + 1
    BY <1>4, <2>2
  <2> QED
    BY <1>6, <2>1, <2>2, <2>3
<1>8. Without(txt, w) = rest
  <2> HIDE DEF n, w
  <2>1. w \in Nat /\ w <= n - b /\ b \in Nat /\ n - b <= n - b /\ n - b \in Nat /\ b <= n /\ b + (n - b) = n
    BY <1>1, <1>4, <1>7
  <2>2. SubSeq(txt, w + 1, n - b) = SubSeq(line, b + w + 1, b + (n - b))
    BY <1>1, <2>1, PartOfPart
  <2> HIDE DEF txt
  <2> QED
    BY <1>6, <2>1, <2>2 DEF Without
<1>9. rest \in Seq(Characters) /\ Len(rest) = n - (b + w) /\ \A i \in 1 .. n - (b + w) : rest[i] = line[b + w + i]
  <2> HIDE DEF n, w
  <2>1. b + w \in Nat /\ b + w <= n
    BY <1>1, <1>4, <1>7
  <2> QED
    BY <1>1, <2>1, Part
<1>10. PICK c : Blanks(rest, c) /\ Trimmed(rest) = Without(rest, c)
  <2>1. Len(rest) \in Nat
    BY <1>9, LenProperties
  <2> QED
    BY <2>1, TrimmedIs
<1>11. /\ c \in 0 .. n - (b + w) /\ \A i \in 1 .. c : line[b + w + i] = Blank
       /\ c < n - (b + w) => line[b + w + (c + 1)] # Blank
  <2> HIDE DEF n, w, rest
  <2>1. n - (b + w) \in Nat
    BY <1>1, <1>4, <1>7
  <2> QED
    BY <1>9, <1>10, <2>1 DEF Blanks
<1>12. Without(rest, c) = SubSeq(line, b + w + c + 1, n)
  <2> HIDE DEF n, w
  <2>1. /\ c \in Nat /\ c <= n - (b + w) /\ b + w \in Nat /\ n - (b + w) <= n - (b + w)
        /\ n - (b + w) \in Nat /\ b + w <= n /\ b + w + (n - (b + w)) = n
    BY <1>1, <1>4, <1>7, <1>11
  <2>2. SubSeq(rest, c + 1, n - (b + w)) = SubSeq(line, b + w + c + 1, b + w + (n - (b + w)))
    <3> DEFINE p == b + w
    <3>1. /\ c \in Nat /\ c <= n - p /\ p \in Nat /\ n \in Nat /\ n <= Len(line) /\ p <= n
          /\ n - p \in Nat /\ n - p <= n - p
      BY <1>1, <2>1
    <3> HIDE DEF p
    <3>2. SubSeq(SubSeq(line, p + 1, n), c + 1, n - p) = SubSeq(line, p + c + 1, p + (n - p))
      BY <1>1, <3>1, PartOfPart
    <3> QED
      BY <3>2 DEF p, rest
  <2> HIDE DEF rest
  <2> QED
    BY <1>9, <2>1, <2>2 DEF Without
<1>13. SubSeq(txt, 1, w) = SubSeq(line, b + 1, b + w)
  <2> HIDE DEF n, w
  <2>1. b \in Nat /\ n \in Nat /\ b <= n /\ 0 \in Nat /\ w \in Nat /\ 0 <= w /\ w <= n - b /\ b + 0 = b
    BY <1>1, <1>4, <1>7
  <2>2. SubSeq(txt, 0 + 1, w) = SubSeq(line, b + 0 + 1, b + w)
    BY <1>1, <2>1, PartOfPart
  <2> QED
    BY <2>1, <2>2
<1>14. Says(line) = SaidBy(line, b, b + w, b + w + c)
  <2>1. Says(line) = [word |-> SubSeq(Trimmed(typed), 1, FirstSize(Trimmed(typed))),
                      argument |-> Trimmed(Without(Trimmed(typed), FirstSize(Trimmed(typed))))]
    BY Zenon DEF Says, FirstSize
  <2> HIDE DEF txt, typed, w, rest
  <2> QED
    BY <1>5, <1>8, <1>10, <1>12, <1>13, <2>1 DEF SaidBy, w
<1>15. Split(line, b, b + w, b + w + c)
  <2> HIDE DEF w
  <2>1. b \in 0 .. n /\ b + w \in b .. n /\ b + w + c \in b + w .. n
    <3> HIDE DEF n
    <3> QED
      BY <1>1, <1>4, <1>7, <1>11
  <2>2. \A i \in b + 1 .. b + w : line[i] # Blank
    <3>1. \A i \in b + 1 .. b + w : i - b \in 1 .. w /\ b + (i - b) = i
      BY <1>4, <1>7
    <3> QED
      BY <1>7, <3>1
  <2>3. \A i \in b + w + 1 .. b + w + c : line[i] = Blank
    <3>1. \A i \in b + w + 1 .. b + w + c : i - (b + w) \in 1 .. c /\ b + w + (i - (b + w)) = i
      BY <1>4, <1>7, <1>11
    <3> QED
      BY <1>11, <3>1
  <2>4. (b + w < n => line[b + w + 1] = Blank) /\ (b + w + c < n => line[b + w + c + 1] # Blank)
    <3>1. (b + w < n => w < n - b) /\ (b + w + c < n => c < n - (b + w)) /\ b + w + (c + 1) = b + w + c + 1
      <4> HIDE DEF n
      <4> QED
        BY <1>1, <1>4, <1>7, <1>11
    <3> QED
      BY <1>7, <1>11, <3>1
  <2> QED
    BY <1>4, <2>1, <2>2, <2>3, <2>4 DEF Split
<1> QED
  BY <1>14, <1>15

(* What the shell hands to execute for a line.                             *)
LEMMA Command ==
    ASSUME NEW line, TypedLine(line)
    PROVE  LET c == ShellLine(line)
               L == Len(line)
           IN  /\ c \in Seq(Characters) /\ Len(c) = BUF_SIZE + 1
               /\ \A i \in 1 .. L - 1 : c[i] = line[i]
               /\ c[L] = IF L < BUF_SIZE THEN Newline ELSE Nul
               /\ \A i \in L + 1 .. BUF_SIZE + 1 : c[i] = Nul
<1> DEFINE L == Len(line)
           read == Padded(line)
           base == [i \in 1 .. BUF_SIZE |-> IF i < L THEN line[i]
                                            ELSE IF i = L /\ L < BUF_SIZE THEN Newline ELSE Nul]
<1>1. /\ line \in Seq(Characters) /\ L \in 1 .. BUF_SIZE /\ line[L] = Newline
      /\ \A i \in 1 .. L - 1 : line[i] \notin {Newline, Nul}
      /\ BUF_SIZE \in Nat \ {0} /\ Nul \in Characters /\ Newline \in Characters
  BY CommandLineAssumption DEF TypedLine
<1>2. \A i \in 1 .. L : line[i] \in Characters
  BY <1>1, ElementOfSeq
<1>3. base \in Seq(Characters) /\ Len(base) = BUF_SIZE
  <2> HIDE DEF L
  <2>1. \A i \in 1 .. BUF_SIZE : base[i] \in Characters
    BY <1>1, <1>2
  <2> QED
    BY <1>1, <2>1
<1>4. ShellLine(line) = base \o <<Nul>>
  <2>1. CASE L < BUF_SIZE
    <3>1. read[BUF_SIZE] = Nul
      BY <1>1, <2>1 DEF Padded
    <3>2. read = base
      <4> HIDE DEF L
      <4> QED
        BY <1>1, <2>1 DEF Padded, L
    <3> QED
      BY <3>1, <3>2 DEF ShellLine, Newline, Nul
  <2>2. CASE L = BUF_SIZE
    <3>1. read[BUF_SIZE] = Newline
      BY <1>1, <2>2 DEF Padded
    <3>2. [read EXCEPT ![BUF_SIZE] = Nul] = base
      <4>1. \A i \in 1 .. BUF_SIZE : base[i] = IF i = BUF_SIZE THEN Nul ELSE read[i]
        BY <1>1, <2>2 DEF Padded
      <4>2. read = [i \in 1 .. BUF_SIZE |-> read[i]]
        BY DEF Padded
      <4>3. base = [i \in 1 .. BUF_SIZE |-> base[i]]
        OBVIOUS
      <4> HIDE DEF base, read
      <4> QED
        BY <4>1, <4>2, <4>3
    <3> QED
      BY <3>1, <3>2 DEF ShellLine
  <2> QED
    BY <1>1, <2>1, <2>2
<1> HIDE DEF base
<1>5. <<Nul>> \in Seq(Characters) /\ Len(<<Nul>>) = 1 /\ <<Nul>>[1] = Nul
  BY <1>1
<1>6. /\ base \o <<Nul>> \in Seq(Characters) /\ Len(base \o <<Nul>>) = BUF_SIZE + 1
      /\ \A i \in 1 .. BUF_SIZE : (base \o <<Nul>>)[i] = base[i]
      /\ (base \o <<Nul>>)[BUF_SIZE + 1] = Nul
  BY <1>1, <1>3, <1>5, ConcatProperties
<1>7. \A i \in 1 .. BUF_SIZE : base[i] = IF i < L THEN line[i]
                                          ELSE IF i = L /\ L < BUF_SIZE THEN Newline ELSE Nul
  BY DEF base
<1> HIDE DEF L
<1>8. /\ \A i \in 1 .. L - 1 : base[i] = line[i]
      /\ base[L] = IF L < BUF_SIZE THEN Newline ELSE Nul
      /\ \A i \in L + 1 .. BUF_SIZE : base[i] = Nul
  BY <1>1, <1>7
<1>9. \A i \in L + 1 .. BUF_SIZE + 1 : (base \o <<Nul>>)[i] = Nul
  BY <1>1, <1>6, <1>8
<1> QED
  BY <1>1, <1>4, <1>6, <1>8, <1>9 DEF L

LEMMA CStringIs ==
    ASSUME NEW s, NEW k \in Int, Upto(Append(s, Nul), 1, {Nul}) = k + 1
    PROVE  CString(s) = SubSeq(s, 1, k)
<1> DEFINE u == Upto(Append(s, Nul), 1, {Nul})
<1>1. CString(s) = SubSeq(s, 1, u - 1)
  BY DEF CString
<1>2. u = k + 1
  OBVIOUS
<1> HIDE DEF u
<1>3. u - 1 = k
  BY <1>2
<1> QED
  BY <1>1, <1>3

LEMMA GetargsIs ==
    ASSUME NEW s, NEW k \in Int, Upto(Append(s, Newline), 1, {Newline}) = k + 1
    PROVE  getargs(s) = SubSeq(s, 1, k)
<1> DEFINE u == Upto(Append(s, Newline), 1, {Newline})
<1>1. getargs(s) = SubSeq(s, 1, u - 1)
  BY DEF getargs
<1>2. u = k + 1
  OBVIOUS
<1> HIDE DEF u
<1>3. u - 1 = k
  BY <1>2
<1> QED
  BY <1>1, <1>3

LEMMA NothingParsed == getargs(<<>>) = <<>>
<1>1. 1 \in 1 .. Len(<<Newline>>) /\ Len(<<Newline>>) \in Nat /\ <<Newline>>[1] \in {Newline}
  OBVIOUS
<1>2. StopsAt(<<Newline>>, 1, {Newline}, 1)
  BY <1>1 DEF StopsAt
<1>3. Upto(<<Newline>>, 1, {Newline}) = 1
  BY <1>1, <1>2, UptoIs
<1>4. Append(<<>>, Newline) = <<Newline>>
  OBVIOUS
<1> QED
  BY <1>3, <1>4, SubSeqEmpty DEF getargs

(* What parse_cmd makes of the places where the word starts and ends and   *)
(* the argument starts.                                                    *)
ArgumentAt(c, i, a, old) == CASE c[a] = Nul -> old [] c[i] = Newline -> <<>>
                              [] OTHER -> CString(SubSeq(c, a, BUF_SIZE))
ParsedAt(c, s, i, a, old) == [name |-> SubSeq(c, s, i - 1), argument |-> ArgumentAt(c, i, a, old)]

LEMMA ParsedFrom ==
    ASSUME NEW c, NEW old, NEW s, NEW i, NEW a,
           SkipBlanks(c, 1) = s, Upto(c, s, {Nul, Newline, Blank}) = i, SkipBlanks(c, i) = a
    PROVE  parse_cmd(c, old) = ParsedAt(c, s, i, a, old)
<1> DEFINE start == SkipBlanks(c, 1)
           k == Upto(c, start, {Nul, Newline, Blank})
           arg_start == SkipBlanks(c, k)
<1>1. parse_cmd(c, old) = ParsedAt(c, start, k, arg_start, old)
  BY DEF parse_cmd, ParsedAt, ArgumentAt
<1>2. start = s /\ k = i /\ arg_start = a
  OBVIOUS
<1> HIDE DEF start, k, arg_start
<1> QED
  BY <1>1, <1>2, Zenon

(* parse_cmd finds the name and the argument, and getargs cuts that off    *)
(* where the line ends; a line that fills the buffer and has none keeps    *)
(* the old one.                                                            *)
LEMMA Parses ==
    ASSUME NEW line, TypedLine(line), NEW b, NEW e, NEW a, Split(line, b, e, a), NEW old
    PROVE  LET parsed == parse_cmd(ShellLine(line), old)
               said == SaidBy(line, b, e, a)
           IN  /\ parsed.name = said.word
               /\ Len(line) < BUF_SIZE \/ a < Len(line) - 1 => getargs(parsed.argument) = said.argument
<1> DEFINE L == Len(line)
           c == ShellLine(line)
<1>1. /\ line \in Seq(Characters) /\ L \in 1 .. BUF_SIZE
      /\ \A i \in 1 .. L - 1 : line[i] \notin {Newline, Nul}
      /\ BUF_SIZE \in Nat \ {0} /\ Nul \in Characters /\ Newline \in Characters
  BY CommandLineAssumption DEF TypedLine
<1>2. /\ c \in Seq(Characters) /\ Len(c) = BUF_SIZE + 1
      /\ \A i \in 1 .. L - 1 : c[i] = line[i]
      /\ c[L] = IF L < BUF_SIZE THEN Newline ELSE Nul
      /\ \A i \in L + 1 .. BUF_SIZE + 1 : c[i] = Nul
  BY Command
<1>3. /\ b \in 0 .. L - 1 /\ e \in b .. L - 1 /\ a \in e .. L - 1
      /\ \A i \in 1 .. b : line[i] = Blank
      /\ b < L - 1 => line[b + 1] # Blank
      /\ \A i \in b + 1 .. e : line[i] # Blank
      /\ e < L - 1 => line[e + 1] = Blank
      /\ \A i \in e + 1 .. a : line[i] = Blank
      /\ a < L - 1 => line[a + 1] # Blank
  BY DEF Split
<1>4. Blank # Newline /\ Blank # Nul /\ Newline # Nul
  BY DEF Blank, Newline, Nul
<1> HIDE DEF L, c
<1>5. SkipBlanks(c, 1) = b + 1
  <2>1. b + 1 \in 1 .. Len(c) /\ Len(c) \in Nat
    BY <1>1, <1>2, <1>3
  <2>2. c[b + 1] # Blank
    BY <1>1, <1>2, <1>3, <1>4
  <2>3. \A j \in 1 .. b + 1 - 1 : c[j] = Blank
    BY <1>1, <1>2, <1>3
  <2> QED
    <3>1. StartsAt(c, 1, b + 1)
      BY <1>1, <1>3, <2>1, <2>2, <2>3 DEF StartsAt
    <3> QED
      BY <2>1, <3>1, SkipBlanksIs
<1>6. Upto(c, b + 1, {Nul, Newline, Blank}) = e + 1
  <2>1. e + 1 \in b + 1 .. Len(c) /\ Len(c) \in Nat /\ b + 1 \in Nat
    BY <1>1, <1>2, <1>3
  <2>2. c[e + 1] \in {Nul, Newline, Blank}
    BY <1>1, <1>2, <1>3, <1>4
  <2>3. \A j \in b + 1 .. e + 1 - 1 : c[j] \notin {Nul, Newline, Blank}
    BY <1>1, <1>2, <1>3
  <2>4. StopsAt(c, b + 1, {Nul, Newline, Blank}, e + 1)
    BY <1>1, <1>3, <2>1, <2>2, <2>3 DEF StopsAt
  <2> QED
    BY <2>1, <2>4, UptoIs
<1>7. SkipBlanks(c, e + 1) = a + 1
  <2>1. a + 1 \in e + 1 .. Len(c) /\ Len(c) \in Nat /\ e + 1 \in Nat
    BY <1>1, <1>2, <1>3
  <2>2. c[a + 1] # Blank
    <3>1. CASE a < L - 1
      <4>1. a + 1 \in 1 .. L - 1
        BY <1>1, <1>3, <3>1
      <4> QED
        BY <1>2, <1>3, <3>1, <4>1
    <3>2. CASE a = L - 1
      <4>1. a + 1 = L
        BY <1>1, <3>2
      <4> QED
        BY <1>2, <1>4, <4>1
    <3> QED
      BY <1>1, <1>3, <3>1, <3>2, SMTT(30)
  <2>3. \A j \in e + 1 .. a + 1 - 1 : j \in 1 .. L - 1 /\ j \in e + 1 .. a
    BY <1>1, <1>3
  <2>4. StartsAt(c, e + 1, a + 1)
    BY <1>2, <1>3, <2>1, <2>2, <2>3 DEF StartsAt
  <2> QED
    BY <2>1, <2>4, SkipBlanksIs
<1> DEFINE rest == SubSeq(c, a + 1, BUF_SIZE)
           argument == ArgumentAt(c, e + 1, a + 1, old)
<1>8. parse_cmd(c, old) = ParsedAt(c, b + 1, e + 1, a + 1, old)
  BY <1>5, <1>6, <1>7, ParsedFrom
<1>9. \A k, l : k \in 0 .. l /\ l \in 0 .. L - 1 => SubSeq(c, k + 1, l) = SubSeq(line, k + 1, l)
  <2> SUFFICES ASSUME NEW k, NEW l, k \in 0 .. l, l \in 0 .. L - 1
               PROVE  SubSeq(c, k + 1, l) = SubSeq(line, k + 1, l)
    OBVIOUS
  <2>1. k \in Nat /\ l \in Nat /\ k <= l /\ l <= Len(c) /\ l <= Len(line)
    BY <1>1, <1>2 DEF L
  <2>2. /\ SubSeq(c, k + 1, l) \in Seq(Characters) /\ Len(SubSeq(c, k + 1, l)) = l - k
        /\ \A i \in 1 .. l - k : SubSeq(c, k + 1, l)[i] = c[k + i]
    BY <1>2, <2>1, Part
  <2>3. /\ SubSeq(line, k + 1, l) \in Seq(Characters) /\ Len(SubSeq(line, k + 1, l)) = l - k
        /\ \A i \in 1 .. l - k : SubSeq(line, k + 1, l)[i] = line[k + i]
    BY <1>1, <2>1, Part
  <2>4. \A i \in 1 .. l - k : k + i \in 1 .. L - 1
    BY <1>1
  <2> QED
    BY <1>2, <2>2, <2>3, <2>4, SeqEqual
<1>10. SubSeq(c, b + 1, e) = SubSeq(line, b + 1, e)
  <2>1. e \in 0 .. L - 1 /\ b \in 0 .. e
    BY <1>1, <1>3
  <2> QED
    BY <1>9, <2>1
<1>11. ASSUME L < BUF_SIZE \/ a < L - 1
       PROVE  getargs(argument) = SubSeq(line, a + 1, L - 1)
  <2>1. c[a + 1] # Nul
    BY <1>1, <1>2, <1>3, <1>4, <1>11
  <2>2. CASE c[e + 1] = Newline
    <3>1. e = L - 1 /\ a = L - 1
      BY <1>1, <1>2, <1>3, <1>4, <2>2
    <3>2. argument = <<>>
      BY <2>1, <2>2 DEF ArgumentAt
    <3>3. getargs(<<>>) = <<>>
      BY NothingParsed
    <3>4. SubSeq(line, a + 1, L - 1) = <<>>
      BY <1>1, <3>1, SubSeqEmpty
    <3> QED
      BY <3>2, <3>3, <3>4
  <2>3. CASE c[e + 1] # Newline
    <3> DEFINE m == IF L < BUF_SIZE THEN L ELSE L - 1
    <3>1. argument = CString(rest)
      BY <2>1, <2>3 DEF ArgumentAt
    <3>2. m \in Nat /\ a \in 0 .. m /\ m < BUF_SIZE /\ c[m + 1] = Nul /\ \A i \in a + 1 .. m : c[i] # Nul
      <4>1. m \in Nat /\ a \in 0 .. m /\ m < BUF_SIZE
        BY <1>1, <1>3
      <4>2. c[m + 1] = Nul
        <5>1. CASE L < BUF_SIZE
          <6>1. m + 1 \in L + 1 .. BUF_SIZE + 1
            BY <1>1, <5>1
          <6> QED
            BY <1>2, <6>1
        <5>2. CASE L = BUF_SIZE
          <6>1. m + 1 = L
            BY <1>1, <5>2
          <6> QED
            BY <1>2, <5>2, <6>1
        <5> QED
          BY <1>1, <5>1, <5>2
      <4>3. \A i \in a + 1 .. m : i \in 1 .. L - 1 \/ (i = L /\ L < BUF_SIZE)
        BY <1>1, <1>3
      <4>4. \A i \in a + 1 .. m : c[i] # Nul
        BY <1>1, <1>2, <1>4, <4>3
      <4> QED
        BY <4>1, <4>2, <4>4
    <3>3. (m = L \/ m = L - 1) /\ L - 1 <= m /\ (m = L => c[L] = Newline)
      BY <1>1, <1>2
    <3> HIDE DEF m
    <3>4. /\ rest \in Seq(Characters) /\ Len(rest) = BUF_SIZE - a
          /\ \A i \in 1 .. BUF_SIZE - a : rest[i] = c[a + i]
      <4>1. a \in Nat /\ BUF_SIZE \in Nat /\ a <= BUF_SIZE /\ BUF_SIZE <= Len(c)
        BY <1>1, <1>2, <3>2
      <4> QED
        BY <1>2, <4>1, Part
    <3> HIDE DEF rest
    <3>5. Upto(Append(rest, Nul), 1, {Nul}) = m - a + 1
      <4> DEFINE s == Append(rest, Nul)
      <4>1. Len(s) = BUF_SIZE - a + 1 /\ \A i \in 1 .. BUF_SIZE - a : s[i] = c[a + i]
        BY <1>1, <3>4, AppendProperties
      <4> HIDE DEF s
      <4>2. m - a + 1 \in 1 .. Len(s) /\ Len(s) \in Nat /\ m - a + 1 \in 1 .. BUF_SIZE - a /\ a + (m - a + 1) = m + 1
        BY <1>1, <3>2, <4>1
      <4>3. s[m - a + 1] \in {Nul}
        BY <3>2, <4>1, <4>2
      <4>4. \A j \in 1 .. m - a + 1 - 1 : s[j] \notin {Nul}
        <5>1. \A j \in 1 .. m - a + 1 - 1 : j \in 1 .. BUF_SIZE - a /\ a + j \in a + 1 .. m
          BY <1>1, <3>2
        <5> QED
          BY <3>2, <4>1, <5>1
      <4> QED
        <5>1. StopsAt(s, 1, {Nul}, m - a + 1)
          BY <1>1, <1>3, <3>2, <4>2, <4>3, <4>4 DEF StopsAt
        <5> QED
          BY <4>2, <5>1, UptoIs DEF s
    <3> DEFINE q == SubSeq(c, a + 1, m)
    <3>6. CString(rest) = q
      <4>1. m - a + 1 - 1 = m - a /\ m - a \in Nat /\ m - a <= BUF_SIZE - a /\ BUF_SIZE \in Nat
            /\ a \in Nat /\ BUF_SIZE <= Len(c) /\ a <= BUF_SIZE /\ a + 0 = a /\ a + (m - a) = m /\ 0 \in Nat /\ 0 + 1 = 1
        BY <1>1, <1>2, <3>2, SMTT(30)
      <4>2. SubSeq(SubSeq(c, a + 1, BUF_SIZE), 0 + 1, m - a) = SubSeq(c, a + 0 + 1, a + (m - a))
        BY <1>2, <4>1, PartOfPart
      <4> QED
        <5>1. CString(rest) = SubSeq(rest, 1, m - a)
          <6>1. m - a \in Int
            BY <4>1
          <6>2. Upto(Append(rest, Nul), 1, {Nul}) = (m - a) + 1
            BY <3>5
          <6> QED
            BY <6>1, <6>2, CStringIs, Zenon
        <5> QED
          BY <4>1, <4>2, <5>1 DEF rest
    <3>7. q \in Seq(Characters) /\ Len(q) = m - a /\ \A i \in 1 .. m - a : q[i] = c[a + i]
      <4>1. a \in Nat /\ a <= m /\ m <= Len(c)
        BY <1>1, <1>2, <3>2
      <4> QED
        BY <1>2, <3>2, <4>1, Part
    <3> DEFINE n == L - 1 - a
    <3>8. Upto(Append(q, Newline), 1, {Newline}) = n + 1
      <4> DEFINE s == Append(q, Newline)
      <4> HIDE DEF q
      <4>1. Len(s) = m - a + 1 /\ s[m - a + 1] = Newline /\ \A i \in 1 .. m - a : s[i] = c[a + i]
        BY <1>1, <3>7, AppendProperties
      <4> HIDE DEF s
      <4>2. n + 1 \in 1 .. Len(s) /\ Len(s) \in Nat
        BY <1>1, <1>3, <3>2, <3>3, <4>1
      <4>3. s[n + 1] \in {Newline}
        <5>1. CASE m = L
          <6>1. n + 1 \in 1 .. m - a /\ a + (n + 1) = L
            BY <1>1, <1>3, <5>1
          <6> QED
            BY <3>3, <4>1, <5>1, <6>1
        <5>2. CASE m = L - 1
          BY <4>1, <5>2
        <5> QED
          BY <3>3, <5>1, <5>2
      <4>4. \A j \in 1 .. n + 1 - 1 : s[j] \notin {Newline}
        <5>1. \A j \in 1 .. n + 1 - 1 : j \in 1 .. m - a /\ a + j \in 1 .. L - 1
          BY <1>1, <1>3, <3>2, <3>3
        <5> QED
          BY <1>1, <1>2, <4>1, <5>1
      <4> QED
        <5>1. StopsAt(s, 1, {Newline}, n + 1)
          BY <1>1, <1>3, <3>2, <4>2, <4>3, <4>4 DEF StopsAt
        <5> QED
          BY <4>2, <5>1, UptoIs DEF s
    <3>9. SubSeq(q, 1, n) = SubSeq(c, a + 1, L - 1)
      <4>1. n \in Nat /\ n <= m - a /\ a \in Nat /\ m <= Len(c) /\ a <= m /\ a + 0 = a /\ a + n = L - 1 /\ 0 \in Nat /\ 0 + 1 = 1
        BY <1>1, <1>2, <1>3, <3>2, <3>3
      <4> HIDE DEF n
      <4>2. SubSeq(SubSeq(c, a + 1, m), 0 + 1, n) = SubSeq(c, a + 0 + 1, a + n)
        BY <1>2, <3>2, <4>1, PartOfPart
      <4> QED
        BY <4>1, <4>2
    <3>10. SubSeq(c, a + 1, L - 1) = SubSeq(line, a + 1, L - 1)
      <4>1. a \in 0 .. L - 1 /\ L - 1 \in 0 .. L - 1
        BY <1>1, <1>3
      <4> QED
        BY <1>9, <4>1
    <3>11. getargs(q) = SubSeq(q, 1, n)
      <4>1. n \in Int
        BY <1>1, <1>3
      <4> HIDE DEF q, n
      <4> QED
        BY <3>8, <4>1, GetargsIs
    <3> QED
      BY <3>1, <3>6, <3>9, <3>10, <3>11
  <2> QED
    BY <2>2, <2>3
<1> HIDE DEF argument
<1>12. /\ parse_cmd(c, old).name = SubSeq(line, b + 1, e)
       /\ parse_cmd(c, old).argument = argument
  <2> DEFINE f == e + 1
  <2>1. f - 1 = e
    BY <1>1, <1>3
  <2> HIDE DEF f
  <2>2. ParsedAt(c, b + 1, f, a + 1, old).name = SubSeq(c, b + 1, f - 1)
    BY DEF ParsedAt
  <2>3. ParsedAt(c, b + 1, f, a + 1, old).argument = ArgumentAt(c, f, a + 1, old)
    BY DEF ParsedAt
  <2> QED
    BY <1>8, <1>10, <2>1, <2>2, <2>3 DEF argument, f
<1>13. /\ SaidBy(line, b, e, a).word = SubSeq(line, b + 1, e)
       /\ SaidBy(line, b, e, a).argument = SubSeq(line, a + 1, L - 1)
  BY DEF SaidBy, L
<1> QED
  BY <1>11, <1>12, <1>13 DEF L, c
-----------------------------------------------------------------------------
(* What every typed line says is what is run, and with it.                 *)
LEMMA TypedSaid ==
    ASSUME NEW line \in Lines, NEW old
    PROVE  LET parsed == parse_cmd(ShellLine(line), old)
           IN  /\ parsed.name = Says(line).word
               /\ \/ Len(line) = BUF_SIZE /\ Says(line).argument = <<>>
                  \/ getargs(parsed.argument) = Says(line).argument
               /\ Says(line).argument \in Seq(Characters)
<1>1. TypedLine(line)
  BY SessionAssumption
<1>2. PICK b, e, a : Split(line, b, e, a) /\ Says(line) = SaidBy(line, b, e, a)
  BY <1>1, SaysSplit
<1>3. /\ parse_cmd(ShellLine(line), old).name = Says(line).word
      /\ Len(line) < BUF_SIZE \/ a < Len(line) - 1 =>
           getargs(parse_cmd(ShellLine(line), old).argument) = Says(line).argument
  BY <1>1, <1>2, Parses
<1>4. Says(line).argument = SubSeq(line, a + 1, Len(line) - 1)
  <2>1. SaidBy(line, b, e, a).argument = SubSeq(line, a + 1, Len(line) - 1)
    BY DEF SaidBy
  <2> QED
    BY <1>2, <2>1
<1>5. line \in Seq(Characters) /\ Len(line) \in 1 .. BUF_SIZE /\ a \in 0 .. Len(line) - 1 /\ BUF_SIZE \in Nat
  BY <1>1, <1>2, CommandLineAssumption DEF TypedLine, Split
<1>6. Says(line).argument \in Seq(Characters)
  <2>1. a \in Nat /\ Len(line) - 1 \in Nat /\ a <= Len(line) - 1 /\ Len(line) - 1 <= Len(line)
    BY <1>5
  <2> QED
    BY <1>4, <1>5, <2>1, Part
<1>7. CASE Len(line) = BUF_SIZE /\ a = Len(line) - 1
  <2>1. SubSeq(line, a + 1, Len(line) - 1) = <<>>
    BY <1>5, <1>7, SubSeqEmpty
  <2> QED
    BY <1>3, <1>4, <1>6, <1>7, <2>1
<1>8. CASE ~(Len(line) = BUF_SIZE /\ a = Len(line) - 1)
  <2>1. Len(line) < BUF_SIZE \/ a < Len(line) - 1
    BY <1>5, <1>8
  <2> QED
    BY <1>3, <1>6, <2>1
<1> QED
  BY <1>7, <1>8

LEMMA TypedAsked ==
    ASSUME NEW line \in Lines, Typed(line)
    PROVE  /\ asked'.word = Parsed(line).name
           /\ asked'.argument # Garbage =>
                asked'.argument = getargs(Parsed(line).argument) /\ asked'.argument \in Seq(Characters)
<1>1. /\ Parsed(line).name = Says(line).word
      /\ \/ Len(line) = BUF_SIZE /\ Says(line).argument = <<>>
         \/ getargs(Parsed(line).argument) = Says(line).argument
      /\ Says(line).argument \in Seq(Characters)
  BY TypedSaid DEF Parsed
<1>2. CASE Len(line) = BUF_SIZE /\ Says(line).argument = <<>>
  <2>1. asked' = [word |-> Says(line).word, argument |-> Garbage]
    BY <1>2 DEF Typed
  <2> QED
    BY <1>1, <2>1
<1>3. CASE ~(Len(line) = BUF_SIZE /\ Says(line).argument = <<>>)
  <2>1. asked' = Says(line)
    BY <1>3 DEF Typed
  <2> QED
    BY <1>1, <1>3, <2>1
<1> QED
  BY <1>2, <1>3

LEMMA RunningIs ==
    /\ DOMAIN Running = {"cat", "cat_read", "grep", "grep_next", "grep_read", "grep_scan",
                         "ls", "hello", "counter"}
    /\ Running["cat"] = "cat" /\ Running["cat_read"] = "cat"
    /\ Running["grep"] = "grep" /\ Running["grep_next"] = "grep" /\ Running["grep_read"] = "grep"
    /\ Running["grep_scan"] = "grep"
    /\ Running["ls"] = "ls" /\ Running["hello"] = "hello" /\ Running["counter"] = "counter"
  BY DEF Running

Shells == \E S : shells \in Seq(S)

LEMMA ShellsAlways == Shells /\ Here \in Nat \ {0} /\ [Next]_vars => Shells'
<1> SUFFICES ASSUME Shells, Here \in Nat \ {0}, [Next]_vars PROVE Shells'
  OBVIOUS
<1>1. PICK S : shells \in Seq(S)
  BY DEF Shells
<1>2. ASSUME NEW line \in Lines PROVE \E T : Stored(line) \in Seq(T) /\ Len(Stored(line)) = Here
  <2> DEFINE T == S \cup {Parsed(line).argument}
  <2>1. shells \in Seq(T)
    BY <1>1, SeqMonotonic
  <2>2. Here \in 1 .. Len(shells)
    BY DEF Here
  <2> QED
    BY <2>1, <2>2, ExceptSeq DEF Stored, Here
<1>3. ASSUME NEW line \in Lines, ExecuteExit(line) PROVE Shells'
  <2>1. \A i \in 1 .. Here - 1 : shells[i] \in S
    BY <1>1, ElementOfSeq DEF Here
  <2>2. SubSeq(shells, 1, Here - 1) \in Seq(S)
    BY <2>1, SubSeqProperties
  <2> QED
    BY <1>3, <2>2 DEF ExecuteExit, Shells
<1>4. ASSUME NEW line \in Lines, ExecuteFails(line) PROVE Shells'
  BY <1>2, <1>4 DEF ExecuteFails, Shells
<1>5. ASSUME NEW line \in Lines, Execute(line) PROVE Shells'
  <2>1. PICK T : Stored(line) \in Seq(T) /\ Len(Stored(line)) = Here
    BY <1>2
  <2>2. Stored(line) \in Seq(T \cup {Garbage})
    BY <2>1, SeqMonotonic
  <2>3. Append(Stored(line), Garbage) \in Seq(T \cup {Garbage})
    BY <2>2, AppendProperties
  <2> QED
    BY <1>5, <2>1, <2>3 DEF Execute, Shells
<1>6. CASE UNCHANGED shells
  BY <1>1, <1>6 DEF Shells
<1> QED
  BY <1>3, <1>4, <1>5, <1>6 DEF Next, vars, Hello, Counter, Rest, Shell, NoArgument, CatOpen, CatRead, CatNames,
     Ls, GrepStart, GrepNext, GrepRead, GrepScan, Prompt

(* Who runs, with what, and what the shell says of it, at every step.      *)
LEMMA Sizes == BUFSIZE \in Nat \ {0} /\ Slots \in Nat \ {0} /\ Len(Directory) \in Nat
  BY SessionAssumption

LEMMA CommandedInit == Init => Commanded /\ Shells
<1> SUFFICES ASSUME Init PROVE Commanded /\ Shells
  OBVIOUS
<1>1. shells = <<Garbage>> /\ shells \in Seq({Garbage}) /\ Len(shells) = 1
  BY DEF Init
<1>2. pc = "prompt" /\ told = "nothing" /\ asked.argument = Garbage
  BY DEF Init, NoLine
<1>3. Here \in 1 .. Slots
  BY <1>1, Sizes DEF Here
<1>4. RunsWhatWasTyped
  BY <1>2 DEF RunsWhatWasTyped
<1> QED
  BY <1>1, <1>2, <1>3, <1>4, RunningIs DEF Commanded, Init, Shells

LEMMA ExitCommanded ==
    ASSUME Commanded, Shells, NEW line \in Lines, ExecuteExit(line)
    PROVE  Commanded'
<1>1. Typed(line) /\ Exits(line) /\ shells' = SubSeq(shells, 1, Here - 1) /\ End(0)
  BY DEF ExecuteExit
<1>2. pc' = "answered" /\ told' = "nothing" /\ text' = text
  BY <1>1 DEF End, Typed
<1>3. /\ asked'.word = Parsed(line).name
      /\ asked'.argument # Garbage => asked'.argument \in Seq(Characters)
  BY <1>1, TypedAsked
<1>4. IsExit(asked'.word) /\ Here > 1 /\ Here \in 1 .. Slots
  BY <1>1, <1>3 DEF Exits, Commanded
<1>5. Here' = Here - 1
  <2>1. PICK S : shells \in Seq(S)
    BY DEF Shells
  <2>2. \A i \in 1 .. Here - 1 : shells[i] \in S
    BY <2>1, ElementOfSeq DEF Here
  <2>3. Len(SubSeq(shells, 1, Here - 1)) = IF 1 <= Here - 1 THEN Here - 1 - 1 + 1 ELSE 0
    BY <1>4, <2>2, SubSeqProperties
  <2> QED
    BY <1>1, <1>4, <2>3 DEF Here
<1>6. Here' \in 1 .. Slots
  BY <1>4, <1>5, Sizes
<1>7. RunsWhatWasTyped'
  BY <1>2, <1>4 DEF RunsWhatWasTyped
<1> QED
  BY <1>2, <1>3, <1>6, <1>7, RunningIs DEF Commanded

LEMMA StoredIs ==
    ASSUME Shells, NEW line, Here \in Nat \ {0}
    PROVE  Len(Stored(line)) = Here /\ Stored(line)[Here] = Parsed(line).argument
<1>1. PICK S : shells \in Seq(S)
  BY DEF Shells
<1> DEFINE T == S \cup {Parsed(line).argument}
<1>2. shells \in Seq(T) /\ Here \in 1 .. Len(shells)
  BY <1>1, SeqMonotonic DEF Here
<1> QED
  BY <1>2, ExceptSeq DEF Stored, Here

LEMMA FailsCommanded ==
    ASSUME Commanded, Shells, NEW line \in Lines, ExecuteFails(line)
    PROVE  Commanded'
<1>1. /\ Typed(line) /\ ~Executable(Parsed(line).name) /\ shells' = Stored(line)
      /\ pc' = "answered" /\ told' = "no such command"
  BY DEF ExecuteFails
<1>2. text' = text /\ Here \in 1 .. Slots
  BY <1>1 DEF Typed, Commanded
<1>3. /\ asked'.word = Parsed(line).name
      /\ asked'.argument # Garbage => asked'.argument \in Seq(Characters)
  BY <1>1, TypedAsked
<1>4. Here' = Here
  <2>1. Here \in Nat \ {0}
    BY <1>2, Sizes
  <2>2. Len(Stored(line)) = Here
    BY <2>1, StoredIs
  <2> QED
    BY <1>1, <2>2 DEF Here
<1>5. asked'.word \notin DOMAIN Program \/ Here' = Slots
  <2>1. asked'.word \in DOMAIN Program => Named(asked'.word) # {}
    BY SessionAssumption DEF Named
  <2>2. CASE Here < Slots
    BY <1>1, <1>3, <2>1, <2>2 DEF Executable
  <2>3. CASE ~(Here < Slots)
    BY <1>2, <1>4, <2>3, Sizes
  <2> QED
    BY <2>2, <2>3
<1>6. RunsWhatWasTyped'
  BY <1>1, <1>5 DEF RunsWhatWasTyped
<1> QED
  BY <1>1, <1>2, <1>3, <1>4, <1>6, RunningIs DEF Commanded

LEMMA ExecuteCommanded ==
    ASSUME Commanded, Shells, NEW line \in Lines, Execute(line)
    PROVE  Commanded'
<1> DEFINE program == Program[Parsed(line).name]
<1>1. /\ Typed(line) /\ Executable(Parsed(line).name) /\ told' = told
      /\ IF program = "shell" THEN shells' = Append(Stored(line), Garbage) /\ pc' = "prompt"
         ELSE shells' = Stored(line) /\ pc' = program
  BY DEF Execute
<1>2. text' = text /\ Here \in 1 .. Slots /\ told' = "nothing"
  BY <1>1 DEF Typed, Commanded
<1>3. /\ asked'.word = Parsed(line).name
      /\ asked'.argument # Garbage =>
           asked'.argument = getargs(Parsed(line).argument) /\ asked'.argument \in Seq(Characters)
  BY <1>1, TypedAsked
<1>4. Parsed(line).name \in DOMAIN Program /\ Here < Slots
  BY <1>1 DEF Executable
<1>5. program \in Programs
  BY <1>4, SessionAssumption
<1>6. Len(Stored(line)) = Here /\ Stored(line)[Here] = Parsed(line).argument
  BY <1>2, StoredIs, Sizes
<1>7. CASE program = "shell"
  <2>1. Here' = Here + 1
    <3>1. shells' = Append(Stored(line), Garbage)
      BY <1>1, <1>7
    <3>2. PICK S : shells \in Seq(S)
      BY DEF Shells
    <3> DEFINE T == S \cup {Parsed(line).argument, Garbage}
    <3>3. shells \in Seq(T) /\ Here \in 1 .. Len(shells)
      BY <1>2, <3>2, SeqMonotonic, Sizes DEF Here
    <3>4. Stored(line) \in Seq(T)
      BY <3>3, ExceptSeq DEF Stored
    <3>5. Len(Append(Stored(line), Garbage)) = Len(Stored(line)) + 1
      BY <3>4, AppendProperties
    <3> QED
      BY <1>6, <3>1, <3>5 DEF Here
  <2>2. pc' = "prompt"
    BY <1>1, <1>7
  <2>3. RunsWhatWasTyped'
    BY <1>2, <2>2 DEF RunsWhatWasTyped
  <2>4. Here' \in 1 .. Slots
    BY <1>2, <1>4, <2>1, Sizes
  <2> QED
    BY <1>2, <1>3, <2>2, <2>3, <2>4, RunningIs DEF Commanded
<1>8. CASE program # "shell"
  <2>1. shells' = Stored(line) /\ pc' = program /\ pc' \in {"cat", "grep", "ls", "hello", "counter"}
    BY <1>1, <1>5, <1>8 DEF Programs
  <2>2. Here' = Here /\ shells'[Here'] = Parsed(line).argument
    BY <1>6, <2>1 DEF Here
  <2>3. Runs(pc)'
    BY <1>3, <1>4, <2>1 DEF Runs
  <2>4. RunsWhatWasTyped'
    <3>1. \A p \in {"cat", "grep", "ls", "hello", "counter"} : pc' = p => Runs(p)'
      BY <2>3 DEF Runs
    <3>2. asked'.argument # Garbage => asked'.argument = getargs(shells'[Here'])
      BY <1>3, <2>2
    <3> QED
      BY <1>2, <2>1, <3>1, <3>2 DEF RunsWhatWasTyped
  <2>5. pc' \in DOMAIN Running /\ Running[pc'] = pc'
    BY <2>1, RunningIs
  <2>6. Runs(Running[pc])'
    BY <2>3, <2>5 DEF Runs, Running
  <2> QED
    BY <1>2, <1>3, <2>1, <2>2, <2>4, <2>5, <2>6 DEF Commanded
<1> QED
  BY <1>7, <1>8

(* What the shell has stored and the line has said stays while its program *)
(* runs.                                                                   *)
LEMMA ProgramCommanded ==
    ASSUME Commanded, UNCHANGED <<text, shells, asked>>, pc' \in DOMAIN Running, pc \in DOMAIN Running,
           Running[pc'] = Running[pc], told' = told,
           pc' \notin {"cat", "grep"} \/ pc' = pc,
           pc' \in {"cat_read", "grep_next", "grep_read", "grep_scan"} =>
             \/ pc \in {"cat", "grep"} /\ arg' = getargs(shells[Here])
             \/ pc \in {"cat_read", "grep_next", "grep_read", "grep_scan"} /\ arg' = arg
    PROVE  Commanded'
<1>1. text' = text /\ shells' = shells /\ asked' = asked /\ told = "nothing"
  BY RunningIs DEF Commanded
<1>2. Here' = Here
  BY <1>1 DEF Here
<1>3. asked'.word \in DOMAIN Program /\ Program[asked'.word] = Running[pc']
  <2>1. Runs(Running[pc])
    BY DEF Commanded
  <2> QED
    BY <1>1, <2>1 DEF Runs
<1>4. pc' # "answered"
  BY RunningIs
<1>5. \A p \in {"cat", "grep", "ls", "hello", "counter"} : pc' = p => Runs(p)'
  BY <1>3, RunningIs DEF Runs
<1>6. asked'.argument # Garbage =>
        /\ pc' \in {"cat", "grep"} => asked'.argument = getargs(shells'[Here'])
        /\ pc' \in {"cat_read", "grep_next", "grep_read", "grep_scan"} => asked'.argument = arg'
  BY <1>1, <1>2 DEF Commanded, RunsWhatWasTyped
<1>7. RunsWhatWasTyped'
  BY <1>1, <1>4, <1>5, <1>6 DEF RunsWhatWasTyped
<1>8. Runs(Running[pc])'
  <2>1. Running[pc]' = Running[pc']
    BY DEF Running
  <2> QED
    BY <1>3, <2>1 DEF Runs
<1> QED
  BY <1>1, <1>2, <1>4, <1>7, <1>8 DEF Commanded

(* A program that ends was there.                                          *)
LEMMA EndCommanded ==
    ASSUME Commanded, UNCHANGED <<text, shells, asked>>, pc \in DOMAIN Running, NEW status, End(status)
    PROVE  Commanded'
<1>1. text' = text /\ shells' = shells /\ asked' = asked /\ pc' = "answered"
      /\ told' \in {"nothing", "abnormal"}
  BY DEF End
<1>2. Here' = Here
  BY <1>1 DEF Here
<1>3. asked.word \in DOMAIN Program
  BY DEF Commanded, Runs
<1>4. RunsWhatWasTyped'
  BY <1>1, <1>3 DEF RunsWhatWasTyped
<1> QED
  BY <1>1, <1>2, <1>4, RunningIs DEF Commanded

LEMMA PromptCommanded == ASSUME Commanded, Prompt PROVE Commanded'
<1>1. pc' = "prompt" /\ asked' = NoLine /\ told' = "nothing" /\ text' = text /\ shells' = shells
  BY DEF Prompt
<1>2. asked'.argument = Garbage
  BY <1>1 DEF NoLine
<1>3. Here' = Here
  BY <1>1 DEF Here
<1>4. RunsWhatWasTyped'
  BY <1>1, <1>2 DEF RunsWhatWasTyped
<1> QED
  BY <1>1, <1>2, <1>3, <1>4, RunningIs DEF Commanded

LEMMA CommandedStep == ASSUME Commanded, Shells, [Next]_vars PROVE Commanded'
<1> USE RunningIs
<1>1. CASE \E line \in Lines : ExecuteExit(line) \/ ExecuteFails(line) \/ Execute(line)
  BY <1>1, ExitCommanded, FailsCommanded, ExecuteCommanded
<1>2. ASSUME NEW line \in Lines, Hello(line) \/ Counter(line) PROVE Commanded'
  <2>1. End(0) /\ UNCHANGED <<text, shells, asked>> /\ pc \in DOMAIN Running
    BY <1>2 DEF Hello, Counter, Rest
  <2> QED
    BY <2>1, EndCommanded
<1>3. CASE NoArgument("cat") \/ NoArgument("grep")
  <2>1. End(3) /\ UNCHANGED <<text, shells, asked>> /\ pc \in DOMAIN Running
    BY <1>3 DEF NoArgument, Rest
  <2> QED
    BY <2>1, EndCommanded
<1>4. CASE CatOpen
  <2>1. pc = "cat" /\ UNCHANGED <<text, shells, asked>> /\ arg' = getargs(shells[Here])
    BY <1>4 DEF CatOpen, Rest
  <2>2. End(2) \/ (pc' = "cat_read" /\ told' = told)
    BY <1>4 DEF CatOpen
  <2>3. CASE End(2)
    BY <2>1, <2>3, EndCommanded
  <2>4. CASE pc' = "cat_read" /\ told' = told
    BY <2>1, <2>4, ProgramCommanded
  <2> QED
    BY <2>2, <2>3, <2>4
<1>5. CASE CatRead \/ CatNames \/ Ls
  <2>1. UNCHANGED <<text, shells, asked, arg>> /\ pc \in {"cat_read", "ls"}
    BY <1>5 DEF CatRead, CatNames, Ls, Rest
  <2>2. End(0) \/ (pc' = pc /\ told' = told)
    BY <1>5 DEF CatRead, CatNames, Ls
  <2>3. CASE End(0)
    BY <2>1, <2>3, EndCommanded
  <2>4. CASE pc' = pc /\ told' = told
    BY <2>1, <2>4, ProgramCommanded
  <2> QED
    BY <2>2, <2>3, <2>4
<1>6. CASE GrepStart
  <2>1. /\ pc = "grep" /\ UNCHANGED <<text, shells, asked>> /\ arg' = getargs(shells[Here])
        /\ pc' = "grep_next" /\ told' = told
    BY <1>6 DEF GrepStart, Shell
  <2> QED
    BY <2>1, ProgramCommanded
<1>7. CASE GrepNext
  <2>1. UNCHANGED <<text, shells, asked, arg>> /\ pc = "grep_next"
    BY <1>7 DEF GrepNext, Shell
  <2>2. End(0) \/ (pc' \in {"grep_next", "grep_read"} /\ told' = told)
    <3>1. CASE entry > Len(Directory)
      BY <1>7, <3>1 DEF GrepNext
    <3>2. CASE ~(entry > Len(Directory)) /\ entry <= Len(Directory) /\ Hidden(entry)
      BY <1>7, <2>1, <3>2 DEF GrepNext
    <3>3. CASE ~(entry > Len(Directory)) /\ ~(entry <= Len(Directory) /\ Hidden(entry))
      BY <1>7, <3>3 DEF GrepNext
    <3> QED
      BY <3>1, <3>2, <3>3
  <2>3. CASE End(0)
    BY <2>1, <2>3, EndCommanded
  <2>4. CASE pc' \in {"grep_next", "grep_read"} /\ told' = told
    BY <2>1, <2>4, ProgramCommanded
  <2> QED
    BY <2>2, <2>3, <2>4
<1>8. CASE GrepRead
  <2>1. UNCHANGED <<text, shells, asked, arg, told>> /\ pc = "grep_read" /\ pc' = "grep_scan"
    BY <1>8 DEF GrepRead, Shell
  <2> QED
    BY <2>1, ProgramCommanded
<1>9. CASE GrepScan
  <2>1. UNCHANGED <<text, shells, asked, arg, told>> /\ pc = "grep_scan"
    BY <1>9 DEF GrepScan, Shell
  <2>2. pc' \in {"grep_scan", "grep_read", "grep_next"}
    BY <1>9, <2>1 DEF GrepScan, Carry, Search
  <2> QED
    BY <2>1, <2>2, ProgramCommanded
<1>10. CASE Prompt
  BY <1>10, PromptCommanded
<1>11. CASE UNCHANGED vars
  <2>1. /\ UNCHANGED <<text, shells, asked, arg, told, pc>>
    BY <1>11 DEF vars
  <2> QED
    BY <2>1 DEF Commanded, Here, Runs, RunsWhatWasTyped, Running
<1> QED
  BY <1>1, <1>2, <1>3, <1>4, <1>5, <1>6, <1>7, <1>8, <1>9, <1>10, <1>11 DEF Next

LEMMA CommandedAlways == Spec => [](Commanded /\ Shells)
<1>1. Commanded /\ Shells /\ [Next]_vars => (Commanded /\ Shells)'
  <2>1. Commanded => Here \in Nat \ {0}
    BY Sizes DEF Commanded
  <2> QED
    BY <2>1, CommandedStep, ShellsAlways
<1> QED
  BY <1>1, CommandedInit, PTL DEF Spec

(* What runs is what was typed, with the argument that was typed, however  *)
(* many blanks stand in the line and whatever the PCB held before          *)
(* (parse_cmd and execute of syscall.c, getargs).                          *)
THEOREM RunsAsTyped == Spec => []RunsWhatWasTyped
<1>1. Commanded => RunsWhatWasTyped
  BY DEF Commanded
<1> QED
  BY <1>1, CommandedAlways, PTL

-----------------------------------------------------------------------------
(* What cat has written when it has ended.                                 *)
Done(program) == pc = "answered" /\ told # "no such command" /\ asked.argument # Garbage /\ Runs(program)
CatDone == Done("cat") => \A e \in Named(asked.argument) : Directory[e].type # "dir" => out = Bytes(e)

LEMMA NamedOnce == \A name, d, e : d \in Named(name) /\ e \in Named(name) => d = e
  BY SessionAssumption DEF Named

LEMMA NothingNameless == Named(<<>>) = {}
  BY SessionAssumption DEF Named

LEMMA ProgramsNotExit == \A name \in DOMAIN Program : Program[name] \in Programs /\ ~IsExit(name)
  BY SessionAssumption

(* Nothing but text files changes what a file holds, and that stays.       *)
LEMMA BytesStay == ASSUME text' = text PROVE \A e : Bytes(e)' = Bytes(e)
  BY DEF Bytes

LEMMA BytesAre ==
    ASSUME Commanded, NEW e \in Entries, Directory[e].type # "dir"
    PROVE  Bytes(e) \in Seq(FileBytes) /\ Len(Bytes(e)) \in Nat
<1>1. Bytes(e) \in Seq(FileBytes)
  <2>1. CASE Directory[e].type = "text"
    <3>1. text \in [TextNames -> Seq(Characters \ {Nul})]
      BY SessionAssumption DEF Commanded
    <3>2. Directory[e].name \in TextNames
      BY <2>1 DEF TextNames
    <3>3. text[Directory[e].name] \in Seq(FileBytes)
      BY <3>1, <3>2, SeqMonotonic DEF FileBytes
    <3> QED
      BY <2>1, <3>3 DEF Bytes
  <2>2. CASE Directory[e].type = "program"
    <3>1. <<"ELF">> \in Seq(FileBytes)
      BY DEF FileBytes
    <3> QED
      BY <2>2, <3>1 DEF Bytes
  <2>3. CASE Directory[e].type = "rtc"
    BY <2>3 DEF Bytes
  <2>4. Directory[e].type \in {"text", "program", "rtc"}
    BY SessionAssumption
  <2> QED
    BY <2>1, <2>2, <2>3, <2>4
<1> QED
  BY <1>1, LenProperties

(* Where something else than cat runs there is nothing to show.            *)
LEMMA OtherPrograms ==
    ASSUME NEW p, Runs(p)', p # "cat", Copied, pc' \notin {"prompt", "cat", "grep", "cat_read"}
    PROVE  Copied' /\ CatDone'
  BY DEF Copied, CatDone, Done, Runs

LEMMA CatTyped ==
    ASSUME Commanded, Copied, NEW line \in Lines, ExecuteExit(line) \/ ExecuteFails(line) \/ Execute(line)
    PROVE  Copied' /\ CatDone'
<1>1. pc = "prompt" /\ out' = out /\ entry' = entry /\ pos' = pos
  BY DEF ExecuteExit, ExecuteFails, Execute, Typed, fileVars
<1>2. out' = <<>> /\ entry' = 1 /\ pos' = 0
  BY <1>1 DEF Copied
<1>3. CASE ExecuteExit(line)
  <2>1. Typed(line) /\ Exits(line) /\ pc' = "answered"
    BY <1>3 DEF ExecuteExit, End
  <2>2. IsExit(asked'.word)
    BY <2>1, TypedAsked DEF Exits
  <2> QED
    BY <1>2, <2>1, <2>2, ProgramsNotExit DEF Copied, CatDone, Done, Runs
<1>4. CASE ExecuteFails(line)
  BY <1>2, <1>4 DEF ExecuteFails, Copied, CatDone, Done
<1>5. CASE Execute(line)
  <2>1. Program[Parsed(line).name] \in Programs
    BY <1>5, ProgramsNotExit DEF Execute, Executable
  <2>2. pc' \in {"prompt", "cat", "grep", "ls", "hello", "counter"}
    BY <1>5, <2>1 DEF Execute, Programs
  <2> QED
    BY <1>2, <2>2 DEF Copied, CatDone, Done
<1> QED
  BY <1>3, <1>4, <1>5

LEMMA CatOpens ==
    ASSUME Commanded, Copied, CatOpen
    PROVE  Copied' /\ CatDone'
<1>1. /\ pc = "cat" /\ arg' = getargs(shells[Here]) /\ text' = text /\ asked' = asked
      /\ pos' = pos /\ out' = out /\ Here \in 1 .. Slots
  BY DEF CatOpen, Rest, Quiet, Commanded
<1>2. asked.argument # Garbage => asked.argument = arg'
  BY <1>1 DEF Commanded, RunsWhatWasTyped
<1>3. pos' = 0 /\ out' = <<>>
  BY <1>1 DEF Copied
<1>4. CASE Named(arg') = {}
  <2>1. pc' = "answered"
    BY <1>4 DEF CatOpen, End
  <2> QED
    BY <1>1, <1>2, <1>4, <2>1 DEF Copied, CatDone, Done
<1>5. CASE Named(arg') # {}
  <2>1. pc' = "cat_read" /\ entry' \in Named(arg')
    BY <1>5 DEF CatOpen
  <2>2. Directory[entry'].type # "dir" => Len(Bytes(entry')) \in Nat /\ SubSeq(Bytes(entry'), 1, 0) = <<>>
    BY <2>1, BytesAre, SubSeqEmpty DEF Named
  <2>3. Bytes(entry)' = Bytes(entry')
    BY <1>1 DEF Bytes
  <2>4. Directory[entry'].type # "dir" => 0 \in 0 .. Len(Bytes(entry'))
    BY <2>2
  <2>5. CatDone'
    BY <2>1 DEF CatDone, Done
  <2>6. Copied'
    BY <1>3, <2>1, <2>2, <2>3, <2>4 DEF Copied, Named
  <2> QED
    BY <2>5, <2>6
<1> QED
  BY <1>4, <1>5

(* What a read gives: the bytes from pos on, none only where the file ends.*)
LEMMA ReadGives ==
    ASSUME Commanded, NEW e \in Entries, Directory[e].type # "dir", NEW n \in Nat, pos \in 0 .. Len(Bytes(e))
    PROVE  \E p : /\ p \in pos .. Len(Bytes(e)) /\ p - pos <= n
                  /\ Read(e, n) = SubSeq(Bytes(e), pos + 1, p)
                  /\ Len(Read(e, n)) = p - pos
                  /\ p = Len(Bytes(e)) \/ p - pos = n
<1> DEFINE p == Fewest(pos + n, Len(Bytes(e)))
<1>1. Bytes(e) \in Seq(FileBytes) /\ Len(Bytes(e)) \in Nat
  BY BytesAre
<1>2. p \in pos .. Len(Bytes(e)) /\ p - pos <= n /\ (p = Len(Bytes(e)) \/ p - pos = n)
  BY <1>1 DEF Fewest
<1>3. Read(e, n) = SubSeq(Bytes(e), pos + 1, p)
  BY DEF Read
<1> HIDE DEF p
<1>4. Len(SubSeq(Bytes(e), pos + 1, p)) = p - pos
  <2>1. pos \in Nat /\ p \in Nat /\ p <= Len(Bytes(e)) /\ pos <= p
    BY <1>1, <1>2
  <2> QED
    BY <1>1, <2>1, Part
<1> QED
  BY <1>2, <1>3, <1>4

LEMMA CatReads ==
    ASSUME Commanded, Copied, CatRead
    PROVE  Copied' /\ CatDone'
<1>1. /\ pc = "cat_read" /\ Directory[entry].type # "dir" /\ UNCHANGED <<text, shells, asked, arg, entry>>
      /\ out' = out \o Read(entry, BUFSIZE) /\ pos' = pos + Len(Read(entry, BUFSIZE))
      /\ IF Read(entry, BUFSIZE) = <<>> THEN End(0) ELSE UNCHANGED <<pc, told>>
  BY DEF CatRead, Rest, Write
<1>2. /\ entry \in Named(arg) /\ entry \in Entries
      /\ pos \in 0 .. Len(Bytes(entry)) /\ out = SubSeq(Bytes(entry), 1, pos)
  BY <1>1 DEF Copied, Named
<1>3. Bytes(entry) \in Seq(FileBytes) /\ Len(Bytes(entry)) \in Nat /\ BUFSIZE \in Nat /\ BUFSIZE > 0
  BY <1>1, <1>2, BytesAre, Sizes
<1>4. PICK p : /\ p \in pos .. Len(Bytes(entry)) /\ p - pos <= BUFSIZE
               /\ Read(entry, BUFSIZE) = SubSeq(Bytes(entry), pos + 1, p)
               /\ Len(Read(entry, BUFSIZE)) = p - pos
               /\ p = Len(Bytes(entry)) \/ p - pos = BUFSIZE
  BY <1>1, <1>2, <1>3, ReadGives
<1>5. pos' = p /\ out' = SubSeq(Bytes(entry), 1, p)
  <2>1. 1 \in 1 .. Len(Bytes(entry)) + 1 /\ pos \in 1 - 1 .. Len(Bytes(entry)) /\ p \in pos .. Len(Bytes(entry))
    BY <1>2, <1>3, <1>4
  <2>2. SubSeq(Bytes(entry), 1, pos) \o SubSeq(Bytes(entry), pos + 1, p) = SubSeq(Bytes(entry), 1, p)
    BY <1>3, <2>1, ConcatAdjacentSubSeq
  <2>3. pos' = p
    BY <1>1, <1>2, <1>3, <1>4
  <2> QED
    BY <1>1, <1>2, <1>4, <2>2, <2>3
<1>6. CASE Read(entry, BUFSIZE) = <<>>
  <2>1. pc' = "answered" /\ p = Len(Bytes(entry))
    <3>1. p - pos = 0
      BY <1>4, <1>6
    <3>2. p = Len(Bytes(entry))
      BY <1>3, <1>4, <3>1
    <3>3. pc' = "answered"
      BY <1>1, <1>6 DEF End
    <3> QED
      BY <3>2, <3>3
  <2>2. out' = Bytes(entry)
    BY <1>3, <1>5, <2>1, SubSeqFull
  <2>3. asked.argument # Garbage => asked.argument = arg
    BY <1>1 DEF Commanded, RunsWhatWasTyped
  <2>4. \A e \in Named(arg) : e = entry
    BY <1>2, NamedOnce
  <2>5. \A e : Bytes(e)' = Bytes(e)
    BY <1>1, BytesStay
  <2> QED
    BY <1>1, <2>1, <2>2, <2>3, <2>4, <2>5 DEF Copied, CatDone, Done, Named
<1>7. CASE Read(entry, BUFSIZE) # <<>>
  <2>1. pc' = "cat_read"
    BY <1>1, <1>7
  <2>2. Bytes(entry)' = Bytes(entry)
    BY <1>1 DEF Bytes
  <2>3. p \in 0 .. Len(Bytes(entry))
    BY <1>2, <1>3, <1>4
  <2> QED
    BY <1>1, <1>2, <1>5, <2>1, <2>2, <2>3 DEF Copied, CatDone, Done, Named
<1> QED
  BY <1>6, <1>7

LEMMA CatNamesDone ==
    ASSUME Commanded, Copied, CatNames
    PROVE  Copied' /\ CatDone'
<1>1. /\ pc = "cat_read" /\ Directory[entry].type = "dir" /\ UNCHANGED <<text, shells, asked, arg, entry>>
      /\ pc' \in {"cat_read", "answered"}
  BY DEF CatNames, Rest, End
<1>2. entry \in Named(arg)
  BY <1>1 DEF Copied
<1>3. asked.argument # Garbage => asked.argument = arg
  BY <1>1 DEF Commanded, RunsWhatWasTyped
<1>4. \A e \in Named(arg) : e = entry
  BY <1>2, NamedOnce
<1> QED
  BY <1>1, <1>2, <1>3, <1>4 DEF Copied, CatDone, Done, Named

LEMMA CopiedStep ==
    ASSUME Commanded, Shells, Copied, CatDone, [Next]_vars
    PROVE  Copied' /\ CatDone'
<1>1. CASE \E line \in Lines : ExecuteExit(line) \/ ExecuteFails(line) \/ Execute(line)
  BY <1>1, CatTyped
<1>2. CASE CatOpen \/ CatRead \/ CatNames
  BY <1>2, CatOpens, CatReads, CatNamesDone
<1>3. CASE NoArgument("cat")
  <2>1. pc = "cat" /\ pc' = "answered" /\ shells[Here] = <<>> /\ asked' = asked
    BY <1>3 DEF NoArgument, NoArgs, Rest, End
  <2>2. getargs(<<>>) = <<>>
    BY NothingParsed
  <2>3. asked.argument # Garbage => asked.argument = <<>>
    BY <2>1, <2>2 DEF Commanded, RunsWhatWasTyped
  <2> QED
    BY <2>1, <2>3, NothingNameless DEF Copied, CatDone, Done, Named
<1>4. CASE \/ \E line \in Lines : Hello(line) \/ Counter(line)
           \/ Ls \/ NoArgument("grep") \/ GrepStart \/ GrepNext \/ GrepRead \/ GrepScan
  <2>1. /\ pc \in {"hello", "counter", "ls", "grep", "grep_next", "grep_read", "grep_scan"} /\ asked' = asked
        /\ pc' \in {"answered", "ls", "grep_next", "grep_read", "grep_scan"}
    BY <1>4 DEF Hello, Counter, Ls, NoArgument, GrepStart, GrepNext, GrepRead, GrepScan, Rest, Shell, End, Carry, Search
  <2>2. Runs(Running[pc]) /\ Running[pc] # "cat"
    BY <2>1, RunningIs DEF Commanded
  <2>3. PICK p : p = Running[pc]
    OBVIOUS
  <2>4. Runs(p)'
    BY <2>1, <2>2, <2>3 DEF Runs
  <2> QED
    BY <2>1, <2>2, <2>3, <2>4, OtherPrograms
<1>5. CASE Prompt
  BY <1>5 DEF Prompt, Copied, CatDone, Done
<1>6. CASE UNCHANGED vars
  BY <1>6 DEF vars, fileVars, Copied, CatDone, Done, Runs, Named, Bytes
<1> QED
  BY <1>1, <1>2, <1>3, <1>4, <1>5, <1>6 DEF Next

-----------------------------------------------------------------------------
(* Pieces put one behind the other.                                        *)
Joined(x, y) == x \o y
Concats(g, N, piece) == g = [n \in 0 .. N |-> IF n = 0 THEN <<>> ELSE Joined(g[n - 1], piece[n])]

Grows(g, N, R, piece) ==
    /\ g[0] = <<>> /\ \A n \in 0 .. N : g[n] \in Seq(R)
    /\ \A n \in 1 .. N : g[n] = Joined(g[n - 1], piece[n])

LEMMA JoinedIn ==
    ASSUME NEW R, NEW x \in Seq(R), NEW y \in Seq(R)
    PROVE  Joined(x, y) \in Seq(R)
  BY ConcatProperties DEF Joined

LEMMA ConcatsExist ==
    ASSUME NEW N \in Nat, NEW R, NEW piece \in [1 .. N -> Seq(R)]
    PROVE  \E g : Concats(g, N, piece)
<1> DEFINE step == [p \in Seq(R) \X (1 .. N) |-> Joined(p[1], piece[p[2]])]
<1>1. \A x \in Seq(R), n \in 1 .. N : Joined(x, piece[n]) \in Seq(R)
  BY JoinedIn
<1>2. step \in [Seq(R) \X (1 .. N) -> Seq(R)]
  BY <1>1
<1>3. \A x \in Seq(R), n \in 1 .. N : step[<<x, n>>] = Joined(x, piece[n])
  OBVIOUS
<1>4. <<>> \in Seq(R)
  OBVIOUS
<1> HIDE DEF step
<1>5. PICK g \in [0 .. N -> Seq(R)] : Primitive(g, <<>>, N, step)
  BY <1>2, <1>4, PrimitiveRecursion, Zenon
<1>6. ASSUME NEW n \in 1 .. N PROVE g[n] = Joined(g[n - 1], piece[n])
  <2>1. n - 1 \in 0 .. N
    OBVIOUS
  <2>2. g[n - 1] \in Seq(R)
    BY <2>1
  <2> QED
    BY <1>3, <1>5, <2>2 DEF Primitive
<1>7. g = [n \in 0 .. N |-> IF n = 0 THEN <<>> ELSE Joined(g[n - 1], piece[n])]
  BY <1>5, <1>6 DEF Primitive
<1> QED
  BY <1>7 DEF Concats

LEMMA ConcatsAre ==
    ASSUME NEW N \in Nat, NEW R, NEW piece \in [1 .. N -> Seq(R)], NEW g, Concats(g, N, piece)
    PROVE  Grows(g, N, R, piece)
<1>1. g[0] = <<>> /\ \A n \in 1 .. N : g[n] = Joined(g[n - 1], piece[n])
  BY DEF Concats
<1> DEFINE T == {m \in 0 .. N : g[m] \in Seq(R)}
<1>2. 0 \in T
  <2>1. <<>> \in Seq(R) /\ 0 \in 0 .. N
    OBVIOUS
  <2> QED
    BY <1>1, <2>1
<1>3. ASSUME NEW m \in 0 .. N - 1, m \in T PROVE m + 1 \in T
  <2>1. m + 1 \in 1 .. N /\ m + 1 - 1 = m /\ m + 1 \in 0 .. N
    OBVIOUS
  <2>2. g[m + 1] = Joined(g[m], piece[m + 1])
    BY <1>1, <2>1
  <2>3. Joined(g[m], piece[m + 1]) \in Seq(R)
    BY <1>3, <2>1, JoinedIn
  <2> QED
    BY <2>1, <2>2, <2>3
<1>4. \A n \in 0 .. N : n \in T
  <2> HIDE DEF T
  <2> QED
    BY <1>2, <1>3, BoundedInduction
<1> QED
  BY <1>1, <1>4 DEF Grows

(* A line of a text is what stands between two of its ends.                *)
LEMMA LineToIs ==
    ASSUME NEW bytes, Len(bytes) \in Nat, NEW b \in 1 .. Len(bytes) + 1, NEW p \in 0 .. b - 1,
           p = 0 \/ bytes[p] = Newline, \A j \in p + 1 .. b - 1 : bytes[j] # Newline
    PROVE  LineTo(bytes, b) = SubSeq(bytes, p + 1, b - 1)
<1> DEFINE from == {i \in 1 .. b : \A j \in i .. b - 1 : bytes[j] # Newline}
<1>1. p + 1 \in from
  OBVIOUS
<1>2. \A i \in from : p + 1 <= i
  <2> SUFFICES ASSUME NEW i \in from, i <= p PROVE FALSE
    OBVIOUS
  <2>1. p \in i .. b - 1 /\ p # 0
    OBVIOUS
  <2> QED
    BY <2>1
<1>3. from \subseteq Nat
  OBVIOUS
<1>4. (CHOOSE i \in from : \A j \in from : i <= j) = p + 1
  <2> HIDE DEF from
  <2>1. \A x \in from : (\A j \in from : x <= j) => x = p + 1
    BY <1>1, <1>2, <1>3
  <2> QED
    BY <1>1, <1>2, <2>1, Zenon
<1> QED
  BY <1>4 DEF LineTo

LEMMA LineToIn ==
    ASSUME NEW S, NEW bytes \in Seq(S), NEW b \in 1 .. Len(bytes) + 1
    PROVE  LineTo(bytes, b) \in Seq(S)
<1> DEFINE T == {q \in 0 .. b - 1 : q = 0 \/ bytes[q] = Newline}
<1>1. Len(bytes) \in Nat /\ T \in SUBSET (0 .. b - 1) /\ 0 \in T /\ b - 1 \in Nat
  BY LenProperties
<1>2. PICK p \in T : \A q \in T : q <= p
  <2> HIDE DEF T
  <2> QED
    BY <1>1, GreatestElement
<1>3. p \in 0 .. b - 1 /\ (p = 0 \/ bytes[p] = Newline) /\ \A j \in p + 1 .. b - 1 : bytes[j] # Newline
  BY <1>2
<1> HIDE DEF T
<1>4. LineTo(bytes, b) = SubSeq(bytes, p + 1, b - 1)
  BY <1>1, <1>3, LineToIs
<1>5. p \in Nat /\ b - 1 \in Nat /\ p <= b - 1 /\ b - 1 <= Len(bytes)
  BY <1>1, <1>3
<1> QED
  BY <1>4, <1>5, Part

(* What is found in a file grows at the ends of its lines.                 *)
FoundThings == [file : {Directory[e].name : e \in Entries}, line : Seq(FileBytes)]
Piece(e, bytes, s, b) == IF b \in Ends(bytes) THEN Finding(e, LineTo(bytes, b), s) ELSE <<>>

LEMMA PieceIn ==
    ASSUME NEW e \in Entries, NEW bytes \in Seq(FileBytes), NEW s, NEW b \in 1 .. Len(bytes) + 1
    PROVE  Piece(e, bytes, s, b) \in Seq(FoundThings)
<1>1. LineTo(bytes, b) \in Seq(FileBytes)
  BY LineToIn
<1>2. [file |-> Directory[e].name, line |-> LineTo(bytes, b)] \in FoundThings
  BY <1>1 DEF FoundThings
<1> QED
  BY <1>2 DEF Piece, Finding

LEMMA FoundInIs ==
    ASSUME NEW e \in Entries, NEW bytes \in Seq(FileBytes), NEW s
    PROVE  LET g == FoundIn(e, bytes, s)
           IN  /\ g[0] = <<>> /\ \A b \in 0 .. Len(bytes) + 1 : g[b] \in Seq(FoundThings)
               /\ \A b \in 1 .. Len(bytes) + 1 : g[b] = Joined(g[b - 1], Piece(e, bytes, s, b))
<1> DEFINE N == Len(bytes) + 1
           piece == [b \in 1 .. N |-> Piece(e, bytes, s, b)]
           Recurs(f) == f = [b \in 0 .. N |-> IF b = 0 THEN <<>>
                            ELSE Joined(f[b - 1], IF b \in Ends(bytes) THEN Finding(e, LineTo(bytes, b), s) ELSE <<>>)]
           h == CHOOSE f : Recurs(f)
<1>1. N \in Nat
  BY LenProperties
<1>2. piece \in [1 .. N -> Seq(FoundThings)]
  BY PieceIn
<1>3. FoundIn(e, bytes, s) = h
  BY Zenon DEF FoundIn, Joined
<1>4. \A b \in 1 .. N : piece[b] = (IF b \in Ends(bytes) THEN Finding(e, LineTo(bytes, b), s) ELSE <<>>)
  BY DEF Piece
<1>5. \A b \in 1 .. N : piece[b] = Piece(e, bytes, s, b)
  OBVIOUS
<1> HIDE DEF N, piece
<1>6. PICK g : Concats(g, N, piece)
  BY <1>1, <1>2, ConcatsExist
<1>7. \A b \in 0 .. N : b # 0 => b \in 1 .. N
  BY <1>1
<1>8. Recurs(g)
  BY <1>4, <1>6, <1>7 DEF Concats
<1>9. Recurs(h)
  BY <1>8
<1> HIDE DEF h
<1>10. Concats(h, N, piece)
  BY <1>4, <1>7, <1>9 DEF Concats
<1>11. Grows(h, N, FoundThings, piece)
  BY <1>1, <1>2, <1>10, ConcatsAre
<1>12. /\ h[0] = <<>> /\ \A n \in 0 .. N : h[n] \in Seq(FoundThings)
       /\ \A n \in 1 .. N : h[n] = Joined(h[n - 1], Piece(e, bytes, s, n))
  BY <1>5, <1>11 DEF Grows
<1> QED
  BY <1>3, <1>12 DEF N

FilesOK(files) == files \in [{d \in Entries : ~Hidden(d)} -> Seq(FileBytes)]
FoundOf(files, s, e) == IF Hidden(e) THEN <<>> ELSE FoundIn(e, files[e], s)[Len(files[e]) + 1]

LEMMA FoundToIs ==
    ASSUME NEW files, FilesOK(files), NEW s
    PROVE  LET g == FoundTo(files, s)
           IN  /\ g[0] = <<>> /\ \A e \in 0 .. Len(Directory) : g[e] \in Seq(FoundThings)
               /\ \A e \in Entries : g[e] = Joined(g[e - 1], FoundOf(files, s, e))
<1> DEFINE N == Len(Directory)
           piece == [e \in 1 .. N |-> FoundOf(files, s, e)]
           Recurs(f) == f = [e \in 0 .. N |-> IF e = 0 THEN <<>>
                            ELSE Joined(f[e - 1], IF Hidden(e) THEN <<>>
                                                  ELSE FoundIn(e, files[e], s)[Len(files[e]) + 1])]
           h == CHOOSE f : Recurs(f)
<1>1. N \in Nat /\ Entries = 1 .. N
  BY Sizes DEF Entries
<1>2. ASSUME NEW e \in 1 .. N PROVE FoundOf(files, s, e) \in Seq(FoundThings)
  <2>1. CASE Hidden(e)
    BY <2>1 DEF FoundOf
  <2>2. CASE ~Hidden(e)
    <3>1. files[e] \in Seq(FileBytes) /\ e \in Entries
      BY <1>1, <2>2 DEF FilesOK
    <3>2. \A b \in 0 .. Len(files[e]) + 1 : FoundIn(e, files[e], s)[b] \in Seq(FoundThings)
      BY <3>1, FoundInIs
    <3>3. Len(files[e]) + 1 \in 0 .. Len(files[e]) + 1
      BY <3>1, LenProperties
    <3> QED
      BY <2>2, <3>2, <3>3 DEF FoundOf
  <2> QED
    BY <2>1, <2>2
<1>3. piece \in [1 .. N -> Seq(FoundThings)]
  BY <1>2
<1>4. FoundTo(files, s) = h
  BY Zenon DEF FoundTo, Joined
<1>5. \A e \in 1 .. N : piece[e] = (IF Hidden(e) THEN <<>>
                                    ELSE FoundIn(e, files[e], s)[Len(files[e]) + 1])
  BY DEF FoundOf
<1>6. \A e \in 1 .. N : piece[e] = FoundOf(files, s, e)
  OBVIOUS
<1> HIDE DEF N, piece
<1>7. PICK g : Concats(g, N, piece)
  BY <1>1, <1>3, ConcatsExist
<1>8. \A e \in 0 .. N : e # 0 => e \in 1 .. N
  BY <1>1
<1>9. Recurs(g)
  BY <1>5, <1>7, <1>8 DEF Concats
<1>10. Recurs(h)
  BY <1>9
<1> HIDE DEF h
<1>11. Concats(h, N, piece)
  BY <1>5, <1>8, <1>10 DEF Concats
<1>12. Grows(h, N, FoundThings, piece)
  BY <1>1, <1>3, <1>11, ConcatsAre
<1>13. /\ h[0] = <<>> /\ \A e \in 0 .. N : h[e] \in Seq(FoundThings)
       /\ \A e \in Entries : h[e] = Joined(h[e - 1], FoundOf(files, s, e))
  BY <1>1, <1>6, <1>12 DEF Grows
<1> QED
  BY <1>4, <1>13 DEF N

(* No line ends between p and q: nothing more is found there, and what is  *)
(* found where the line ends is found in what stands between.              *)
LEMMA NoMore ==
    ASSUME NEW e \in Entries, NEW bytes \in Seq(FileBytes), NEW s, NEW p \in Nat, NEW q \in Nat,
           p <= q, q <= Len(bytes), \A j \in p + 1 .. q : bytes[j] # Newline
    PROVE  FoundIn(e, bytes, s)[q] = FoundIn(e, bytes, s)[p]
<1> DEFINE g == FoundIn(e, bytes, s)
           T == {m \in 0 .. q - p : g[p + m] = g[p]}
<1>1. /\ \A b \in 0 .. Len(bytes) + 1 : g[b] \in Seq(FoundThings)
      /\ \A b \in 1 .. Len(bytes) + 1 : g[b] = Joined(g[b - 1], Piece(e, bytes, s, b))
  BY FoundInIs
<1> HIDE DEF g
<1>2. 0 \in T /\ q - p \in Nat /\ Len(bytes) \in Nat
  BY LenProperties
<1>3. ASSUME NEW m \in 0 .. q - p - 1, m \in T PROVE m + 1 \in T
  <2>1. /\ p + (m + 1) \in 1 .. Len(bytes) /\ p + (m + 1) \in p + 1 .. q /\ m + 1 \in 0 .. q - p
        /\ p + (m + 1) - 1 = p + m /\ p + m \in 0 .. Len(bytes) + 1
    BY <1>2
  <2>2. Piece(e, bytes, s, p + (m + 1)) = <<>>
    <3>1. p + (m + 1) \notin Ends(bytes)
      BY <1>2, <2>1 DEF Ends
    <3> QED
      BY <3>1 DEF Piece
  <2>3. g[p + (m + 1)] = Joined(g[p + m], <<>>)
    <3>1. p + (m + 1) \in 1 .. Len(bytes) + 1
      BY <1>2, <2>1
    <3> QED
      BY <1>1, <2>1, <2>2, <3>1
  <2>4. Joined(g[p + m], <<>>) = g[p + m]
    BY <1>1, <2>1, ConcatEmptySeq DEF Joined
  <2> QED
    BY <1>3, <2>1, <2>3, <2>4
<1>4. \A m \in 0 .. q - p : m \in T
  <2> HIDE DEF T
  <2> QED
    BY <1>2, <1>3, BoundedInduction
<1>5. q - p \in T /\ p + (q - p) = q
  BY <1>2, <1>4
<1> QED
  BY <1>5 DEF g

LEMMA NothingFound ==
    ASSUME NEW e, NEW s \in Seq(Characters), s # <<>>
    PROVE  Finding(e, <<>>, s) = <<>>
<1>1. Len(s) \in Nat /\ Len(s) # 0
  BY EmptySeq, LenProperties
<1>2. ~Contains(<<>>, s)
  BY <1>1 DEF Contains
<1> QED
  BY <1>2 DEF Finding

(* The line from p to q is handled.                                        *)
NextLine(written, files, e, s, p, q) ==
    /\ FilesOK(files) /\ e \in Entries /\ ~Hidden(e) /\ s \in Seq(Characters) /\ s # <<>>
    /\ p \in Nat /\ q \in Nat /\ p <= q /\ q <= Len(files[e]) /\ Handled(written, files, e, s, p)
    /\ \A j \in p + 1 .. q : files[e][j] # Newline
    /\ q = Len(files[e]) \/ files[e][q + 1] = Newline
Gathered(written, files, e, s, p, q) ==
    written \o Finding(e, SubSeq(files[e], p + 1, q), s) =
      FoundTo(files, s)[e - 1] \o FoundIn(e, files[e], s)[q + 1]

LEMMA LineHandled ==
    ASSUME NEW files, NEW e, NEW s, NEW written, NEW p, NEW q, NextLine(written, files, e, s, p, q)
    PROVE  Gathered(written, files, e, s, p, q)
<1> SUFFICES ASSUME FilesOK(files), e \in Entries, ~Hidden(e),
           s \in Seq(Characters), s # <<>>, p \in Nat, q \in Nat,
           p <= q, q <= Len(files[e]), Handled(written, files, e, s, p),
           \A j \in p + 1 .. q : files[e][j] # Newline,
           q = Len(files[e]) \/ files[e][q + 1] = Newline
    PROVE  written \o Finding(e, SubSeq(files[e], p + 1, q), s) =
             FoundTo(files, s)[e - 1] \o FoundIn(e, files[e], s)[q + 1]
  BY DEF NextLine, Gathered
<1> DEFINE bytes == files[e]
           g == FoundIn(e, bytes, s)
           prior == FoundTo(files, s)[e - 1]
           line == SubSeq(bytes, p + 1, q)
<1>1. bytes \in Seq(FileBytes) /\ Len(bytes) \in Nat
  BY LenProperties DEF FilesOK
<1>2. /\ \A b \in 0 .. Len(bytes) + 1 : g[b] \in Seq(FoundThings)
      /\ \A b \in 1 .. Len(bytes) + 1 : g[b] = Joined(g[b - 1], Piece(e, bytes, s, b))
  BY <1>1, FoundInIs
<1>3. prior \in Seq(FoundThings)
  <2>1. e - 1 \in 0 .. Len(Directory)
    BY Sizes DEF Entries
  <2> QED
    BY <2>1, FoundToIs
<1>4. \/ written = prior \o g[p] /\ (p = 0 \/ bytes[p] = Newline)
      \/ written = prior \o g[p + 1] /\ (p = Len(bytes) \/ bytes[p + 1] = Newline)
  BY DEF Handled
<1> HIDE DEF g, prior
<1>5. CASE written = prior \o g[p] /\ (p = 0 \/ bytes[p] = Newline)
  <2>1. q + 1 \in Ends(bytes) /\ q + 1 \in 1 .. Len(bytes) + 1 /\ q + 1 - 1 = q
    BY <1>1 DEF Ends
  <2>2. LineTo(bytes, q + 1) = line
    <3> DEFINE b == q + 1
    <3>1. b \in 1 .. Len(bytes) + 1 /\ p \in 0 .. b - 1 /\ b - 1 = q
      BY <1>1
    <3>2. \A j \in p + 1 .. b - 1 : bytes[j] # Newline
      BY <3>1
    <3> HIDE DEF b, bytes
    <3>3. LineTo(bytes, b) = SubSeq(bytes, p + 1, b - 1)
      BY <1>1, <1>5, <3>1, <3>2, LineToIs
    <3> QED
      BY <3>1, <3>3 DEF b, bytes
  <2>3. Piece(e, bytes, s, q + 1) = Finding(e, line, s)
    BY <2>1, <2>2 DEF Piece
  <2>4. g[q + 1] = Joined(g[q], Finding(e, line, s))
    BY <1>2, <2>1, <2>3
  <2>5. g[q] = g[p]
    BY <1>1, NoMore DEF g
  <2>6. Finding(e, line, s) \in Seq(FoundThings) /\ g[p] \in Seq(FoundThings)
    <3>1. p \in 0 .. Len(bytes) + 1
      BY <1>1
    <3> QED
      BY <1>1, <1>2, <2>1, <2>3, <3>1, PieceIn
  <2>7. (prior \o g[p]) \o Finding(e, line, s) = prior \o (g[p] \o Finding(e, line, s))
    <3> DEFINE x == g[p]
               y == Finding(e, line, s)
    <3> HIDE DEF x, y
    <3>1. (prior \o x) \o y = prior \o (x \o y)
      <4>1. x \in Seq(FoundThings) /\ y \in Seq(FoundThings)
        BY <2>6 DEF x, y
      <4> QED
        BY <1>3, <4>1, ConcatAssociative
    <3> QED
      BY <3>1 DEF x, y
  <2> HIDE DEF line, bytes
  <2>8. written \o Finding(e, line, s) = prior \o g[q + 1]
    BY <1>5, <2>4, <2>5, <2>7 DEF Joined
  <2> QED
    BY <2>8 DEF g, prior, line, bytes
<1>6. CASE written = prior \o g[p + 1] /\ (p = Len(bytes) \/ bytes[p + 1] = Newline)
  <2>1. q = p
    <3>1. CASE p < q
      <4>1. p + 1 \in p + 1 .. q /\ p # Len(bytes)
        BY <1>1, <3>1
      <4> QED
        BY <1>6, <4>1
    <3> QED
      BY <3>1
  <2>2. line = <<>>
    BY <2>1, SubSeqEmpty
  <2>3. Finding(e, line, s) = <<>>
    BY <2>2, NothingFound
  <2>4. g[p + 1] \in Seq(FoundThings)
    <3>1. p + 1 \in 0 .. Len(bytes) + 1
      BY <1>1
    <3> QED
      BY <1>2, <3>1
  <2>5. (prior \o g[p + 1]) \o <<>> = prior \o g[p + 1]
    <3>1. prior \o g[p + 1] \in Seq(FoundThings)
      BY <1>3, <2>4, ConcatProperties
    <3> QED
      BY <3>1, ConcatEmptySeq
  <2> HIDE DEF line, bytes
  <2>6. written \o Finding(e, line, s) = prior \o g[q + 1]
    BY <1>6, <2>1, <2>3, <2>5
  <2> QED
    BY <2>6 DEF g, prior, line, bytes
<1> QED
  BY <1>4, <1>5, <1>6

-----------------------------------------------------------------------------
(* grep's buffer: the line that starts at line_start, the string that      *)
(* stands at a place, and what strncmp says of it.                         *)
LEMMA LineEndIs ==
    ASSUME line_start \in 0 .. last, last \in 0 .. BUFSIZE
    PROVE  /\ LineEnd \in line_start .. last /\ (LineEnd = last \/ data[LineEnd] = Newline)
           /\ \A j \in line_start .. LineEnd - 1 : data[j] # Newline
<1> DEFINE T == {k \in line_start .. BUFSIZE : k >= last \/ data[k] = Newline}
           P(k) == /\ k >= last \/ data[k] = Newline
                   /\ \A j \in line_start .. k - 1 : j < last /\ data[j] # Newline
<1>1. BUFSIZE \in Nat /\ line_start \in Nat /\ last \in Nat /\ line_start <= last /\ last <= BUFSIZE
  BY Sizes
<1>2. T \in SUBSET Nat /\ last \in T
  BY <1>1
<1>3. PICK m \in T : \A k \in T : m <= k
  <2> HIDE DEF T
  <2> QED
    BY <1>2, LeastElement
<1>4. m \in line_start .. last
  BY <1>1, <1>2, <1>3
<1>5. P(m)
  <2>1. \A j \in line_start .. m - 1 : j \in line_start .. BUFSIZE /\ ~(m <= j)
    BY <1>1, <1>4
  <2>2. \A j \in line_start .. m - 1 : j \notin T
    BY <1>3, <2>1
  <2> QED
    BY <1>1, <1>3, <2>1, <2>2
<1>6. ASSUME NEW x \in line_start .. BUFSIZE, P(x) PROVE x = m
  <2>1. m <= x
    BY <1>3, <1>6
  <2>2. ~(m < x)
    BY <1>1, <1>3, <1>4, <1>6
  <2> QED
    BY <1>1, <1>4, <2>1, <2>2
<1>7. LineEnd = CHOOSE k \in line_start .. BUFSIZE : P(k)
  BY DEF LineEnd
<1>8. m \in line_start .. BUFSIZE
  BY <1>1, <1>4
<1> HIDE DEF P
<1>9. LineEnd = m
  BY <1>5, <1>6, <1>7, <1>8, Zenon
<1> QED
  BY <1>1, <1>4, <1>5, <1>9 DEF P

Stands(string, d, k, m, X) ==
    /\ string \in Seq(X) /\ Len(string) = m - k
    /\ \A i \in 1 .. m - k : string[i] = d[k + i - 1]

LEMMA StringIs ==
    ASSUME NEW X, Nul \in X, NEW d \in [0 .. BUFSIZE -> X], NEW k \in Nat, NEW m \in Nat, k <= m, m <= BUFSIZE,
           d[m] = Nul, \A j \in k .. m - 1 : d[j] # Nul
    PROVE  Stands(StringAt(d, k), d, k, m, X)
<1> DEFINE n == BUFSIZE + 1 - k
           r == [i \in 1 .. n |-> d[k + i - 1]]
<1>1. n \in Nat /\ BUFSIZE \in Nat /\ m - k \in 0 .. n - 1
  BY Sizes
<1>2. r \in Seq(X) /\ Len(r) = n /\ \A i \in 1 .. n : r[i] = d[k + i - 1]
  <2>1. \A i \in 1 .. n : d[k + i - 1] \in X
    BY <1>1
  <2> HIDE DEF n
  <2> QED
    BY <1>1, <2>1
<1>3. StringAt(d, k) = CString(r)
  BY DEF StringAt
<1> HIDE DEF r, n
<1>4. StopsAt(Append(r, Nul), 1, {Nul}, (m - k) + 1) /\ Len(Append(r, Nul)) \in Nat
  <2> DEFINE a == Append(r, Nul)
  <2>1. Len(a) = n + 1 /\ \A i \in 1 .. n : a[i] = r[i]
    BY <1>2, AppendProperties
  <2> HIDE DEF a
  <2>2. (m - k) + 1 \in 1 .. n /\ k + ((m - k) + 1) - 1 = m
    BY <1>1
  <2>3. a[(m - k) + 1] = Nul
    BY <1>2, <2>1, <2>2
  <2>4. \A j \in 1 .. (m - k) + 1 - 1 : j \in 1 .. n /\ k + j - 1 \in k .. m - 1
    BY <1>1
  <2>5. \A j \in 1 .. (m - k) + 1 - 1 : a[j] # Nul
    BY <1>2, <2>1, <2>4
  <2>6. (m - k) + 1 \in 1 .. Len(a) /\ Len(a) \in Nat
    BY <1>1, <2>1, <2>2
  <2> QED
    BY <2>3, <2>5, <2>6 DEF StopsAt, a
<1>5. CString(r) = SubSeq(r, 1, m - k)
  <2>1. Upto(Append(r, Nul), 1, {Nul}) = (m - k) + 1
    BY <1>4, UptoIs
  <2>2. m - k \in Int
    OBVIOUS
  <2> QED
    BY <2>1, <2>2, CStringIs, Zenon
<1> DEFINE l == m - k
<1>6. l \in Nat /\ l <= n /\ l - 0 = l /\ 0 + 1 = 1 /\ 0 \in Nat /\ 0 <= l
  BY <1>1
<1> HIDE DEF l
<1>7. /\ SubSeq(r, 0 + 1, l) \in Seq(X) /\ Len(SubSeq(r, 0 + 1, l)) = l - 0
      /\ \A i \in 1 .. l - 0 : SubSeq(r, 0 + 1, l)[i] = r[0 + i]
  BY <1>2, <1>6, Part
<1>8. \A i \in 1 .. l : 0 + i = i /\ i \in 1 .. n
  BY <1>1, <1>6
<1>9. SubSeq(r, 1, l) \in Seq(X) /\ Len(SubSeq(r, 1, l)) = l /\ \A i \in 1 .. l : SubSeq(r, 1, l)[i] = d[k + i - 1]
  BY <1>2, <1>6, <1>7, <1>8
<1> QED
  BY <1>3, <1>5, <1>9 DEF l, Stands

(* The searched text stands at k, in front of m.                           *)
Agrees(d, k, m) == Len(arg) <= m - k /\ \A t \in 1 .. Len(arg) : d[k + t - 1] = arg[t]

LEMMA PartAgrees ==
    ASSUME NEW X, Characters \subseteq X, NEW string \in Seq(X), arg \in Seq(Characters), NEW n \in Nat,
           n + Len(arg) <= Len(string)
    PROVE  SubSeq(string, n + 1, n + Len(arg)) = arg <=> \A t \in 1 .. Len(arg) : string[n + t] = arg[t]
<1> DEFINE l == Len(arg)
           part == SubSeq(string, n + 1, n + l)
<1>1. arg \in Seq(X) /\ l \in Nat /\ Len(string) \in Nat
  BY SeqMonotonic, LenProperties
<1>2. part \in Seq(X) /\ Len(part) = l /\ \A t \in 1 .. l : part[t] = string[n + t]
  <2> HIDE DEF l
  <2>1. n + l \in Nat /\ n + l <= Len(string) /\ n <= n + l /\ n + l - n = l
    BY <1>1 DEF l
  <2> DEFINE b == n + l
  <2>3. b \in Nat /\ b <= Len(string) /\ n <= b /\ b - n = l
    BY <1>1, <2>1
  <2> HIDE DEF b
  <2>2. /\ SubSeq(string, n + 1, b) \in Seq(X) /\ Len(SubSeq(string, n + 1, b)) = b - n
        /\ \A t \in 1 .. b - n : SubSeq(string, n + 1, b)[t] = string[n + t]
    BY <2>3, Part
  <2> QED
    BY <2>2, <2>3 DEF b
<1> HIDE DEF part
<1>3. part = arg => \A t \in 1 .. l : string[n + t] = arg[t]
  BY <1>2
<1>4. (\A t \in 1 .. l : string[n + t] = arg[t]) => part = arg
  BY <1>1, <1>2, SeqEqual
<1> QED
  BY <1>3, <1>4 DEF part

LEMMA MatchesIs ==
    ASSUME NEW X, Characters \cup {Nul} \subseteq X, NEW d \in [0 .. BUFSIZE -> X], NEW k \in Nat, NEW m \in Nat,
           k < m, m <= BUFSIZE, d[m] = Nul, \A j \in k .. m - 1 : d[j] # Nul,
           arg \in Seq(Characters), arg # <<>>
    PROVE  Matches(d, k) <=> Agrees(d, k, m)
<1> DEFINE string == StringAt(d, k)
           l == Len(arg)
<1>0. Nul \in X /\ k <= m
  OBVIOUS
<1>1. string \in Seq(X) /\ Len(string) = m - k /\ \A i \in 1 .. m - k : string[i] = d[k + i - 1]
  <2>1. Stands(string, d, k, m, X)
    BY <1>0, StringIs
  <2> QED
    BY <2>1 DEF Stands
<1>2. l \in Nat /\ l > 0 /\ m - k \in Nat /\ Characters \subseteq X
  BY EmptySeq, LenProperties
<1> HIDE DEF string, l
<1>3. l <= m - k => (SubSeq(string, 1, l) = arg <=> \A t \in 1 .. l : d[k + t - 1] = arg[t])
  <2> SUFFICES ASSUME l <= m - k PROVE SubSeq(string, 1, l) = arg <=> \A t \in 1 .. l : d[k + t - 1] = arg[t]
    OBVIOUS
  <2>1. 0 + l <= Len(string) /\ 0 \in Nat
    BY <1>1, <1>2
  <2>2. SubSeq(string, 0 + 1, 0 + l) = arg <=> \A t \in 1 .. l : string[0 + t] = arg[t]
    BY <1>1, <1>2, <2>1, PartAgrees DEF l
  <2>3. 0 + 1 = 1 /\ 0 + l = l /\ \A t \in 1 .. l : 0 + t = t /\ t \in 1 .. m - k
    BY <1>2
  <2>4. \A t \in 1 .. l : string[0 + t] = d[k + t - 1]
    BY <1>1, <2>3
  <2> QED
    BY <2>2, <2>3, <2>4
<1>4. Agrees(d, k, m) => arg[1] = d[k]
  <2>1. 1 \in 1 .. l /\ k + 1 - 1 = k
    BY <1>2
  <2> QED
    BY <2>1 DEF Agrees, l
<1>5. Matches(d, k) <=> arg[1] = d[k] /\ l <= m - k /\ SubSeq(string, 1, l) = arg
  BY <1>1 DEF Matches, string, l
<1>6. Agrees(d, k, m) <=> l <= m - k /\ \A t \in 1 .. l : d[k + t - 1] = arg[t]
  BY DEF Agrees, l
<1> QED
  BY <1>3, <1>4, <1>5, <1>6

LEMMA ContainsIs ==
    ASSUME NEW X, Characters \cup {Nul} \subseteq X, NEW d \in [0 .. BUFSIZE -> X], NEW k \in Nat, NEW m \in Nat,
           k <= m, m <= BUFSIZE, d[m] = Nul, \A j \in k .. m - 1 : d[j] # Nul,
           arg \in Seq(Characters), arg # <<>>
    PROVE  Contains(StringAt(d, k), arg) <=> \E j \in k .. m - 1 : Matches(d, j)
<1> DEFINE string == StringAt(d, k)
           l == Len(arg)
<1>0. Nul \in X /\ k <= m
  OBVIOUS
<1>1. string \in Seq(X) /\ Len(string) = m - k /\ \A i \in 1 .. m - k : string[i] = d[k + i - 1]
  <2>1. Stands(string, d, k, m, X)
    BY <1>0, StringIs
  <2> QED
    BY <2>1 DEF Stands
<1>2. l \in Nat /\ l > 0 /\ m - k \in Nat /\ Characters \subseteq X
  BY EmptySeq, LenProperties
<1> HIDE DEF string, l
<1>3. ASSUME NEW n \in Nat, n + l <= m - k
      PROVE  SubSeq(string, n + 1, n + l) = arg <=> Agrees(d, k + n, m)
  <2>1. n + l <= Len(string)
    BY <1>1, <1>3
  <2>2. SubSeq(string, n + 1, n + l) = arg <=> \A t \in 1 .. l : string[n + t] = arg[t]
    BY <1>1, <1>2, <2>1, PartAgrees DEF l
  <2>3. \A t \in 1 .. l : n + t \in 1 .. m - k /\ k + (n + t) - 1 = k + n + t - 1
    BY <1>2, <1>3
  <2>4. \A t \in 1 .. l : string[n + t] = d[k + n + t - 1]
    BY <1>1, <2>3
  <2>5. l <= m - (k + n)
    BY <1>2, <1>3
  <2> QED
    BY <2>2, <2>4, <2>5 DEF Agrees, l
<1>4. ASSUME NEW j \in k .. m - 1 PROVE Matches(d, j) <=> Agrees(d, j, m)
  <2>1. j \in Nat /\ j < m /\ \A i \in j .. m - 1 : i \in k .. m - 1
    OBVIOUS
  <2> QED
    BY <2>1, MatchesIs
<1>5. ASSUME Contains(string, arg) PROVE \E j \in k .. m - 1 : Matches(d, j)
  <2>1. PICK i \in 1 .. (m - k) + 1 - l : SubSeq(string, i, i + l - 1) = arg
    BY <1>1, <1>5 DEF Contains, l
  <2> DEFINE n == i - 1
  <2>2. n \in Nat /\ n + l <= m - k /\ n + 1 = i /\ n + l = i + l - 1 /\ k + n \in k .. m - 1
    BY <1>2
  <2> HIDE DEF n
  <2>3. Agrees(d, k + n, m)
    BY <1>3, <2>1, <2>2
  <2> QED
    BY <1>4, <2>2, <2>3
<1>6. ASSUME NEW j \in k .. m - 1, Matches(d, j) PROVE Contains(string, arg)
  <2> DEFINE n == j - k
  <2>1. Agrees(d, j, m)
    BY <1>4, <1>6
  <2>2. l <= m - j
    BY <2>1 DEF Agrees, l
  <2>3. n \in Nat /\ n + l <= m - k /\ k + n = j /\ n + 1 \in 1 .. (m - k) + 1 - l /\ n + 1 + l - 1 = n + l
    BY <1>2, <2>2
  <2> HIDE DEF n
  <2>4. SubSeq(string, n + 1, n + l) = arg
    BY <1>3, <2>1, <2>3
  <2>5. \E i \in 1 .. (m - k) + 1 - l : SubSeq(string, i, i + l - 1) = arg
    BY <2>3, <2>4
  <2> QED
    BY <1>1, <2>5 DEF Contains, l
<1> QED
  BY <1>5, <1>6 DEF string

-----------------------------------------------------------------------------
(* What grep has written when it has ended.                                *)
Held == FileBytes \cup {Nul} \cup Behind

LEMMA HeldIs == Characters \cup {Nul} \subseteq Held /\ Newline \in Held /\ Nul \notin FileBytes /\ Nul # Newline
  BY CommandLineAssumption DEF Held, FileBytes, Newline, Nul

(* What grep reads is no directory.                                        *)
LEMMA SearchedIsFile == \A e \in Entries : ~Hidden(e) => Directory[e].type # "dir"
  BY SessionAssumption

LEMMA FilesAre ==
    ASSUME Commanded
    PROVE  FilesOK(Files) /\ \A e \in Entries : ~Hidden(e) => Files[e] = Bytes(e)
  BY BytesAre, SearchedIsFile DEF FilesOK, Files

LEMMA FilesStay == ASSUME text' = text PROVE Files' = Files
  BY DEF Files, Bytes

LEMMA ShortBytes ==
    ASSUME Commanded, Searchable, NEW e \in Entries, ~Hidden(e)
    PROVE  Short(Bytes(e))
<1>1. CASE Directory[e].type = "text"
  <2>1. Directory[e].name \in DOMAIN text
    BY <1>1, SessionAssumption DEF Commanded, TextNames
  <2>2. Bytes(e) = text[Directory[e].name]
    BY <1>1 DEF Bytes
  <2> QED
    BY <2>1, <2>2 DEF Searchable
<1>2. CASE Directory[e].type # "text"
  <2>1. Directory[e].type \in {"program", "rtc"}
    BY <1>2, SessionAssumption, SearchedIsFile
  <2>2. Bytes(e) \in {<<"ELF">>, <<>>}
    BY <2>1 DEF Bytes
  <2>3. Len(Bytes(e)) \in {0, 1}
    BY <2>2
  <2> QED
    BY <2>3, Sizes DEF Short
<1> QED
  BY <1>1, <1>2

(* What is so where grep looks at a line.                                  *)
AtLine ==
    /\ BUFSIZE \in Nat \ {0} /\ entry \in Entries /\ ~Hidden(entry)
    /\ Bytes(entry) \in Seq(FileBytes) /\ Len(Bytes(entry)) \in Nat
    /\ line_start \in Nat /\ LineEnd \in Nat /\ last \in Nat /\ pos \in Nat
    /\ line_start <= LineEnd /\ LineEnd <= last /\ last <= BUFSIZE /\ last <= pos
    /\ pos <= Len(Bytes(entry))
    /\ LineEnd = last \/ data[LineEnd] = Newline
    /\ \A j \in line_start .. LineEnd - 1 : data[j] # Newline
    /\ \A k \in line_start .. last - 1 : data[k] = Bytes(entry)[pos - last + k + 1]
    /\ data \in [0 .. BUFSIZE -> Held] /\ data[BUFSIZE] # Newline

LEMMA AtLineIs == ASSUME Commanded, Scanned, pc = "grep_scan" PROVE AtLine
<1>1. /\ Buffered(line_start) /\ line_start \in 0 .. last
      /\ data \in [0 .. BUFSIZE -> Held] /\ data[BUFSIZE] # Newline
  BY DEF Scanned, Held
<1>2. /\ entry \in Entries /\ ~Hidden(entry)
      /\ pos \in 0 .. Len(Bytes(entry)) /\ last \in 0 .. BUFSIZE /\ last <= pos
      /\ \A k \in line_start .. last - 1 : data[k] = Bytes(entry)[pos - last + k + 1]
  BY <1>1 DEF Buffered
<1>3. Bytes(entry) \in Seq(FileBytes) /\ Len(Bytes(entry)) \in Nat
  BY <1>2, BytesAre, SearchedIsFile
<1>4. /\ LineEnd \in line_start .. last /\ (LineEnd = last \/ data[LineEnd] = Newline)
      /\ \A j \in line_start .. LineEnd - 1 : data[j] # Newline
  BY <1>1, <1>2, LineEndIs
<1> QED
  BY <1>1, <1>2, <1>3, <1>4, Sizes DEF AtLine

LEMMA EndedIs ==
    ASSUME AtLine
    PROVE  /\ Ended \in [0 .. BUFSIZE -> Held] /\ Ended[LineEnd] = Nul
           /\ \A k \in 0 .. BUFSIZE : k # LineEnd => Ended[k] = data[k]
           /\ Ended[BUFSIZE] # Newline
<1>1. LineEnd \in 0 .. BUFSIZE /\ BUFSIZE \in 0 .. BUFSIZE
  BY DEF AtLine
<1> QED
  BY <1>1, HeldIs DEF AtLine, Ended

LEMMA LineHolds ==
    ASSUME AtLine
    PROVE  /\ \A j \in line_start .. LineEnd - 1 : /\ Ended[j] = data[j] /\ Ended[j] # Nul
                                                   /\ data[j] = Bytes(entry)[pos - last + j + 1]
           /\ Stands(StringAt(Ended, line_start), Ended, line_start, LineEnd, Held)
<1>1. ASSUME NEW j \in line_start .. LineEnd - 1
      PROVE  Ended[j] = data[j] /\ Ended[j] # Nul /\ data[j] = Bytes(entry)[pos - last + j + 1]
  <2>1. j \in 0 .. BUFSIZE /\ j # LineEnd /\ j \in line_start .. last - 1
    BY DEF AtLine
  <2>2. Ended[j] = data[j] /\ data[j] = Bytes(entry)[pos - last + j + 1]
    BY <2>1, EndedIs DEF AtLine
  <2>3. pos - last + j + 1 \in 1 .. Len(Bytes(entry))
    BY <2>1 DEF AtLine
  <2>4. Bytes(entry)[pos - last + j + 1] \in FileBytes
    BY <2>3, ElementOfSeq DEF AtLine
  <2> QED
    BY <2>2, <2>4, HeldIs
<1>2. line_start \in Nat /\ LineEnd \in Nat /\ line_start <= LineEnd /\ LineEnd <= BUFSIZE /\ Nul \in Held
  BY HeldIs DEF AtLine
<1>3. Ended \in [0 .. BUFSIZE -> Held] /\ Ended[LineEnd] = Nul
  BY EndedIs
<1>4. Stands(StringAt(Ended, line_start), Ended, line_start, LineEnd, Held)
  BY <1>1, <1>2, <1>3, StringIs
<1> QED
  BY <1>1, <1>4

(* The line in the buffer is the line of the file.                         *)
LEMMA LineIs ==
    ASSUME AtLine
    PROVE  StringAt(Ended, line_start) =
             SubSeq(Bytes(entry), (pos - last + line_start) + 1, pos - last + LineEnd)
<1> DEFINE bytes == Bytes(entry)
           string == StringAt(Ended, line_start)
           p == pos - last + line_start
           q == pos - last + LineEnd
           part == SubSeq(bytes, p + 1, q)
           n == LineEnd - line_start
<1>1. /\ p \in Nat /\ q \in Nat /\ p <= q /\ q <= Len(bytes) /\ q - p = n /\ n \in Nat
      /\ \A i \in 1 .. n : /\ line_start + i - 1 \in line_start .. LineEnd - 1
                           /\ pos - last + (line_start + i - 1) + 1 = p + i
  BY DEF AtLine
<1>2. string \in Seq(Held) /\ Len(string) = n /\ \A i \in 1 .. n : string[i] = Ended[line_start + i - 1]
  BY LineHolds DEF Stands
<1>3. \A i \in 1 .. n : Ended[line_start + i - 1] = bytes[p + i]
  <2> TAKE i \in 1 .. n
  <2>1. PICK j \in line_start .. LineEnd - 1 : j = line_start + i - 1 /\ pos - last + j + 1 = p + i
    BY <1>1
  <2>2. Ended[j] = bytes[pos - last + j + 1]
    BY LineHolds
  <2> QED
    BY <2>1, <2>2
<1>4. bytes \in Seq(FileBytes)
  BY DEF AtLine
<1> HIDE DEF bytes, string, p, q, n
<1>5. part \in Seq(FileBytes) /\ Len(part) = q - p /\ \A i \in 1 .. q - p : part[i] = bytes[p + i]
  BY <1>1, <1>4, Part
<1>6. part \in Seq(Held)
  BY <1>5, SeqMonotonic DEF Held
<1> HIDE DEF part
<1>7. string = part
  <2>1. Len(string) = Len(part) /\ \A i \in 1 .. Len(string) : string[i] = part[i]
    BY <1>1, <1>2, <1>3, <1>5
  <2> QED
    BY <1>2, <1>6, <2>1, SeqEqual
<1> QED
  BY <1>7 DEF part, bytes, string, p, q

(* Where a line is searched as it stands it is one of the file's, unless   *)
(* a line is too long; what is written of it is what is found there.       *)
FoundAt(written, files, e, s, q) ==
    /\ written = FoundTo(files, s)[e - 1] \o FoundIn(e, files[e], s)[q + 1]
    /\ q = Len(files[e]) \/ files[e][q + 1] = Newline

LEMMA WholeLine ==
    ASSUME Commanded, Searchable, Scanned, pc = "grep_scan", ~Cut
    PROVE  \/ pos - last + LineEnd = Len(Bytes(entry))
           \/ Bytes(entry)[pos - last + LineEnd + 1] = Newline
<1> DEFINE bytes == Bytes(entry)
           L == LineEnd
<1>1. AtLine
  BY AtLineIs
<1>2. /\ BUFSIZE \in Nat \ {0} /\ Len(bytes) \in Nat /\ line_start \in Nat /\ L \in Nat /\ last \in Nat
      /\ pos \in Nat /\ line_start <= L /\ L <= last /\ last <= BUFSIZE /\ last <= pos /\ pos <= Len(bytes)
      /\ L = last \/ data[L] = Newline
      /\ \A j \in line_start .. L - 1 : data[j] # Newline
      /\ \A k \in line_start .. last - 1 : data[k] = bytes[pos - last + k + 1]
      /\ data[BUFSIZE] # Newline
  BY <1>1 DEF AtLine
<1>3. (last = BUFSIZE \/ pos = Len(bytes)) /\ (cnt = 0 => pos = Len(bytes))
  BY DEF Scanned
<1>4. data[L] = Newline \/ cnt = 0 \/ line_start = 0
  BY DEF Cut
<1>5. Short(bytes)
  BY <1>1, ShortBytes DEF AtLine
<1> HIDE DEF bytes, L
<1>6. CASE L # last
  <2>1. L \in line_start .. last - 1 /\ data[L] = Newline
    BY <1>2, <1>6
  <2> QED
    BY <1>2, <2>1 DEF bytes, L
<1>7. CASE L = last /\ pos = Len(bytes)
  <2>1. pos - last + L = Len(bytes)
    BY <1>2, <1>7
  <2> QED
    BY <2>1 DEF bytes, L
<1>8. CASE L = last /\ pos # Len(bytes)
  <2>1. last = BUFSIZE /\ line_start = 0 /\ L = BUFSIZE
    BY <1>2, <1>3, <1>4, <1>8
  <2> DEFINE i == pos - last + 1
  <2>2. i \in 1 .. Len(bytes) - BUFSIZE
    BY <1>2, <1>8, <2>1
  <2>3. PICK j \in i .. i + BUFSIZE : bytes[j] = Newline
    BY <1>5, <2>2 DEF Short
  <2>4. j = i + BUFSIZE
    <3> SUFFICES ASSUME j # i + BUFSIZE PROVE FALSE
      OBVIOUS
    <3> DEFINE k == j - i
    <3>1. k \in line_start .. L - 1 /\ k \in line_start .. last - 1 /\ pos - last + k + 1 = j
      BY <1>2, <2>1
    <3> HIDE DEF k, i
    <3>2. data[k] = bytes[j]
      BY <1>2, <3>1
    <3> QED
      BY <1>2, <2>3, <3>1, <3>2
  <2>5. j = pos - last + L + 1
    BY <1>2, <2>1, <2>4
  <2> QED
    BY <2>3, <2>5 DEF bytes, L
<1> QED
  BY <1>6, <1>7, <1>8

LEMMA LineFound ==
    ASSUME Commanded, Searchable, Scanned, pc = "grep_scan", ~Cut
    PROVE  FoundAt(out \o Finding(entry, StringAt(Ended, line_start), arg), Files, entry, arg,
                   pos - last + LineEnd)
<1> DEFINE p == pos - last + line_start
           q == pos - last + LineEnd
           bytes == Bytes(entry)
           files == Files
<1>1. AtLine
  BY AtLineIs
<1>2. /\ p \in Nat /\ q \in Nat /\ p <= q /\ q <= Len(bytes)
      /\ entry \in Entries /\ ~Hidden(entry)
  BY <1>1 DEF AtLine
<1>3. FilesOK(files) /\ files[entry] = bytes
  BY <1>2, FilesAre
<1>4. Handled(out, files, entry, arg, p)
  BY DEF Scanned, Buffered, Dealt
<1>5. ASSUME NEW j \in p + 1 .. q PROVE bytes[j] # Newline
  <2> DEFINE k == j - 1 - (pos - last)
  <2>1. k \in line_start .. LineEnd - 1 /\ pos - last + k + 1 = j
    BY <1>1 DEF AtLine
  <2> HIDE DEF k, p, q
  <2>2. data[k] # Newline /\ data[k] = Bytes(entry)[pos - last + k + 1]
    BY <1>1, <2>1, LineHolds DEF AtLine
  <2> QED
    BY <2>1, <2>2
<1>6. q = Len(bytes) \/ bytes[q + 1] = Newline
  BY WholeLine
<1>7. StringAt(Ended, line_start) = SubSeq(bytes, p + 1, q)
  BY <1>1, LineIs
<1>8. arg \in Seq(Characters) /\ arg # <<>>
  BY DEF Searchable
<1> HIDE DEF p, q, bytes, files
<1>a. /\ q <= Len(files[entry]) /\ (q = Len(files[entry]) \/ files[entry][q + 1] = Newline)
      /\ \A j \in p + 1 .. q : files[entry][j] # Newline
  BY <1>2, <1>3, <1>5, <1>6
<1>9. out \o Finding(entry, SubSeq(files[entry], p + 1, q), arg) =
        FoundTo(files, arg)[entry - 1] \o FoundIn(entry, files[entry], arg)[q + 1]
  <2>1. NextLine(out, files, entry, arg, p, q)
    BY <1>2, <1>3, <1>4, <1>8, <1>a DEF NextLine
  <2> QED
    <3>1. Gathered(out, files, entry, arg, p, q)
      BY <2>1, LineHandled
    <3> QED
      BY <3>1 DEF Gathered
<1>10. FoundAt(out \o Finding(entry, StringAt(Ended, line_start), arg), files, entry, arg, q)
  BY <1>3, <1>6, <1>7, <1>9 DEF FoundAt
<1> QED
  BY <1>10 DEF q, files

LEMMA WrittenIs ==
    ASSUME Commanded, Scanned, pc = "grep_scan"
    PROVE  out \in Seq(FoundThings)
<1> DEFINE p == pos - last + line_start
           bytes == Bytes(entry)
           g == FoundIn(entry, bytes, arg)
           prior == FoundTo(Files, arg)[entry - 1]
<1>1. AtLine
  BY AtLineIs
<1>2. FilesOK(Files) /\ Files[entry] = bytes /\ bytes \in Seq(FileBytes) /\ Len(bytes) \in Nat
  BY <1>1, FilesAre DEF AtLine
<1>3. p \in 0 .. Len(bytes) /\ entry \in Entries /\ entry - 1 \in 0 .. Len(Directory)
  BY <1>1, Sizes DEF AtLine, Entries
<1>4. out = prior \o g[p] \/ out = prior \o g[p + 1]
  <2>1. Handled(out, Files, entry, arg, p)
    BY DEF Scanned, Buffered, Dealt
  <2> QED
    BY <1>2, <2>1 DEF Handled
<1>5. \A b \in 0 .. Len(bytes) + 1 : g[b] \in Seq(FoundThings)
  BY <1>2, <1>3, FoundInIs
<1>6. prior \in Seq(FoundThings)
  BY <1>2, <1>3, FoundToIs
<1> HIDE DEF p, bytes, g, prior
<1>7. p \in 0 .. Len(bytes) + 1 /\ p + 1 \in 0 .. Len(bytes) + 1
  BY <1>2, <1>3
<1> QED
  BY <1>4, <1>5, <1>6, <1>7, ConcatProperties

LEMMA SearchWrites ==
    ASSUME Commanded, Searchable, Scanned, pc = "grep_scan", Search
    PROVE  out' = out \o Finding(entry, StringAt(Ended, line_start), arg)
<1>1. AtLine
  BY AtLineIs
<1>2. /\ line_start \in Nat /\ LineEnd \in Nat /\ line_start <= LineEnd /\ LineEnd <= BUFSIZE
      /\ Ended \in [0 .. BUFSIZE -> Held] /\ Ended[LineEnd] = Nul
      /\ \A j \in line_start .. LineEnd - 1 : Ended[j] # Nul
      /\ arg \in Seq(Characters) /\ arg # <<>> /\ Characters \cup {Nul} \subseteq Held
  BY <1>1, EndedIs, LineHolds, HeldIs DEF AtLine, Searchable
<1>3. Contains(StringAt(Ended, line_start), arg) <=> \E k \in line_start .. LineEnd - 1 : Matches(Ended, k)
  BY <1>2, ContainsIs
<1>4. CASE \E k \in line_start .. LineEnd - 1 : Matches(Ended, k)
  BY <1>3, <1>4 DEF Search, Write, Finding
<1>5. CASE ~\E k \in line_start .. LineEnd - 1 : Matches(Ended, k)
  <2>1. out' = out /\ Finding(entry, StringAt(Ended, line_start), arg) = <<>>
    BY <1>3, <1>5 DEF Search, Quiet, Finding
  <2>2. out \in Seq(FoundThings)
    BY WrittenIs
  <2> QED
    BY <2>1, <2>2, ConcatEmptySeq
<1> QED
  BY <1>4, <1>5

(* The invariant of grep holds after each of its steps.                    *)
LEMMA ReadNext ==
    ASSUME Commanded, text' = text, arg' = arg, entry' = entry, entry \in Entries,
           ~Hidden(entry), pc' = "grep_read",
           pos' \in 0 .. Len(Bytes(entry)), last' \in 0 .. BUFSIZE - 1, last' <= pos',
           \A k \in 0 .. last' - 1 : data'[k] = Bytes(entry)[pos' - last' + k + 1] /\ data'[k] # Newline,
           Handled(out', Files, entry, arg, pos' - last'),
           data' \in [0 .. BUFSIZE -> Held], data'[BUFSIZE] # Newline
    PROVE  Scanned'
<1>1. Bytes(entry)' = Bytes(entry) /\ Files' = Files
  BY FilesStay DEF Bytes
<1>2. BUFSIZE \in Nat \ {0} /\ last' \in 0 .. BUFSIZE /\ last' # BUFSIZE
  BY Sizes
<1>3. pos' - last' + 0 = pos' - last'
  <2>1. Len(Bytes(entry)) \in Nat
    BY BytesAre
  <2> QED
    BY <1>2, <2>1
<1>4. Handled(out', Files', entry', arg', pos' - last' + 0)
  BY <1>1, <1>3
<1>5. Buffered(0)'
  BY <1>1, <1>2, <1>4 DEF Buffered, Dealt
<1> QED
  BY <1>2, <1>5 DEF Scanned, Held

LEMMA ScanNext ==
    ASSUME text' = text, arg' = arg, entry' = entry, entry \in Entries,
           ~Hidden(entry), pc' = "grep_scan",
           pos' \in 0 .. Len(Bytes(entry)), last' \in 0 .. BUFSIZE, last' <= pos',
           line_start' \in 0 .. last', line_start' = 0 \/ line_start' < last',
           last' = BUFSIZE \/ pos' = Len(Bytes(entry)),
           cnt' = 0 => pos' = Len(Bytes(entry)) /\ \A k \in line_start' .. last' - 1 : data'[k] # Newline,
           \A k \in line_start' .. last' - 1 : data'[k] = Bytes(entry)[pos' - last' + k + 1],
           Handled(out', Files, entry, arg, pos' - last' + line_start'),
           data' \in [0 .. BUFSIZE -> Held], data'[BUFSIZE] # Newline
    PROVE  Scanned'
<1>1. Bytes(entry)' = Bytes(entry) /\ Files' = Files
  BY FilesStay DEF Bytes
<1>2. Buffered(line_start)'
  BY <1>1 DEF Buffered, Dealt
<1> QED
  BY <1>1, <1>2 DEF Scanned, Held

LEMMA EntryNext ==
    ASSUME text' = text, arg' = arg, pc' = "grep_next", entry' \in 1 .. Len(Directory) + 1,
           out' = FoundTo(Files, arg)[entry' - 1],
           data' \in [0 .. BUFSIZE -> Held], data'[BUFSIZE] # Newline
    PROVE  Scanned'
<1>1. Files' = Files
  BY FilesStay
<1> QED
  BY <1>1 DEF Scanned, Held

LEMMA StartScanned ==
    ASSUME Newline \notin Behind, Commanded, Copied, GrepStart
    PROVE  Scanned'
<1>1. /\ pc = "grep" /\ pc' = "grep_next" /\ entry' = entry /\ out' = out /\ text' = text
  BY DEF GrepStart, Shell, Quiet, fileVars
<1>2. out = <<>> /\ entry = 1
  BY <1>1 DEF Copied
<1>3. PICK c \in {Newline, Nul}, b \in Behind : data' = [Fill(c) EXCEPT ![BUFSIZE] = b]
  BY DEF GrepStart
<1>4. data' \in [0 .. BUFSIZE -> Held] /\ data'[BUFSIZE] # Newline
  <2>1. c \in Held /\ b \in Held /\ b # Newline /\ BUFSIZE \in 0 .. BUFSIZE
    BY <1>3, HeldIs, Sizes DEF Held
  <2> QED
    BY <1>3, <2>1 DEF Fill
<1>5. Files' = Files
  BY <1>1, FilesStay
<1>6. FoundTo(Files, arg')[0] = <<>>
  BY FilesAre, FoundToIs
<1>7. entry' \in 1 .. Len(Directory) + 1 /\ entry' - 1 = 0
  BY <1>1, <1>2, Sizes
<1>8. out' = FoundTo(Files', arg')[entry' - 1]
  BY <1>1, <1>2, <1>5, <1>6, <1>7
<1> QED
  BY <1>1, <1>4, <1>7, <1>8 DEF Scanned, Held

LEMMA NextScanned ==
    ASSUME Commanded, Scanned, GrepNext
    PROVE  Scanned'
<1>1. pc = "grep_next" /\ out' = out /\ arg' = arg /\ text' = text
  BY DEF GrepNext, Shell, Quiet
<1>2. /\ data \in [0 .. BUFSIZE -> Held] /\ data[BUFSIZE] # Newline
      /\ entry \in 1 .. Len(Directory) + 1 /\ out = FoundTo(Files, arg)[entry - 1]
  BY <1>1 DEF Scanned, Held
<1>3. Len(Directory) \in Nat
  BY Sizes
<1>4. CASE entry > Len(Directory)
  BY <1>4 DEF GrepNext, End, Scanned
<1>5. CASE entry <= Len(Directory) /\ Hidden(entry)
  <2>1. ~(entry > Len(Directory)) /\ entry \in Entries
    BY <1>2, <1>3, <1>5 DEF Entries
  <2>2. entry' = entry + 1 /\ pc' = pc /\ data' = data
    BY <1>5, <2>1 DEF GrepNext, bufVars
  <2>3. FoundTo(Files, arg)[entry] = Joined(FoundTo(Files, arg)[entry - 1], FoundOf(Files, arg, entry))
    BY <2>1, FilesAre, FoundToIs
  <2>4. FoundOf(Files, arg, entry) = <<>>
    BY <1>5 DEF FoundOf
  <2>5. FoundTo(Files, arg)[entry - 1] \in Seq(FoundThings)
    <3>1. entry - 1 \in 0 .. Len(Directory)
      BY <1>2, <1>3
    <3> QED
      BY <3>1, FilesAre, FoundToIs
  <2>6. FoundTo(Files, arg)[entry] = FoundTo(Files, arg)[entry - 1]
    BY <2>3, <2>4, <2>5, ConcatEmptySeq DEF Joined
  <2>7. entry' \in 1 .. Len(Directory) + 1 /\ entry' - 1 = entry
    BY <1>2, <1>3, <1>5, <2>2
  <2> QED
    BY <1>1, <1>2, <2>2, <2>6, <2>7, EntryNext
<1>6. CASE entry <= Len(Directory) /\ ~Hidden(entry)
  <2>1. ~(entry > Len(Directory)) /\ entry \in Entries
    BY <1>2, <1>3, <1>6 DEF Entries
  <2>2. pc' = "grep_read" /\ pos' = 0 /\ last' = 0 /\ entry' = entry /\ data' = data
    BY <1>6, <2>1 DEF GrepNext
  <2>3. Files[entry] = Bytes(entry) /\ Bytes(entry) \in Seq(FileBytes) /\ Len(Bytes(entry)) \in Nat
    BY <1>6, <2>1, FilesAre, BytesAre, SearchedIsFile
  <2>4. FoundIn(entry, Bytes(entry), arg)[0] = <<>>
    BY <2>1, <2>3, FoundInIs
  <2>5. FoundTo(Files, arg)[entry - 1] \in Seq(FoundThings)
    <3>1. entry - 1 \in 0 .. Len(Directory)
      BY <1>2, <1>3
    <3> QED
      BY <3>1, FilesAre, FoundToIs
  <2>6. Handled(out', Files, entry, arg, 0)
    <3>1. FoundTo(Files, arg)[entry - 1] \o <<>> = FoundTo(Files, arg)[entry - 1]
      BY <2>5, ConcatEmptySeq
    <3> QED
      BY <1>1, <1>2, <2>3, <2>4, <3>1 DEF Handled
  <2>7. /\ pos' \in 0 .. Len(Bytes(entry)) /\ last' \in 0 .. BUFSIZE - 1 /\ last' <= pos'
        /\ pos' - last' = 0 /\ last' - 1 = -1
    BY <2>2, <2>3, Sizes
  <2>8. \A k \in 0 .. last' - 1 : data'[k] = Bytes(entry)[pos' - last' + k + 1] /\ data'[k] # Newline
    BY <2>7
  <2>9. Handled(out', Files, entry, arg, pos' - last')
    BY <2>6, <2>7
  <2> QED
    BY <1>1, <1>2, <1>6, <2>1, <2>2, <2>7, <2>8, <2>9, ReadNext
<1> QED
  BY <1>2, <1>3, <1>4, <1>5, <1>6

LEMMA ReadScanned ==
    ASSUME Commanded, Scanned, GrepRead
    PROVE  Scanned'
<1> DEFINE bytes == Bytes(entry)
           got == Read(entry, BUFSIZE - last)
           l == last'
<1>1. /\ pc = "grep_read" /\ pc' = "grep_scan" /\ UNCHANGED <<out, arg, text, entry>>
      /\ cnt' = Len(got) /\ last' = last + Len(got) /\ pos' = pos + Len(got) /\ line_start' = 0
      /\ data' = [k \in 0 .. BUFSIZE |-> IF k - last \in 0 .. Len(got) - 1 /\ k >= last
                                         THEN got[k - last + 1] ELSE data[k]]
  BY DEF GrepRead, Shell, Quiet
<1>2. /\ entry \in Entries /\ ~Hidden(entry) /\ pos \in 0 .. Len(bytes)
      /\ last \in 0 .. BUFSIZE /\ last # BUFSIZE /\ last <= pos
      /\ \A k \in 0 .. last - 1 : data[k] = bytes[pos - last + k + 1] /\ data[k] # Newline
      /\ Handled(out, Files, entry, arg, pos - last + 0)
      /\ data \in [0 .. BUFSIZE -> Held] /\ data[BUFSIZE] # Newline
  BY <1>1 DEF Scanned, Buffered, Dealt, Held
<1>3. BUFSIZE \in Nat \ {0} /\ bytes \in Seq(FileBytes) /\ Len(bytes) \in Nat /\ BUFSIZE - last \in Nat
  BY <1>2, BytesAre, SearchedIsFile, Sizes
<1>4. PICK p : /\ p \in pos .. Len(bytes) /\ p - pos <= BUFSIZE - last
               /\ got = SubSeq(bytes, pos + 1, p) /\ Len(got) = p - pos
               /\ p = Len(bytes) \/ p - pos = BUFSIZE - last
  BY <1>2, <1>3, ReadGives, SearchedIsFile
<1>5. \A i \in 1 .. p - pos : got[i] = bytes[pos + i] /\ got[i] \in Held
  <2>1. pos \in Nat /\ p \in Nat /\ p <= Len(bytes) /\ pos <= p
    BY <1>2, <1>3, <1>4
  <2>2. \A i \in 1 .. p - pos : SubSeq(bytes, pos + 1, p)[i] = bytes[pos + i]
    BY <1>3, <2>1, Part
  <2>3. \A i \in 1 .. p - pos : pos + i \in 1 .. Len(bytes)
    BY <1>2, <1>3, <1>4
  <2>4. \A i \in 1 .. Len(bytes) : bytes[i] \in FileBytes
    BY <1>3, ElementOfSeq
  <2> HIDE DEF bytes, got
  <2> QED
    BY <1>4, <2>2, <2>3, <2>4 DEF Held
<1> HIDE DEF bytes, got
<1>p. /\ pos \in 0 .. Len(bytes) /\ last \in 0 .. BUFSIZE /\ last <= pos
      /\ data \in [0 .. BUFSIZE -> Held]
  BY <1>2
<1>6. /\ l = last + (p - pos) /\ pos' = p /\ pos' - l = pos - last /\ l \in last .. BUFSIZE
      /\ pos - last \in Nat /\ pos \in Nat /\ p \in Nat /\ last \in Nat /\ cnt' = p - pos
  BY <1>1, <1>p, <1>3, <1>4
<1>7. /\ \A k \in last .. l - 1 : data'[k] = got[k - last + 1] /\ k - last + 1 \in 1 .. p - pos
      /\ \A k \in 0 .. BUFSIZE : k < last \/ k >= l => data'[k] = data[k]
  BY <1>1, <1>p, <1>3, <1>4, <1>6
<1>8. data' \in [0 .. BUFSIZE -> Held]
  <2>1. \A k \in 0 .. BUFSIZE : data'[k] \in Held
    <3> TAKE k \in 0 .. BUFSIZE
    <3>1. CASE k \in last .. l - 1
      BY <1>5, <1>7, <3>1
    <3>2. CASE k \notin last .. l - 1
      <4>1. k < last \/ k >= l
        BY <1>6, <3>2
      <4> QED
        BY <1>2, <1>7, <4>1
    <3> QED
      BY <3>1, <3>2
  <2> QED
    BY <1>1, <2>1
<1>9. data'[BUFSIZE] # Newline
  <2>1. BUFSIZE \in 0 .. BUFSIZE /\ BUFSIZE >= l
    BY <1>3, <1>6
  <2> QED
    BY <1>2, <1>7, <2>1
<1>10. \A k \in 0 .. l - 1 : data'[k] = bytes[pos' - l + k + 1]
  <2> TAKE k \in 0 .. l - 1
  <2>1. CASE k < last
    <3>1. k \in 0 .. last - 1 /\ k \in 0 .. BUFSIZE
      BY <1>3, <1>6, <2>1
    <3> QED
      BY <1>2, <1>6, <1>7, <2>1, <3>1
  <2>2. CASE ~(k < last)
    <3>1. k \in last .. l - 1 /\ pos + (k - last + 1) = pos - last + k + 1
      BY <1>6, <2>2
    <3> QED
      BY <1>5, <1>6, <1>7, <3>1
  <2> QED
    BY <2>1, <2>2
<1>11. cnt' = 0 => pos' = Len(bytes) /\ \A k \in 0 .. l - 1 : data'[k] # Newline
  <2> SUFFICES ASSUME cnt' = 0 PROVE pos' = Len(bytes) /\ \A k \in 0 .. l - 1 : data'[k] # Newline
    OBVIOUS
  <2>1. p = pos /\ l = last /\ p = Len(bytes)
    BY <1>2, <1>3, <1>4, <1>6
  <2>2. \A k \in 0 .. l - 1 : k \in 0 .. last - 1 /\ k \in 0 .. BUFSIZE /\ k < last
    BY <1>3, <1>6, <2>1
  <2> QED
    BY <1>2, <1>6, <1>7, <2>1, <2>2
<1>12. l = BUFSIZE \/ pos' = Len(bytes)
  BY <1>2, <1>3, <1>4, <1>6
<1>13. Handled(out', Files, entry, arg, pos' - l + line_start')
  <2>1. pos' - l + line_start' = pos - last + 0
    BY <1>1, <1>6
  <2> QED
    BY <1>1, <1>2, <2>1
<1>14. l \in 0 .. BUFSIZE /\ l <= pos' /\ pos' \in 0 .. Len(bytes) /\ line_start' \in 0 .. l
  BY <1>1, <1>3, <1>4, <1>6
<1>15. text' = text /\ arg' = arg /\ entry' = entry /\ line_start' = 0 /\ pc' = "grep_scan"
  BY <1>1
<1> QED
  BY <1>2, <1>8, <1>9, <1>10, <1>11, <1>12, <1>13, <1>14, <1>15, ScanNext DEF bytes, l

LEMMA CarryScanned ==
    ASSUME Commanded, Scanned, pc = "grep_scan", Cut, Carry,
           UNCHANGED <<text, arg, pos>>
    PROVE  Scanned'
<1> DEFINE bytes == Bytes(entry)
           line == StringAt(Ended, line_start)
           s == line_start
           l == last - line_start
<1>1. AtLine
  BY AtLineIs
<1>2. /\ BUFSIZE \in Nat \ {0} /\ Len(bytes) \in Nat /\ s \in Nat /\ last \in Nat /\ pos \in Nat
      /\ s <= last /\ last <= BUFSIZE /\ last <= pos /\ pos <= Len(bytes) /\ s # 0
      /\ LineEnd = last /\ entry \in Entries /\ ~Hidden(entry)
  BY <1>1 DEF AtLine, Cut
<1>3. /\ \A j \in s .. last - 1 : /\ Ended[j] = data[j] /\ Ended[j] # Newline
                                  /\ Ended[j] = bytes[pos - last + j + 1]
      /\ Stands(line, Ended, s, last, Held)
  BY <1>1, <1>2, LineHolds DEF AtLine
<1>4. line \in Seq(Held) /\ Len(line) = l /\ \A i \in 1 .. l : line[i] = Ended[s + i - 1]
  BY <1>3 DEF Stands
<1>5. /\ data' = [k \in 0 .. BUFSIZE |-> CASE k < Len(line) -> line[k + 1]
                                           [] k = Len(line) -> Nul
                                           [] OTHER -> Ended[k]]
      /\ last' = l /\ pc' = "grep_read" /\ out' = out /\ entry' = entry
  BY DEF Carry, Quiet
<1>6. Ended \in [0 .. BUFSIZE -> Held] /\ Ended[BUFSIZE] # Newline
  BY <1>1, EndedIs
<1>7. Handled(out, Files, entry, arg, pos - last + s)
  BY DEF Scanned, Buffered, Dealt
<1> HIDE DEF bytes, line, s
<1>8. /\ l \in 0 .. BUFSIZE - 1 /\ l <= pos /\ pos - l = pos - last + s
  BY <1>2 DEF s
<1> HIDE DEF l
<1>9. \A k \in 0 .. BUFSIZE : /\ k < l => data'[k] = line[k + 1]
                              /\ k = l => data'[k] = Nul
                              /\ k > l => data'[k] = Ended[k]
  BY <1>4, <1>5, <1>8
<1>10. \A k \in 0 .. l - 1 : data'[k] = bytes[pos - l + k + 1] /\ data'[k] # Newline
  <2> TAKE k \in 0 .. l - 1
  <2>1. k + 1 \in 1 .. l /\ k \in 0 .. BUFSIZE /\ k < l /\ s + k \in s .. last - 1 /\ s + (k + 1) - 1 = s + k
        /\ pos - last + (s + k) + 1 = pos - l + k + 1
    BY <1>2, <1>8 DEF l, s
  <2>2. data'[k] = Ended[s + k]
    BY <1>4, <1>9, <2>1
  <2> QED
    BY <1>3, <2>1, <2>2
<1>11. data' \in [0 .. BUFSIZE -> Held]
  <2>1. \A k \in 0 .. BUFSIZE : data'[k] \in Held
    <3> TAKE k \in 0 .. BUFSIZE
    <3>1. CASE k < l
      <4>1. k + 1 \in 1 .. Len(line)
        BY <1>4, <1>8, <3>1
      <4> QED
        BY <1>4, <1>9, <3>1, <4>1, ElementOfSeq
    <3>2. CASE k = l
      BY <1>9, <3>2, HeldIs
    <3>3. CASE k > l
      BY <1>6, <1>9, <3>3
    <3> QED
      BY <1>8, <3>1, <3>2, <3>3
  <2> QED
    BY <1>5, <2>1
<1>12. data'[BUFSIZE] # Newline
  <2>1. BUFSIZE \in 0 .. BUFSIZE /\ BUFSIZE > l
    BY <1>2, <1>8
  <2> QED
    BY <1>6, <1>9, <2>1
<1>13. Handled(out', Files, entry, arg, pos' - last')
  BY <1>5, <1>7, <1>8
<1>14. pos' \in 0 .. Len(bytes) /\ last' \in 0 .. BUFSIZE - 1 /\ last' <= pos' /\ pos' = pos /\ last' = l
  BY <1>2, <1>5, <1>8
<1> QED
  BY <1>2, <1>5, <1>10, <1>11, <1>12, <1>13, <1>14, ReadNext DEF bytes

LEMMA SearchScanned ==
    ASSUME Commanded, Searchable, Scanned, pc = "grep_scan", ~Cut, Search,
           UNCHANGED <<text, arg, pos, cnt>>
    PROVE  Scanned'
<1> DEFINE bytes == Bytes(entry)
           L == LineEnd
           q == pos - last + LineEnd
<1>1. AtLine
  BY AtLineIs
<1>2. /\ BUFSIZE \in Nat \ {0} /\ bytes \in Seq(FileBytes) /\ Len(bytes) \in Nat
      /\ L \in Nat /\ last \in Nat /\ pos \in Nat /\ line_start \in Nat
      /\ line_start <= L /\ L <= last /\ last <= BUFSIZE /\ last <= pos /\ pos <= Len(bytes)
      /\ L = last \/ data[L] = Newline
      /\ \A k \in line_start .. last - 1 : data[k] = bytes[pos - last + k + 1]
      /\ entry \in Entries /\ ~Hidden(entry)
  BY <1>1 DEF AtLine
<1>3. FilesOK(Files) /\ Files[entry] = bytes
  BY <1>2, FilesAre
<1>4. /\ out' = FoundTo(Files, arg)[entry - 1] \o FoundIn(entry, bytes, arg)[q + 1]
      /\ q = Len(bytes) \/ bytes[q + 1] = Newline
  BY <1>3, LineFound, SearchWrites DEF FoundAt
<1>5. /\ data' = Ended /\ line_start' = L + 1
      /\ IF L + 1 < last THEN UNCHANGED <<last, pc, entry>>
         ELSE /\ last' = 0
              /\ IF cnt = 0 THEN pc' = "grep_next" /\ entry' = entry + 1
                 ELSE pc' = "grep_read" /\ entry' = entry
  BY DEF Search
<1>6. /\ data' \in [0 .. BUFSIZE -> Held] /\ data'[BUFSIZE] # Newline
      /\ \A k \in 0 .. BUFSIZE : k # L => data'[k] = data[k]
  BY <1>1, <1>5, EndedIs
<1>7. /\ last = BUFSIZE \/ pos = Len(bytes)
      /\ cnt = 0 => pos = Len(bytes) /\ \A k \in line_start .. last - 1 : data[k] # Newline
  BY DEF Scanned
<1>8. text' = text /\ arg' = arg /\ pos' = pos /\ cnt' = cnt
  OBVIOUS
<1>9. q = pos - last + L /\ q \in 0 .. Len(bytes)
  BY <1>2
<1> HIDE DEF bytes, L, q
<1>10. CASE L + 1 < last
  <2>1. last' = last /\ pc' = "grep_scan" /\ entry' = entry
    BY <1>5, <1>10
  <2>2. /\ pos' \in 0 .. Len(bytes) /\ last' \in 0 .. BUFSIZE /\ last' <= pos'
        /\ line_start' \in 0 .. last' /\ line_start' < last'
        /\ pos' - last' + line_start' = q + 1
        /\ L \in line_start .. last - 1 /\ pos - last + L + 1 = q + 1
    BY <1>2, <1>5, <1>8, <1>9, <1>10, <2>1
  <2>3. \A k \in line_start' .. last' - 1 : k \in line_start .. last - 1 /\ k \in 0 .. BUFSIZE /\ k # L
    BY <1>2, <1>5, <2>1
  <2>4. \A k \in line_start' .. last' - 1 : data'[k] = data[k] /\ data'[k] = bytes[pos' - last' + k + 1]
    BY <1>2, <1>6, <1>8, <2>1, <2>3
  <2>5. bytes[q + 1] = Newline
    <3>1. data[L] = Newline
      BY <1>2, <1>10
    <3>2. data[L] = bytes[pos - last + L + 1]
      BY <1>2, <2>2
    <3> QED
      BY <2>2, <3>1, <3>2
  <2>6. Handled(out', Files, entry, arg, pos' - last' + line_start')
    <3>1. Handled(out', Files, entry, arg, q + 1)
      BY <1>3, <1>4, <2>5 DEF Handled
    <3> QED
      BY <2>2, <3>1
  <2>7. cnt' = 0 => pos' = Len(bytes) /\ \A k \in line_start' .. last' - 1 : data'[k] # Newline
    BY <1>7, <1>8, <2>3, <2>4
  <2>8. last' = BUFSIZE \/ pos' = Len(bytes)
    BY <1>7, <1>8, <2>1
  <2> QED
    BY <1>2, <1>6, <1>8, <2>1, <2>2, <2>4, <2>6, <2>7, <2>8, ScanNext DEF bytes
<1>11. CASE ~(L + 1 < last) /\ cnt = 0
  <2>1. L = last
    <3> SUFFICES ASSUME L # last PROVE FALSE
      OBVIOUS
    <3>1. L \in line_start .. last - 1 /\ data[L] = Newline
      BY <1>2
    <3> QED
      BY <1>7, <1>11, <3>1
  <2>2. pc' = "grep_next" /\ entry' = entry + 1 /\ q = Len(bytes)
    BY <1>2, <1>5, <1>7, <1>9, <1>11, <2>1
  <2>3. FoundTo(Files, arg)[entry] = Joined(FoundTo(Files, arg)[entry - 1], FoundOf(Files, arg, entry))
    BY <1>2, <1>3, FoundToIs
  <2>4. FoundOf(Files, arg, entry) = FoundIn(entry, bytes, arg)[Len(bytes) + 1]
    BY <1>2, <1>3 DEF FoundOf
  <2>5. out' = FoundTo(Files, arg)[entry]
    BY <1>4, <2>2, <2>3, <2>4 DEF Joined
  <2>6. entry' \in 1 .. Len(Directory) + 1 /\ entry' - 1 = entry
    BY <1>2, <2>2, Sizes DEF Entries
  <2> QED
    BY <1>6, <1>8, <2>2, <2>5, <2>6, EntryNext
<1>12. CASE ~(L + 1 < last) /\ cnt # 0
  <2>1. pc' = "grep_read" /\ last' = 0 /\ entry' = entry
    BY <1>5, <1>12
  <2>2. Handled(out', Files, entry, arg, pos)
    <3>1. CASE L = last
      <4>1. q = pos
        BY <1>2, <1>9, <3>1
      <4> QED
        BY <1>3, <1>4, <4>1 DEF Handled
    <3>2. CASE L # last
      <4>1. q + 1 = pos /\ L \in line_start .. last - 1 /\ pos - last + L + 1 = pos
        BY <1>2, <1>9, <1>12, <3>2
      <4>2. bytes[pos] = Newline
        <5>1. data[L] = Newline /\ data[L] = bytes[pos - last + L + 1]
          BY <1>2, <3>2, <4>1
        <5> QED
          BY <4>1, <5>1
      <4> QED
        BY <1>3, <1>4, <4>1, <4>2 DEF Handled
    <3> QED
      BY <3>1, <3>2
  <2>3. /\ pos' \in 0 .. Len(bytes) /\ last' \in 0 .. BUFSIZE - 1 /\ last' <= pos'
        /\ pos' - last' = pos /\ last' - 1 = -1
    BY <1>2, <1>8, <2>1
  <2>4. \A k \in 0 .. last' - 1 : data'[k] = bytes[pos' - last' + k + 1] /\ data'[k] # Newline
    BY <2>3
  <2>5. Handled(out', Files, entry, arg, pos' - last')
    BY <2>2, <2>3
  <2> QED
    BY <1>2, <1>6, <1>8, <2>1, <2>3, <2>4, <2>5, ReadNext DEF bytes
<1> QED
  BY <1>10, <1>11, <1>12

(* The end of grep, and nothing else, leaves what grep has written.        *)
GrepDone ==
    Done("grep") /\ asked.argument # <<>> /\ (\A f \in DOMAIN text : Short(text[f])) =>
      out = FoundTo(Files, asked.argument)[Len(Directory)]

LEMMA EndFound ==
    ASSUME Commanded, Searchable => Scanned, GrepNext
    PROVE  GrepDone'
<1>1. /\ pc = "grep_next" /\ out' = out /\ arg' = arg /\ text' = text /\ asked' = asked
  BY DEF GrepNext, Shell, Quiet
<1>2. SUFFICES ASSUME pc' = "answered", asked'.argument # Garbage, asked'.argument # <<>>,
                      \A f \in DOMAIN text' : Short(text'[f])
               PROVE  out' = FoundTo(Files', asked'.argument)[Len(Directory)]
  BY DEF GrepDone, Done
<1>3. asked.argument = arg /\ arg \in Seq(Characters)
  BY <1>1, <1>2 DEF Commanded, RunsWhatWasTyped
<1>4. Searchable
  BY <1>1, <1>2, <1>3 DEF Searchable
<1>5. entry \in 1 .. Len(Directory) + 1 /\ out = FoundTo(Files, arg)[entry - 1]
  BY <1>1, <1>4 DEF Scanned
<1>6. entry > Len(Directory)
  <2> SUFFICES ASSUME ~(entry > Len(Directory)) PROVE FALSE
    OBVIOUS
  <2>1. entry <= Len(Directory)
    BY <1>5, Sizes
  <2>2. pc' = pc \/ pc' = "grep_read"
    BY <2>1 DEF GrepNext
  <2> QED
    BY <1>1, <1>2, <2>2
<1>7. entry - 1 = Len(Directory)
  BY <1>5, <1>6, Sizes
<1>8. Files' = Files
  BY <1>1, FilesStay
<1> QED
  BY <1>1, <1>3, <1>5, <1>7, <1>8

LEMMA OthersFound ==
    ASSUME Commanded, Shells, ~GrepNext, Next
    PROVE  GrepDone'
<1>1. CASE \E line \in Lines : ExecuteExit(line) \/ ExecuteFails(line) \/ Execute(line)
  <2>1. PICK line \in Lines : ExecuteExit(line) \/ ExecuteFails(line) \/ Execute(line)
    BY <1>1
  <2>2. CASE ExecuteExit(line)
    <3>1. Typed(line) /\ Exits(line)
      BY <2>2 DEF ExecuteExit
    <3>2. IsExit(asked'.word)
      BY <3>1, TypedAsked DEF Exits
    <3> QED
      BY <3>2, ProgramsNotExit DEF GrepDone, Done, Runs
  <2>3. CASE ExecuteFails(line)
    BY <2>3 DEF ExecuteFails, GrepDone, Done
  <2>4. CASE Execute(line)
    <3>1. Program[Parsed(line).name] \in Programs
      BY <2>4, ProgramsNotExit DEF Execute, Executable
    <3> QED
      BY <2>4, <3>1 DEF Execute, Programs, GrepDone, Done
  <2> QED
    BY <2>1, <2>2, <2>3, <2>4
<1>2. CASE \/ \E line \in Lines : Hello(line) \/ Counter(line)
           \/ NoArgument("cat") \/ CatOpen \/ CatRead \/ CatNames \/ Ls
  <2>1. pc \in {"hello", "counter", "cat", "cat_read", "ls"} /\ asked' = asked
    BY <1>2 DEF Hello, Counter, NoArgument, CatOpen, CatRead, CatNames, Ls, Rest
  <2>2. Runs(Running[pc]) /\ Running[pc] # "grep"
    BY <2>1, RunningIs DEF Commanded
  <2>3. PICK p : p = Running[pc]
    OBVIOUS
  <2>4. Runs(p)'
    BY <2>1, <2>2, <2>3 DEF Runs
  <2> QED
    BY <2>2, <2>3, <2>4 DEF GrepDone, Done, Runs
<1>3. CASE NoArgument("grep")
  <2>1. pc = "grep" /\ shells[Here] = <<>> /\ asked' = asked
    BY <1>3 DEF NoArgument, NoArgs, Rest
  <2>2. getargs(<<>>) = <<>>
    BY NothingParsed
  <2>3. asked.argument # Garbage => asked.argument = <<>>
    BY <2>1, <2>2 DEF Commanded, RunsWhatWasTyped
  <2> QED
    BY <2>1, <2>3 DEF GrepDone, Done
<1>4. CASE GrepStart \/ GrepRead \/ GrepScan \/ Prompt
  <2>1. pc' # "answered"
    BY <1>4 DEF GrepStart, GrepRead, GrepScan, Carry, Search, Prompt
  <2> QED
    BY <2>1 DEF GrepDone, Done
<1> QED
  BY <1>1, <1>2, <1>3, <1>4 DEF Next

LEMMA ScannedStep ==
    ASSUME Newline \notin Behind, Commanded, Copied, Searchable => Scanned, Searchable', [Next]_vars
    PROVE  Scanned'
<1>1. CASE GrepStart
  BY <1>1, StartScanned
<1>2. CASE GrepNext \/ GrepRead \/ GrepScan
  <2>1. arg' = arg /\ text' = text
    BY <1>2 DEF GrepNext, GrepRead, GrepScan, Shell
  <2>2. Searchable
    BY <2>1 DEF Searchable
  <2>3. CASE GrepNext
    BY <2>2, <2>3, NextScanned
  <2>4. CASE GrepRead
    BY <2>2, <2>4, ReadScanned
  <2>5. CASE GrepScan
    <3>1. pc = "grep_scan" /\ UNCHANGED <<text, arg, pos, cnt>> /\ IF Cut THEN Carry ELSE Search
      BY <2>5 DEF GrepScan, Shell
    <3>2. CASE Cut
      BY <2>2, <3>1, <3>2, CarryScanned
    <3>3. CASE ~Cut
      BY <2>2, <3>1, <3>3, SearchScanned
    <3> QED
      BY <3>2, <3>3
  <2> QED
    BY <1>2, <2>3, <2>4, <2>5
<1>3. CASE UNCHANGED vars
  <2>1. /\ UNCHANGED <<text, pc, out, arg, entry, pos, data, last, cnt, line_start>>
    BY <1>3 DEF vars, fileVars, bufVars
  <2>2. Searchable
    BY <2>1 DEF Searchable
  <2>3. Files' = Files /\ Bytes(entry)' = Bytes(entry)
    BY <2>1, FilesStay DEF Bytes
  <2>4. Dealt(pos - last + line_start)' = Dealt(pos - last + line_start) /\ Dealt(pos - last + 0)' = Dealt(pos - last + 0)
    BY <2>1, <2>3 DEF Dealt
  <2>5. Buffered(0)' = Buffered(0) /\ Buffered(line_start)' = Buffered(line_start)
    BY <2>1, <2>3, <2>4 DEF Buffered
  <2> QED
    BY <2>1, <2>2, <2>3, <2>5 DEF Scanned
<1>4. CASE Next /\ ~(GrepStart \/ GrepNext \/ GrepRead \/ GrepScan)
  <2>1. pc' \notin {"grep_next", "grep_read", "grep_scan"}
    <3>1. CASE \E line \in Lines : ExecuteExit(line) \/ ExecuteFails(line) \/ Execute(line)
      <4>1. PICK line \in Lines : ExecuteExit(line) \/ ExecuteFails(line) \/ Execute(line)
        BY <3>1
      <4>2. CASE Execute(line)
        <5>1. Program[Parsed(line).name] \in Programs
          BY <4>2, ProgramsNotExit DEF Execute, Executable
        <5> QED
          BY <4>2, <5>1 DEF Execute, Programs
      <4> QED
        BY <4>1, <4>2 DEF ExecuteExit, ExecuteFails, End
    <3>2. CASE ~\E line \in Lines : ExecuteExit(line) \/ ExecuteFails(line) \/ Execute(line)
      BY <1>4, <3>2 DEF Next, Hello, Counter, NoArgument, CatOpen, CatRead, CatNames, Ls, Prompt, End
    <3> QED
      BY <3>1, <3>2
  <2> QED
    BY <2>1 DEF Scanned
<1> QED
  BY <1>1, <1>2, <1>3, <1>4

LEMMA GrepDoneStep ==
    ASSUME Commanded, Shells, Searchable => Scanned, GrepDone, [Next]_vars
    PROVE  GrepDone'
<1>1. CASE GrepNext
  BY <1>1, EndFound
<1>2. CASE Next /\ ~GrepNext
  BY <1>2, OthersFound
<1>3. CASE UNCHANGED vars
  <2>1. UNCHANGED <<text, pc, told, asked, out>>
    BY <1>3 DEF vars
  <2>2. Files' = Files
    BY <2>1, FilesStay
  <2> QED
    BY <2>1, <2>2 DEF GrepDone, Done, Runs
<1> QED
  BY <1>1, <1>2, <1>3

LEMMA WrittenParts == WritesWhatWasAsked <=> CatDone /\ GrepDone
  BY DEF CatDone, GrepDone, Done, WritesWhatWasAsked

(* When a program has ended it has written what it was asked for: cat the  *)
(* whole of the file, grep every line that holds the text, once, in order  *)
(* and complete, wherever the reads have cut it, and no other (cat.c and   *)
(* do_one_file of grep.c).  In the byte behind grep's buffer, which nothing *)
(* initialises, there is no newline.                                       *)
THEOREM WritesAsAsked ==
    ASSUME Newline \notin Behind
    PROVE  Spec => []WritesWhatWasAsked
<1> DEFINE Inv == IInv /\ Shells
<1>1. Init => Inv
  <2> SUFFICES ASSUME Init PROVE Inv
    OBVIOUS
  <2>1. pc = "prompt" /\ out = <<>> /\ entry = 1 /\ pos = 0
    BY DEF Init
  <2>2. Commanded /\ Shells /\ Copied /\ Scanned
    BY <2>1, CommandedInit DEF Copied, Scanned
  <2>3. CatDone /\ GrepDone
    BY <2>1 DEF CatDone, GrepDone, Done
  <2> QED
    BY <2>2, <2>3, WrittenParts DEF IInv
<1>2. Inv /\ [Next]_vars => Inv'
  <2> SUFFICES ASSUME Inv, [Next]_vars PROVE Inv'
    OBVIOUS
  <2>0. Commanded /\ Copied /\ (Searchable => Scanned) /\ CatDone /\ GrepDone /\ Shells
    BY WrittenParts DEF IInv
  <2>1. Here \in Nat \ {0}
    BY <2>0, Sizes DEF Commanded
  <2>2. Commanded' /\ Shells'
    BY <2>0, <2>1, CommandedStep, ShellsAlways
  <2>3. Copied' /\ CatDone'
    BY <2>0, CopiedStep
  <2>4. (Searchable => Scanned)'
    BY <2>0, ScannedStep
  <2>5. GrepDone'
    BY <2>0, GrepDoneStep
  <2>6. WritesWhatWasAsked'
    BY <2>3, <2>5 DEF CatDone, GrepDone, Done, WritesWhatWasAsked
  <2> QED
    BY <2>2, <2>3, <2>4, <2>6 DEF IInv
<1>3. Inv => WritesWhatWasAsked
  BY DEF IInv
<1> QED
  BY <1>1, <1>2, <1>3, PTL DEF Spec
=============================================================================
