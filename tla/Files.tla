------------------------------- MODULE Files -------------------------------
(***************************************************************************)
(* What the read-only file system promises a process: a descriptor names   *)
(* the entry that was opened, reads of a file give its bytes in order from *)
(* where the last read stopped, reads of a directory give the names of its *)
(* entries in order and then 0, and start over.                            *)
(***************************************************************************)
EXTENDS Integers, Sequences

CONSTANTS Entries,      \* the directory: a sequence of [name, type, bytes]
          Unpromised,   \* entries of which reads may give anything
          Unreadable,   \* files of which no read gives anything
          Fds,          \* the descriptors of a process
          Names,        \* names asked for
          Requests      \* numbers of bytes asked for

VARIABLES open,         \* the descriptors in use: fd -> [entry, position]
          answer        \* the last call: what it returned, the data it gave
                        \*   or, if it was an open, the name it was given

vars == <<open, answer>>

Init == /\ open = <<>>
        /\ answer = [call |-> "none", ret |-> 0, data |-> <<>>]

Free == Fds \ DOMAIN open

Answer(call, ret, data) == answer' = [call |-> call, ret |-> ret, data |-> data]

(* The first entry with that name.                                         *)
Named(name, e) == /\ e \in DOMAIN Entries
                  /\ Entries[e].name = name
                  /\ \A d \in 1 .. e - 1 : Entries[d].name # name

Open(name) ==
    \/ \E e \in DOMAIN Entries, fd \in Free :
         /\ Named(name, e)
         /\ \A g \in Free : fd <= g
         /\ open' = [g \in DOMAIN open \cup {fd} |->
                       IF g = fd THEN [entry |-> e, position |-> 0] ELSE open[g]]
         /\ Answer("open", fd, name)
    \/ /\ Free = {} \/ \A e \in DOMAIN Entries : ~Named(name, e)
       /\ Answer("open", -1, name)
       /\ UNCHANGED open

Close(fd) ==
    /\ open' = [g \in DOMAIN open \ {fd} |-> open[g]]
    /\ Answer("close", IF fd \in DOMAIN open THEN 0 ELSE -1, <<>>)

Entry(fd) == Entries[open[fd].entry]

Moved(fd, n) == open' = [open EXCEPT ![fd].position = n]

Fewest(m, n) == IF m <= n THEN m ELSE n

ReadFile(fd, n) ==
    /\ fd \in DOMAIN open /\ Entry(fd).type = "file"
    /\ open[fd].entry \notin Unpromised \cup Unreadable
    /\ LET from == open[fd].position
           to   == Fewest(from + n, Len(Entry(fd).bytes)) IN
       /\ Answer("read", to - from, SubSeq(Entry(fd).bytes, from + 1, to))
       /\ Moved(fd, to)

ReadRefused(fd) ==
    /\ fd \in DOMAIN open /\ open[fd].entry \in Unreadable
    /\ Answer("read", -1, <<>>)
    /\ UNCHANGED open

ReadAnything(fd) ==
    /\ fd \in DOMAIN open /\ open[fd].entry \in Unpromised
    /\ answer'.call = "read"
    /\ DOMAIN open' = DOMAIN open
    /\ open'[fd].entry = open[fd].entry
    /\ \A g \in DOMAIN open \ {fd} : open'[g] = open[g]

ReadDirectory(fd) ==
    /\ fd \in DOMAIN open /\ Entry(fd).type = "dir"
    /\ LET next == open[fd].position + 1 IN
       \/ /\ next <= Len(Entries)
          /\ Answer("list", Len(Entries[next].name), Entries[next].name)
          /\ Moved(fd, next)
       \/ /\ next > Len(Entries)
          /\ Answer("list", 0, <<>>)
          /\ Moved(fd, 0)

(* Reading what is not open, and writing, fail.                            *)
Refuse(call) ==
    /\ Answer(call, -1, <<>>)
    /\ UNCHANGED open

(* Executing a program disturbs no descriptor.                             *)
Execute ==
    /\ \E status \in {-1, 0} : Answer("exec", status, <<>>)
    /\ UNCHANGED open

Next ==
    \/ \E name \in Names : Open(name)
    \/ \E fd \in Fds : Close(fd) \/ ReadDirectory(fd) \/ ReadRefused(fd) \/ ReadAnything(fd)
    \/ \E fd \in Fds, n \in Requests : ReadFile(fd, n)
    \/ \E fd \in Fds : fd \notin DOMAIN open /\ Refuse("absent")
    \/ Refuse("write") \/ Execute

Spec == Init /\ [][Next]_vars
=============================================================================
