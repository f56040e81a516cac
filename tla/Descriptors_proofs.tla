------------------------- MODULE Descriptors_proofs -------------------------
(***************************************************************************)
(* DescInv is an invariant of Descriptors, for any number of terminals,    *)
(* slots and descriptors and any table of frequencies.                     *)
(***************************************************************************)
EXTENDS Descriptors, TLAPS

USE DEF Terminals, Pids, NoPid, NoRate

LEMMA RatesPositive == SlowestRate \in Nat /\ SlowestRate >= 1 /\ \A r \in Rates : r \in 1 .. SlowestRate
  BY FrequenciesAssumption DEF SlowestRate, Rates

LEMMA Periods ==
  ASSUME NEW h \in Frequencies
  PROVE  Rate(h) \in Rates /\ Rate(h) # NoRate
<1>1. Rate(h) \in 1 .. SlowestRate
  BY FrequenciesAssumption
<1> HIDE DEF NoRate
<1>2. Rate(h) \in Rates
  BY DEF Rates
<1>3. NoRate \notin 1 .. SlowestRate
  BY DEF NoRate
<1> QED
  BY <1>1, <1>2, <1>3

LEMMA Membership ==
  ASSUME NEW A, NEW B
  PROVE  [x \in A |-> x \in B] \in [A -> BOOLEAN]
<1>1. ASSUME NEW x \in A
      PROVE  (x \in B) \in BOOLEAN
  <2>1. CASE x \in B
    BY <2>1, Zenon
  <2>2. CASE x \notin B
    BY <2>2
  <2> QED
    BY <2>1, <2>2, Zenon
<1> QED
  BY <1>1

LEMMA DescInit == Init => DescInv
<1> SUFFICES ASSUME Init PROVE DescInv
  OBVIOUS
<1> USE DEF Init
<1>1. TypeOK
  <2>1. active_process \in [Terminals -> Pids]
    BY SizesAssumption
  <2>2. 0 \in 0 .. SlowestRate - 1
    BY RatesPositive
  <2>3. fd_table \in [Pids -> [Fds -> Kinds \cup {"absent"}]]
    BY DEF NoFds
  <2>4. argument \in [Pids -> Stored] /\ given \in [Pids -> Stored]
    BY DEF Stored
  <2>5. \A t \in Terminals : flags[active_process[t]]
    BY <2>1
  <2>6. flags \in [Pids -> BOOLEAN]
    BY Membership, Zenon
  <2>10. ticked \in [Terminals -> BOOLEAN]
    BY Zenon
  <2>7. parent \in [Pids -> Pids \cup {NoPid}] /\ client \in [Terminals -> Pids \cup {NoPid}]
    OBVIOUS
  <2>8. rate \in [Terminals -> Rates \cup {NoRate}] /\ count \in [Terminals -> 0 .. SlowestRate - 1]
    BY <2>2
  <2>9. pc \in [Terminals -> {"user", "open", "wait", "seen"}]
    OBVIOUS
  <2> QED
    BY <2>1, <2>3, <2>4, <2>5, <2>6, <2>7, <2>8, <2>9, <2>10 DEF TypeOK
<1>2. OneChild
  BY DEF OneChild, Running
<1>3. \A p \in Pids : Clocks(p) = {}
  BY DEF Clocks, NoFds
<1>4. OneClockEach
  BY <1>3 DEF OneClockEach
<1>5. ClockServed
  BY <1>3, <1>1 DEF ClockServed, Running, TypeOK
<1>6. ArgumentsArrive
  BY DEF ArgumentsArrive
<1> QED
  BY <1>1, <1>2, <1>4, <1>5, <1>6 DEF DescInv

-----------------------------------------------------------------------------
(* What a step leaves alone keeps its part of the invariant.               *)

LEMMA SameTree ==
  ASSUME OneChild, UNCHANGED <<flags, parent, active_process>>
  PROVE  OneChild'
  BY DEF OneChild, Running

LEMMA SameArguments ==
  ASSUME ArgumentsArrive, UNCHANGED <<flags, parent, argument, given>>
  PROVE  ArgumentsArrive'
  BY DEF ArgumentsArrive

LEMMA SameClocks ==
  ASSUME OneClockEach, UNCHANGED <<flags, fd_table>>
  PROVE  OneClockEach'
  BY DEF OneClockEach, Clocks

(* Steps of the clock and of the interrupt.                                *)
LEMMA ClockStep ==
  ASSUME DescInv, TypeOK', UNCHANGED pcbVars, UNCHANGED client,
         NEW t \in Terminals,
         \A u \in Terminals : u # t => rate'[u] = rate[u] /\ pc'[u] = pc[u],
         rate'[t] = rate[t] \/ rate'[t] # NoRate,
         pc'[t] = pc[t] \/ pc'[t] = "user" \/ Clocks(Running(t)) # {},
         pc[t] # "open" \/ pc'[t] = "open" \/ rate'[t] # NoRate
  PROVE  DescInv'
<1>1. OneChild' /\ ArgumentsArrive' /\ OneClockEach'
  BY SameTree, SameArguments, SameClocks DEF DescInv, pcbVars
<1>2. ClockServed'
  BY DEF DescInv, ClockServed, Clocks, Running, pcbVars
<1> QED
  BY <1>1, <1>2 DEF DescInv

LEMMA InterruptStep ==
  ASSUME DescInv, RtcHandler
  PROVE  DescInv'
<1>1. \A u \in Terminals : count[u] \in Nat /\ rate[u] \in Int /\ rate[u] <= SlowestRate
  BY RatesPositive DEF DescInv, TypeOK
<1>2. count' \in [Terminals -> 0 .. SlowestRate - 1]
  <2>1. \A u \in Terminals : ~(count[u] + 1 >= rate[u]) => count[u] + 1 \in 0 .. SlowestRate - 1
    BY <1>1, RatesPositive
  <2> QED
    BY <2>1, RatesPositive DEF RtcHandler, DescInv, TypeOK
<1>3. ticked' \in [Terminals -> BOOLEAN]
  BY Zenon DEF RtcHandler, DescInv, TypeOK
<1>4. TypeOK'
  BY <1>2, <1>3 DEF DescInv, TypeOK, RtcHandler, pcbVars
<1>5. OneChild' /\ ArgumentsArrive' /\ OneClockEach'
  BY SameTree, SameArguments, SameClocks DEF DescInv, pcbVars, RtcHandler
<1>6. ClockServed'
  BY DEF DescInv, ClockServed, Clocks, Running, pcbVars, RtcHandler
<1> QED
  BY <1>4, <1>5, <1>6 DEF DescInv

LEMMA ClockSteps ==
  ASSUME DescInv, NEW t \in Terminals,
         \/ OpenRate(t) \/ ReadRtc(t) \/ ReadSeen(t) \/ ReadReset(t)
         \/ \E freq \in Requested : WriteRtc(t, freq)
  PROVE  DescInv'
<1>1. CASE OpenRate(t)
  <2>1. Rate(HZ_2) \in Rates /\ Rate(HZ_2) # NoRate
    BY Periods, FrequenciesAssumption
  <2>2. TypeOK' /\ rate'[t] # NoRate
    BY <1>1, <2>1 DEF OpenRate, DescInv, TypeOK, pcbVars
  <2> QED
    BY <1>1, <2>2, ClockStep DEF OpenRate, DescInv, TypeOK
<1>2. CASE ReadRtc(t)
  <2>1. TypeOK'
    BY <1>2 DEF ReadRtc, DescInv, TypeOK, pcbVars, rtcVars
  <2> QED
    BY <1>2, <2>1, ClockStep DEF ReadRtc, DescInv, TypeOK, rtcVars
<1>3. CASE ReadSeen(t)
  <2>1. TypeOK'
    BY <1>3 DEF ReadSeen, DescInv, TypeOK, pcbVars, rtcVars
  <2>2. Clocks(Running(t)) # {} \/ ~OneClock
    BY <1>3 DEF ReadSeen, DescInv, ClockServed
  <2>3. UNCHANGED <<pcbVars, client, rate>>
    BY <1>3 DEF ReadSeen, rtcVars
  <2>4. \A u \in Terminals : u # t => pc'[u] = pc[u]
    BY <1>3 DEF ReadSeen, DescInv, TypeOK
  <2>5. CASE OneClock
    BY <1>3, <2>1, <2>2, <2>3, <2>4, <2>5, ClockStep DEF ReadSeen
  <2>6. CASE ~OneClock
    <3>1. OneChild' /\ ArgumentsArrive' /\ OneClockEach'
      BY <2>3, SameTree, SameArguments, SameClocks DEF DescInv, pcbVars
    <3> QED
      BY <3>1, <2>1, <2>6 DEF DescInv, ClockServed
  <2> QED
    BY <2>5, <2>6
<1>4. CASE ReadReset(t)
  <2>1. TypeOK'
    BY <1>4 DEF ReadReset, DescInv, TypeOK, pcbVars
  <2> QED
    BY <1>4, <2>1, ClockStep DEF ReadReset, DescInv, TypeOK
<1>5. CASE \E freq \in Requested : WriteRtc(t, freq)
  <2>1. rate' = rate \/ \E h \in Frequencies : rate' = [rate EXCEPT ![t] = Rate(h)]
    BY <1>5 DEF WriteRtc
  <2>2. UNCHANGED <<pcbVars, client, count, ticked, pc>> /\ pc[t] = "user"
    BY <1>5 DEF WriteRtc
  <2>3. TypeOK'
    BY <2>1, <2>2 DEF DescInv, TypeOK, pcbVars, Rates
  <2>4. rate'[t] = rate[t] \/ rate'[t] # NoRate
    BY <2>1, Periods DEF DescInv, TypeOK
  <2>5. \A u \in Terminals : u # t => rate'[u] = rate[u]
    BY <2>1 DEF DescInv, TypeOK
  <2> QED
    BY <2>2, <2>3, <2>4, <2>5, ClockStep
<1> QED
  BY <1>1, <1>2, <1>3, <1>4, <1>5

-----------------------------------------------------------------------------
(* Steps on descriptors.                                                   *)

(* A process that runs on t runs on no other terminal.                     *)
LEMMA Alone ==
  ASSUME DescInv, NEW t \in Terminals, NEW u \in Terminals, u # t
  PROVE  Running(u) # Running(t)
  BY DEF DescInv, OneChild

LEMMA RunningLives ==
  ASSUME DescInv, NEW t \in Terminals
  PROVE  Running(t) \in Pids /\ flags[Running(t)]
  BY DEF DescInv, TypeOK, Running

LEMMA OpenStep ==
  ASSUME DescInv, NEW t \in Terminals, NEW kind \in Kinds, NEW f \in Fds,
         OpenFd(t, kind, f)
  PROVE  DescInv'
<1> PICK p \in Pids : p = Running(t)
  BY RunningLives
<1>1. p \in Pids /\ flags[p] /\ pc[t] = "user"
  BY RunningLives DEF OpenFd
<1>2. f \in Fds /\ fd_table[p][f] = "absent"
  BY DEF OpenFd, Lowest, Free
<1>3. fd_table' = [fd_table EXCEPT ![p][f] = kind]
  BY DEF OpenFd
<1>4. UNCHANGED <<flags, parent, argument, active_process, given, rate, count, ticked>>
  BY DEF OpenFd
<1>5. TypeOK'
  <2>1. client' \in [Terminals -> Pids \cup {NoPid}]
    BY <1>1 DEF OpenFd, DescInv, TypeOK
  <2>2. pc' \in [Terminals -> {"user", "open", "wait", "seen"}]
    BY DEF OpenFd, DescInv, TypeOK
  <2>3. fd_table' \in [Pids -> [Fds -> Kinds \cup {"absent"}]]
    BY <1>1, <1>3 DEF DescInv, TypeOK
  <2> QED
    BY <1>4, <2>1, <2>2, <2>3 DEF DescInv, TypeOK
<1>6. OneChild' /\ ArgumentsArrive'
  BY <1>4, SameTree, SameArguments DEF DescInv
<1>7. \A q \in Pids : q # p => Clocks(q)' = Clocks(q)
  BY <1>1, <1>3 DEF Clocks, DescInv, TypeOK
<1>8. Clocks(p)' = IF kind = "rtc" THEN Clocks(p) \cup {f} ELSE Clocks(p)
  BY <1>1, <1>2, <1>3 DEF Clocks, DescInv, TypeOK
<1>9. OneClockEach'
  <2>1. kind = "rtc" /\ OneClock => Clocks(p) = {}
    BY DEF OpenFd
  <2> QED
    BY <1>1, <1>4, <1>7, <1>8, <2>1 DEF DescInv, OneClockEach
<1>10. ClockServed'
  <2> SUFFICES ASSUME OneClock, NEW u \in Terminals
               PROVE  /\ (Clocks(Running(u)) # {})' =>
                           client'[u] # NoPid /\ (pc'[u] # "open" => rate'[u] # NoRate)
                      /\ pc'[u] # "user" => (Clocks(Running(u)) # {})'
    BY DEF ClockServed
  <2>1. Running(u)' = Running(u) /\ Running(u) \in Pids
    BY <1>4, RunningLives DEF Running
  <2>2. CASE u # t
    <3>1. client'[u] = client[u] /\ pc'[u] = pc[u] /\ rate'[u] = rate[u]
      BY <2>2, <1>4 DEF OpenFd, DescInv, TypeOK
    <3>2. Clocks(Running(u))' = Clocks(Running(u))
      BY <2>1, <2>2, <1>3, Alone DEF Clocks, DescInv, TypeOK
    <3> QED
      BY <3>1, <3>2 DEF DescInv, ClockServed
  <2>3. CASE u = t /\ kind = "rtc"
    <3>1. client'[u] = p /\ pc'[u] = "open"
      BY <2>3 DEF OpenFd, DescInv, TypeOK
    <3>2. Clocks(Running(u))' = Clocks(p)'
      BY <2>3, <1>4 DEF Running, Clocks
    <3> QED
      BY <3>1, <3>2, <1>1, <1>8, <2>3
  <2>4. CASE u = t /\ kind # "rtc"
    <3>1. client'[u] = client[u] /\ pc'[u] = pc[u] /\ rate'[u] = rate[u]
      BY <2>4, <1>4 DEF OpenFd
    <3>2. Clocks(Running(u))' = Clocks(p)'
      BY <2>4, <1>4 DEF Running, Clocks
    <3> QED
      BY <3>1, <3>2, <1>8, <2>4 DEF DescInv, ClockServed
  <2> QED
    BY <2>2, <2>3, <2>4
<1> QED
  BY <1>5, <1>6, <1>9, <1>10 DEF DescInv

LEMMA CloseStep ==
  ASSUME DescInv, NEW t \in Terminals, NEW f \in Fds, Close(t, f)
  PROVE  DescInv'
<1> PICK p \in Pids : p = Running(t)
  BY RunningLives
<1>1. flags[p] /\ pc[t] = "user" /\ f \in Open(p)
  BY RunningLives DEF Close
<1>2. fd_table' = [fd_table EXCEPT ![p][f] = "absent"]
  BY DEF Close
<1>3. UNCHANGED <<flags, parent, argument, active_process, given, pc>>
  BY DEF Close
<1>4. IF fd_table[p][f] = "rtc"
        THEN /\ client' = [client EXCEPT ![t] = NoPid]
             /\ rate' = [rate EXCEPT ![t] = NoRate]
             /\ count' = [count EXCEPT ![t] = 0]
             /\ ticked' = [ticked EXCEPT ![t] = FALSE]
        ELSE UNCHANGED rtcVars
  BY Zenon DEF Close, RtcClose
<1>5. TypeOK'
  <2>1. 0 \in 0 .. SlowestRate - 1
    BY RatesPositive
  <2>2. fd_table' \in [Pids -> [Fds -> Kinds \cup {"absent"}]]
    BY <1>2 DEF DescInv, TypeOK
  <2>3. client' \in [Terminals -> Pids \cup {NoPid}]
    BY <1>4 DEF DescInv, TypeOK, rtcVars
  <2>4. rate' \in [Terminals -> Rates \cup {NoRate}]
    BY <1>4 DEF DescInv, TypeOK, rtcVars
  <2>5. count' \in [Terminals -> 0 .. SlowestRate - 1]
    BY <1>4, <2>1 DEF DescInv, TypeOK, rtcVars
  <2>6. ticked' \in [Terminals -> BOOLEAN]
    BY <1>4, Zenon DEF DescInv, TypeOK, rtcVars
  <2> QED
    BY <1>3, <2>2, <2>3, <2>4, <2>5, <2>6 DEF DescInv, TypeOK
<1>6. OneChild' /\ ArgumentsArrive'
  BY <1>3, SameTree, SameArguments DEF DescInv
<1>7. \A q \in Pids : q # p => Clocks(q)' = Clocks(q)
  BY <1>2 DEF Clocks, DescInv, TypeOK
<1>8. Clocks(p)' = Clocks(p) \ {f}
  BY <1>2 DEF Clocks, DescInv, TypeOK
<1>9. OneClockEach'
  BY <1>3, <1>7, <1>8 DEF DescInv, OneClockEach
<1>10. ClockServed'
  <2> SUFFICES ASSUME OneClock, NEW u \in Terminals
               PROVE  /\ (Clocks(Running(u)) # {})' =>
                           client'[u] # NoPid /\ (pc'[u] # "open" => rate'[u] # NoRate)
                      /\ pc'[u] # "user" => (Clocks(Running(u)) # {})'
    BY DEF ClockServed
  <2>1. PICK q \in Pids : q = Running(u) /\ Running(u)' = q
    BY <1>3, RunningLives DEF Running
  <2>2. CASE u # t
    <3>1. client'[u] = client[u] /\ pc'[u] = pc[u] /\ rate'[u] = rate[u]
      BY <2>2, <1>3, <1>4 DEF DescInv, TypeOK, rtcVars
    <3>2. Clocks(q)' = Clocks(q)
      BY <2>1, <2>2, <1>7, Alone
    <3> QED
      BY <2>1, <3>1, <3>2 DEF DescInv, ClockServed
  <2>3. CASE u = t /\ fd_table[p][f] = "rtc"
    <3>1. f \in Clocks(p) /\ \A g \in Clocks(p) : g = f
      BY <1>1, <2>3 DEF DescInv, OneClockEach, Clocks
    <3>2. Clocks(q)' = {} /\ pc'[u] = "user"
      BY <1>1, <1>3, <2>1, <2>3, <3>1, <1>8
    <3> QED
      BY <2>1, <3>2
  <2>4. CASE u = t /\ fd_table[p][f] # "rtc"
    <3>1. client'[u] = client[u] /\ pc'[u] = pc[u] /\ rate'[u] = rate[u]
      BY <2>4, <1>3, <1>4 DEF rtcVars
    <3>2. Clocks(q)' = Clocks(q)
      BY <1>8, <2>1, <2>4 DEF Clocks
    <3> QED
      BY <2>1, <3>1, <3>2 DEF DescInv, ClockServed
  <2> QED
    BY <2>2, <2>3, <2>4
<1> QED
  BY <1>5, <1>6, <1>9, <1>10 DEF DescInv

-----------------------------------------------------------------------------
(* execute and halt.                                                       *)

LEMMA ParsedType ==
  ASSUME DescInv, NEW p \in Pids, NEW cmd \in Commands
  PROVE  /\ ParseCmd(p, cmd) \in [Pids -> Stored]
         /\ TextOf(cmd) \in Stored /\ Garbage \in Stored /\ NoArgument \in Stored
         /\ \A q \in Pids : q # p => ParseCmd(p, cmd)[q] = argument[q]
         /\ ~Ambiguous(cmd) => ParseCmd(p, cmd)[p] = TextOf(cmd)
<1>1. TextOf(cmd) \in Stored
  BY DEF Commands, TextOf, Stored
<1> QED
  BY <1>1 DEF ParseCmd, DescInv, TypeOK, Stored

LEMMA FailStep ==
  ASSUME DescInv, NEW t \in Terminals, NEW cmd \in Commands, ExecuteFails(t, cmd)
  PROVE  DescInv'
<1> PICK p \in Pids : p = Running(t)
  BY RunningLives
<1>1. argument' = ParseCmd(p, cmd)
  BY DEF ExecuteFails
<1>2. UNCHANGED <<flags, parent, fd_table, active_process, given, rtcVars, pc>>
  BY DEF ExecuteFails
<1>3. TypeOK'
  BY <1>1, <1>2, ParsedType DEF DescInv, TypeOK, rtcVars
<1>4. OneChild' /\ OneClockEach'
  BY <1>2, SameTree, SameClocks DEF DescInv
<1>5. ClockServed'
  BY <1>2 DEF DescInv, ClockServed, Clocks, Running, rtcVars
<1>6. ArgumentsArrive'
  <2> SUFFICES ASSUME NEW q \in Pids, flags[q], parent[q] # NoPid, given[q] # Garbage
               PROVE  flags[parent[q]] /\ argument'[parent[q]] = given[q]
    BY <1>2 DEF ArgumentsArrive
  <2>1. parent[q] \in Pids /\ parent[q] # p
    BY DEF DescInv, TypeOK, OneChild
  <2> QED
    BY <1>1, <2>1, ParsedType DEF DescInv, ArgumentsArrive
<1> QED
  BY <1>3, <1>4, <1>5, <1>6 DEF DescInv

LEMMA ExecuteStep ==
  ASSUME DescInv, NEW t \in Terminals, NEW cmd \in Commands, NEW new \in Pids,
         Execute(t, cmd, new)
  PROVE  DescInv'
<1> PICK p \in Pids : p = Running(t)
  BY RunningLives
<1>1. flags[p] /\ pc[t] = "user" /\ ~flags[new] /\ new # p
  BY RunningLives DEF Execute, Lowest, FreeSlots
<1>2. /\ flags' = [flags EXCEPT ![new] = TRUE]
      /\ parent' = [parent EXCEPT ![new] = p]
      /\ fd_table' = [fd_table EXCEPT ![new] = NoFds]
      /\ argument' = [ParseCmd(p, cmd) EXCEPT ![new] = Garbage]
      /\ active_process' = [active_process EXCEPT ![t] = new]
      /\ given' = [given EXCEPT ![new] = IF Ambiguous(cmd) THEN Garbage ELSE TextOf(cmd)]
      /\ UNCHANGED <<client, rate, count, ticked, pc>>
  BY DEF Execute, rtcVars
<1>3. /\ \A q \in Pids : q # new => /\ flags'[q] = flags[q] /\ parent'[q] = parent[q]
                                   /\ fd_table'[q] = fd_table[q] /\ given'[q] = given[q]
      /\ flags'[new] /\ parent'[new] = p /\ fd_table'[new] = NoFds
      /\ active_process'[t] = new
      /\ \A u \in Terminals : u # t => active_process'[u] = active_process[u]
  BY <1>2 DEF DescInv, TypeOK
<1>4. TypeOK'
  <2>1. fd_table' \in [Pids -> [Fds -> Kinds \cup {"absent"}]]
    BY <1>2 DEF DescInv, TypeOK, NoFds
  <2>2. argument' \in [Pids -> Stored] /\ given' \in [Pids -> Stored]
    BY <1>2, ParsedType DEF DescInv, TypeOK
  <2>3. flags' \in [Pids -> BOOLEAN]
    BY <1>2, Zenon DEF DescInv, TypeOK
  <2>4. parent' \in [Pids -> Pids \cup {NoPid}] /\ active_process' \in [Terminals -> Pids]
    BY <1>2 DEF DescInv, TypeOK
  <2>5. \A u \in Terminals : flags'[active_process'[u]]
    BY <1>3, <1>1 DEF DescInv, TypeOK
  <2> QED
    BY <1>2, <2>1, <2>2, <2>3, <2>4, <2>5 DEF DescInv, TypeOK
<1>5. OneChild'
  <2>1. \A u, v \in Terminals : Running(u)' = Running(v)' => u = v
    BY <1>1, <1>3 DEF DescInv, TypeOK, OneChild, Running
  <2>2. ASSUME NEW q \in Pids, flags'[q], parent'[q] # NoPid
        PROVE  /\ flags'[parent'[q]]
               /\ \A u \in Terminals : Running(u)' # parent'[q]
               /\ \A r \in Pids : flags'[r] /\ parent'[r] = parent'[q] => r = q
    <3>1. CASE q = new
      <4>1. \A u \in Terminals : Running(u)' # p
        BY <1>1, <1>3, Alone DEF Running
      <4>2. \A r \in Pids : r # new /\ flags[r] => parent[r] # p
        BY DEF DescInv, OneChild
      <4> QED
        BY <3>1, <4>1, <4>2, <1>1, <1>3
    <3>2. CASE q # new
      <4>1. parent[q] \in Pids /\ parent[q] # new /\ parent[q] # p /\ flags[parent[q]]
        BY <3>2, <1>1, <1>3, <2>2 DEF DescInv, TypeOK, OneChild
      <4> QED
        BY <3>2, <4>1, <1>3, <2>2 DEF DescInv, OneChild, Running
    <3> QED
      BY <3>1, <3>2
  <2> QED
    BY <2>1, <2>2 DEF OneChild
<1>6. Clocks(new)' = {} /\ \A q \in Pids : q # new => Clocks(q)' = Clocks(q)
  BY <1>3 DEF Clocks, NoFds
<1>7. OneClockEach'
  BY <1>3, <1>6 DEF DescInv, OneClockEach
<1>8. ClockServed'
  <2> SUFFICES ASSUME OneClock, NEW u \in Terminals
               PROVE  /\ (Clocks(Running(u)) # {})' =>
                           client'[u] # NoPid /\ (pc'[u] # "open" => rate'[u] # NoRate)
                      /\ pc'[u] # "user" => (Clocks(Running(u)) # {})'
    BY DEF ClockServed
  <2>1. CASE u = t
    <3>1. Clocks(Running(u))' = Clocks(new)'
      BY <2>1, <1>3 DEF Running, Clocks
    <3> QED
      BY <2>1, <3>1, <1>1, <1>2, <1>6
  <2>2. CASE u # t
    <3>1. PICK q \in Pids : q = Running(u) /\ Running(u)' = q /\ q # new
      BY <2>2, <1>1, <1>3, RunningLives DEF Running
    <3> QED
      BY <3>1, <1>2, <1>6 DEF DescInv, ClockServed
  <2> QED
    BY <2>1, <2>2
<1>9. ArgumentsArrive'
  <2> SUFFICES ASSUME NEW q \in Pids, flags'[q], parent'[q] # NoPid, given'[q] # Garbage
               PROVE  flags'[parent'[q]] /\ argument'[parent'[q]] = given'[q]
    BY DEF ArgumentsArrive
  <2>1. CASE q = new
    <3>1. given'[q] = TextOf(cmd) /\ ~Ambiguous(cmd)
      BY <2>1, <1>2 DEF DescInv, TypeOK
    <3>2. argument'[p] = ParseCmd(p, cmd)[p]
      BY <1>1, <1>2, ParsedType
    <3> QED
      BY <2>1, <3>1, <3>2, <1>1, <1>3, ParsedType
  <2>2. CASE q # new
    <3>1. parent[q] \in Pids /\ parent[q] # new /\ parent[q] # p /\ flags[parent[q]]
      BY <2>2, <1>1, <1>3 DEF DescInv, TypeOK, OneChild
    <3>2. argument'[parent[q]] = argument[parent[q]]
      BY <3>1, <1>2, ParsedType
    <3> QED
      BY <2>2, <3>1, <3>2, <1>3 DEF DescInv, ArgumentsArrive
  <2> QED
    BY <2>1, <2>2
<1> QED
  BY <1>4, <1>5, <1>7, <1>8, <1>9 DEF DescInv

LEMMA HaltStep ==
  ASSUME DescInv, NEW t \in Terminals, Halt(t)
  PROVE  DescInv'
<1> PICK p \in Pids : p = Running(t)
  BY RunningLives
<1> PICK q \in Pids : q = parent[p]
  BY DEF Halt, DescInv, TypeOK
<1>1. /\ flags[p] /\ pc[t] = "user" /\ parent[p] = q /\ parent[p] # NoPid
      /\ flags[q] /\ q # p /\ \A u \in Terminals : Running(u) # q
  BY RunningLives DEF Halt, DescInv, OneChild
<1>2. /\ flags' = [flags EXCEPT ![p] = FALSE]
      /\ argument' = [argument EXCEPT ![p] = NoArgument]
      /\ given' = [given EXCEPT ![p] = NoArgument]
      /\ active_process' = [active_process EXCEPT ![t] = q]
      /\ UNCHANGED <<parent, pc>>
      /\ fd_table' = EndedTables(p)
  BY DEF Halt
<1>3. \/ /\ client' = [client EXCEPT ![t] = NoPid]
         /\ rate' = [rate EXCEPT ![t] = NoRate]
         /\ count' = [count EXCEPT ![t] = 0]
         /\ ticked' = [ticked EXCEPT ![t] = FALSE]
      \/ UNCHANGED rtcVars
  BY Zenon DEF Halt, RtcClose
<1>4. /\ \A r \in Pids : r # p => /\ flags'[r] = flags[r] /\ argument'[r] = argument[r]
                                 /\ given'[r] = given[r]
      /\ ~flags'[p] /\ active_process'[t] = q
      /\ \A u \in Terminals : u # t => active_process'[u] = active_process[u]
  BY <1>2 DEF DescInv, TypeOK
<1>5. /\ fd_table'[q] = NoFds
      /\ \A r \in Pids : r # p /\ r # q => fd_table'[r] = fd_table[r]
      /\ fd_table' \in [Pids -> [Fds -> Kinds \cup {"absent"}]]
  <2>1. EndedTables(p) = [[fd_table EXCEPT ![q] = NoFds] EXCEPT
                            ![p] = [f \in Fds |-> IF f < FirstClosed THEN fd_table[p][f]
                                                  ELSE "absent"]]
    BY <1>1 DEF EndedTables, DescInv, TypeOK
  <2>2. NoFds \in [Fds -> Kinds \cup {"absent"}]
    BY DEF NoFds
  <2>3. [f \in Fds |-> IF f < FirstClosed THEN fd_table[p][f] ELSE "absent"]
          \in [Fds -> Kinds \cup {"absent"}]
    BY DEF DescInv, TypeOK
  <2> HIDE DEF NoFds
  <2> QED
    BY <1>1, <1>2, <2>1, <2>2, <2>3 DEF DescInv, TypeOK
<1>6. TypeOK'
  <2>1. 0 \in 0 .. SlowestRate - 1
    BY RatesPositive
  <2>2. client' \in [Terminals -> Pids \cup {NoPid}] /\ rate' \in [Terminals -> Rates \cup {NoRate}]
    BY <1>3 DEF DescInv, TypeOK, rtcVars
  <2>3. count' \in [Terminals -> 0 .. SlowestRate - 1]
    BY <1>3, <2>1 DEF DescInv, TypeOK, rtcVars
  <2>4. ticked' \in [Terminals -> BOOLEAN]
    BY <1>3, Zenon DEF DescInv, TypeOK, rtcVars
  <2>5. flags' \in [Pids -> BOOLEAN]
    BY <1>2, Zenon DEF DescInv, TypeOK
  <2>6. argument' \in [Pids -> Stored] /\ given' \in [Pids -> Stored]
    BY <1>2 DEF DescInv, TypeOK, Stored
  <2>7. active_process' \in [Terminals -> Pids]
    BY <1>2 DEF DescInv, TypeOK
  <2>8. \A u \in Terminals : flags'[active_process'[u]]
    BY <1>1, <1>4, Alone DEF DescInv, TypeOK, Running
  <2> QED
    BY <1>2, <1>5, <2>2, <2>3, <2>4, <2>5, <2>6, <2>7, <2>8 DEF DescInv, TypeOK
<1>7. OneChild'
  <2>1. \A u, v \in Terminals : Running(u)' = Running(v)' => u = v
    BY <1>1, <1>4 DEF DescInv, OneChild, Running
  <2>2. ASSUME NEW r \in Pids, flags'[r], parent'[r] # NoPid
        PROVE  /\ flags'[parent'[r]]
               /\ \A u \in Terminals : Running(u)' # parent'[r]
               /\ \A s \in Pids : flags'[s] /\ parent'[s] = parent'[r] => s = r
    <3>1. r # p /\ flags[r] /\ parent'[r] = parent[r]
      BY <1>2, <1>4, <2>2
    <3>2. parent[r] \in Pids /\ parent[r] # p /\ parent[r] # q /\ flags[parent[r]]
      BY <1>1, <1>2, <2>2, <3>1 DEF DescInv, TypeOK, OneChild
    <3>3. \A s \in Pids : flags'[s] => s # p /\ flags[s]
      BY <1>4
    <3>4. \A u \in Terminals : Running(u)' = q \/ Running(u)' = Running(u)
      BY <1>4 DEF Running
    <3> QED
      BY <1>2, <1>4, <2>2, <3>1, <3>2, <3>3, <3>4 DEF DescInv, OneChild
  <2> QED
    BY <2>1, <2>2 DEF OneChild
<1>8. Clocks(q)' = {} /\ \A r \in Pids : r # p /\ r # q => Clocks(r)' = Clocks(r)
  BY <1>5 DEF Clocks, NoFds
<1>9. OneClockEach'
  BY <1>4, <1>8 DEF DescInv, OneClockEach
<1>10. ClockServed'
  <2> SUFFICES ASSUME OneClock, NEW u \in Terminals
               PROVE  /\ (Clocks(Running(u)) # {})' =>
                           client'[u] # NoPid /\ (pc'[u] # "open" => rate'[u] # NoRate)
                      /\ pc'[u] # "user" => (Clocks(Running(u)) # {})'
    BY DEF ClockServed
  <2>1. CASE u = t
    <3>1. Clocks(Running(u))' = Clocks(q)'
      BY <2>1, <1>4 DEF Running, Clocks
    <3> QED
      BY <2>1, <3>1, <1>1, <1>2, <1>8
  <2>2. CASE u # t
    <3>1. PICK r \in Pids : r = Running(u) /\ Running(u)' = r /\ r # p /\ r # q
      BY <2>2, <1>1, <1>4, RunningLives, Alone DEF Running
    <3>2. client'[u] = client[u] /\ pc'[u] = pc[u] /\ rate'[u] = rate[u]
      BY <2>2, <1>2, <1>3 DEF DescInv, TypeOK, rtcVars
    <3> QED
      BY <3>1, <3>2, <1>8 DEF DescInv, ClockServed
  <2> QED
    BY <2>1, <2>2
<1>11. ArgumentsArrive'
  <2> SUFFICES ASSUME NEW r \in Pids, flags'[r], parent'[r] # NoPid, given'[r] # Garbage
               PROVE  flags'[parent'[r]] /\ argument'[parent'[r]] = given'[r]
    BY DEF ArgumentsArrive
  <2>1. r # p /\ flags[r] /\ parent'[r] = parent[r] /\ given'[r] = given[r]
    BY <1>2, <1>4
  <2>2. parent[r] \in Pids /\ parent[r] # p
    BY <1>1, <1>2, <2>1 DEF DescInv, TypeOK, OneChild
  <2> QED
    BY <1>4, <2>1, <2>2, <1>2 DEF DescInv, ArgumentsArrive
<1> QED
  BY <1>6, <1>7, <1>9, <1>10, <1>11 DEF DescInv

-----------------------------------------------------------------------------
LEMMA DescStep == DescInv /\ [Next]_vars => DescInv'
<1> SUFFICES ASSUME DescInv, [Next]_vars PROVE DescInv'
  OBVIOUS
<1>1. CASE RtcHandler
  BY <1>1, InterruptStep
<1>2. CASE UNCHANGED vars
  <2>1. OneChild' /\ OneClockEach' /\ ArgumentsArrive'
    BY <1>2, SameTree, SameClocks, SameArguments DEF DescInv, vars, pcbVars
  <2>2. TypeOK' /\ ClockServed'
    BY <1>2 DEF DescInv, TypeOK, ClockServed, Clocks, Running, vars, pcbVars, rtcVars
  <2> QED
    BY <2>1, <2>2 DEF DescInv
<1>3. ASSUME NEW t \in Terminals, Flow(t)
      PROVE  DescInv'
  <2>1. CASE OpenFails(t)
    BY <2>1, <1>2 DEF OpenFails
  <2>2. CASE \E kind \in Kinds, f \in Fds : OpenFd(t, kind, f)
    BY <2>2, OpenStep
  <2>3. CASE \/ OpenRate(t) \/ ReadRtc(t) \/ ReadSeen(t) \/ ReadReset(t)
             \/ \E freq \in Requested : WriteRtc(t, freq)
    BY <2>3, ClockSteps
  <2>4. CASE \E f \in Fds : Close(t, f)
    BY <2>4, CloseStep
  <2>5. CASE \E cmd \in Commands : ExecuteFails(t, cmd)
    BY <2>5, FailStep
  <2>6. CASE \E cmd \in Commands, new \in Pids : Execute(t, cmd, new)
    BY <2>6, ExecuteStep
  <2>7. CASE Halt(t)
    BY <2>7, HaltStep
  <2> QED
    BY <1>3, <2>1, <2>2, <2>3, <2>4, <2>5, <2>6, <2>7 DEF Flow
<1> QED
  BY <1>1, <1>2, <1>3 DEF Next

(* The inductive invariant, of every behaviour.                            *)
LEMMA DescAlways == Spec => []DescInv
<1>1. Init => DescInv
  BY DescInit
<1>2. DescInv /\ [Next]_vars => DescInv'
  BY DescStep
<1> QED
  BY <1>1, <1>2, PTL DEF Spec

(* Types, and the bound of the counts of the clocks, whatever frequencies  *)
(* are asked for and when the interrupt comes.                             *)
THEOREM DescriptorTypes == Spec => []TypeOK
<1>1. DescInv => TypeOK
  BY DEF DescInv
<1> QED
  BY <1>1, DescAlways, PTL

(* A process that runs and has the RTC open is a client with a rate.       *)
THEOREM ClocksServed == Spec => []ClockServed
<1>1. DescInv => ClockServed
  BY DEF DescInv
<1> QED
  BY <1>1, DescAlways, PTL

(* getargs finds the argument of the command that started the process.     *)
THEOREM ArgumentsFound == Spec => []ArgumentsArrive
<1>1. DescInv => ArgumentsArrive
  BY DEF DescInv
<1> QED
  BY <1>1, DescAlways, PTL
=============================================================================
