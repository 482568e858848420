------------------------ MODULE ConfigurationProofs ------------------------
(***************************************************************************)
(* Theorems about ConfigFile, for files of any size and any durations, and *)
(* about SnapshotFreshness, for any finite number of sources, any interval *)
(* and timeout, and whatever fails or is reloaded how often: what a file   *)
(* is accepted for, and how old its snapshots then get.                    *)
(***************************************************************************)
EXTENDS SnapshotFreshness, ConfigFile, SequenceTheorems, FiniteSetTheorems,
        FunctionTheorems, WellFoundedInduction, TLAPS

-----------------------------------------------------------------------------
(* The inductive invariant *)

\* No source is in line twice.
OnceInLine == \A i, j \in 1..Len(line) : line[i] = line[j] => i = j

\* The i-th in line is through when those before it and itself have had their
\* time, and that is within a round from when it got in line.
TurnComes == \A i \in 1..Len(line) : waited[line[i]] + i * Timeout <= Round + spent

\* How old a snapshot may be when its source is queued.
Due(s) == missed[s] * Cycle + restarts[s] * Interval + Interval

\* A source that is not in line is queued before its snapshot is older than it
\* may be; one that is in line gets older only while it waits.
QueuedInTime ==
    \A s \in Sources :
        /\ s \notin InLine => age[s] <= Due(s)
        /\ s \notin InLine /\ s \notin todo => age[s] + timer <= Due(s)
        /\ s \in InLine => age[s] <= Due(s) + waited[s]

\* The inductive invariant.
IInv == TypeOK /\ OnceInLine /\ TurnComes /\ QueuedInTime

-----------------------------------------------------------------------------
(* Numbers *)

\* The lengths that the bounds are made of are numbers.
LEMMA Lengths ==
    /\ Cardinality(Sources) \in Nat
    /\ Interval \in Nat /\ Timeout \in Nat /\ Round \in Nat /\ Cycle \in Nat
  <1>1. Cardinality(Sources) \in Nat
    BY SourcesAssumption, FS_CardinalityType
  <1>. QED BY <1>1, IntervalAssumption, TimeoutAssumption DEF Round, Cycle

\* So is how old a snapshot may get.
LEMMA DueNat == TypeOK => \A s \in Sources : Due(s) \in Nat
  <1>. SUFFICES ASSUME TypeOK, NEW s \in Sources PROVE Due(s) \in Nat
    OBVIOUS
  <1>1. missed[s] \in Nat /\ restarts[s] \in Nat
    BY DEF TypeOK
  <1>2. missed[s] * Cycle \in Nat /\ restarts[s] * Interval \in Nat
    BY <1>1, Lengths
  <1>. QED BY <1>2, Lengths DEF Due

\* Fewer turns take less time.
LEMMA TurnsMonotone ==
    ASSUME NEW i \in Nat, NEW n \in Nat, NEW t \in Nat, i <= n
    PROVE  i * t <= n * t
  <1>1. PICK d \in Nat : n = i + d
    BY n - i \in Nat
  <1>2. n * t = i * t + d * t
    BY <1>1
  <1>3. d * t \in Nat /\ i * t \in Nat
    OBVIOUS
  <1>. QED BY <1>2, <1>3

\* One more turn takes one timeout more.
LEMMA OneMoreTurn ==
    ASSUME NEW i \in Nat, NEW t \in Nat
    PROVE  (i + 1) * t = i * t + t
  OBVIOUS

\* There are never more in line than there are sources.
LEMMA LineIsShort == TypeOK /\ OnceInLine => Len(line) <= Cardinality(Sources)
  <1>. SUFFICES ASSUME TypeOK, OnceInLine PROVE Len(line) <= Cardinality(Sources)
    OBVIOUS
  <1>1. line \in Seq(Sources) /\ Len(line) \in Nat
    BY DEF TypeOK
  <1>2. line \in [1..Len(line) -> Sources]
    BY <1>1
  <1>3. line \in Injection(1..Len(line), Sources)
    <2>. DEFINE places == 1..Len(line)
    <2>1. line \in [places -> Sources] /\ \A i, j \in places : line[i] = line[j] => i = j
      BY <1>2 DEF OnceInLine
    <2>. HIDE DEF places
    <2>2. line \in Injection(places, Sources)
      BY <2>1, Fun_IsInj
    <2>. QED BY <2>2 DEF places
  <1>4. Cardinality(1..Len(line)) <= Cardinality(Sources)
    BY <1>3, SourcesAssumption, FS_Injection
  <1>5. Cardinality(1..Len(line)) = Len(line)
    <2>. DEFINE n == Len(line)
    <2>1. 1 \in Int /\ n \in Int /\ n \in Nat
      BY <1>1
    <2>. HIDE DEF n
    <2>2. Cardinality(1..n) = IF 1 > n THEN 0 ELSE n - 1 + 1
      BY ONLY <2>1, FS_Interval
    <2>3. Cardinality(1..n) = n
      BY ONLY <2>1, <2>2
    <2>. QED BY <2>3 DEF n
  <1>. QED BY <1>4, <1>5

-----------------------------------------------------------------------------
(* The line *)

\* Getting in line leaves the places of the others as they are.
LEMMA GetsInLine ==
    ASSUME TypeOK, OnceInLine, TurnComes, NEW s \in Sources, s \notin InLine, QueueRefresh(s)
    PROVE  /\ line' \in Seq(Sources) /\ waited' \in [Sources -> Nat]
           /\ InLine' = InLine \cup {s}
           /\ OnceInLine'
           /\ spent' = spent => TurnComes'
           /\ waited'[s] = 0 /\ \A t \in Sources \ {s} : waited'[t] = waited[t]
  <1>1. line' = Append(line, s) /\ waited' = [waited EXCEPT ![s] = 0]
    BY DEF QueueRefresh
  <1>2. /\ line \in Seq(Sources) /\ Len(line) \in Nat /\ spent \in Nat
        /\ waited \in [Sources -> Nat]
    BY DEF TypeOK
  <1>3. /\ line' \in Seq(Sources) /\ Len(line') = Len(line) + 1
        /\ line'[Len(line) + 1] = s
        /\ \A i \in 1..Len(line) : line'[i] = line[i] /\ line[i] \in Sources /\ line[i] # s
    BY <1>1, <1>2 DEF InLine
  <1>4. /\ waited' \in [Sources -> Nat] /\ waited'[s] = 0
        /\ \A t \in Sources \ {s} : waited'[t] = waited[t]
    BY <1>1, <1>2
  <1>5. InLine' = InLine \cup {s}
    <2>1. InLine = {line[i] : i \in 1..Len(line)} /\ InLine' = {line'[i] : i \in 1..Len(line')}
      <3>1. DOMAIN line = 1..Len(line)
        BY <1>2
      <3>2. DOMAIN line' = 1..Len(line')
        BY <1>3
      <3>. QED BY <3>1, <3>2 DEF InLine
    <2>2. \A i : i \in 1..Len(line') <=> i \in 1..Len(line) \/ i = Len(line) + 1
      BY <1>2, <1>3
    <2>. QED BY <1>3, <2>1, <2>2
  <1>6. OnceInLine'
    <2>. SUFFICES ASSUME NEW i \in 1..Len(line'), NEW j \in 1..Len(line'), line'[i] = line'[j]
                  PROVE  i = j
      BY DEF OnceInLine
    <2>1. i \in 1..Len(line) \/ i = Len(line) + 1
      BY <1>2, <1>3
    <2>2. j \in 1..Len(line) \/ j = Len(line) + 1
      BY <1>2, <1>3
    <2>. QED BY <1>3, <2>1, <2>2 DEF OnceInLine
  <1>7. Len(line) + 1 <= Cardinality(Sources)
    <2>1. Len(line') <= Cardinality(Sources)
      <3>1. line' \in Injection(1..Len(line'), Sources)
        BY <1>3, <1>6 DEF OnceInLine, Injection, IsInjective
      <3>2. Cardinality(1..Len(line')) <= Cardinality(Sources)
        BY <3>1, SourcesAssumption, FS_Injection
      <3>3. Cardinality(1..Len(line')) = Len(line')
        BY <1>2, <1>3, FS_Interval
      <3>. QED BY <3>2, <3>3
    <2>. QED BY <1>3, <2>1
  <1>8. ASSUME spent' = spent
        PROVE  TurnComes'
    <2>. SUFFICES ASSUME NEW i \in 1..Len(line')
                  PROVE  waited'[line'[i]] + i * Timeout <= Round + spent
      BY <1>8 DEF TurnComes, Round
    <2>1. CASE i \in 1..Len(line)
      BY <1>3, <1>4, <2>1 DEF TurnComes
    <2>2. CASE i = Len(line) + 1
      <3>1. (Len(line) + 1) * Timeout <= Round
        <4>1. PICK n \in Nat : n = Len(line) + 1
          BY <1>2
        <4>2. n * Timeout <= Cardinality(Sources) * Timeout
          BY <1>7, <4>1, Lengths, TurnsMonotone
        <4>. QED BY <4>1, <4>2 DEF Round
      <3>2. line'[i] = s /\ waited'[line'[i]] = 0
        BY <1>3, <1>4, <2>2
      <3>3. i * Timeout <= Round /\ i * Timeout \in Nat
        BY <1>2, <2>2, <3>1, Lengths
      <3>. QED BY <1>2, <3>2, <3>3, Lengths
    <2>. QED BY <1>2, <1>3, <2>1, <2>2
  <1>. QED BY <1>3, <1>4, <1>5, <1>6, <1>8

\* The others move up when the first leaves.
LEMMA LeavesLine ==
    ASSUME TypeOK, OnceInLine, TurnComes, Release
    PROVE  /\ Head(line) \in Sources /\ Head(line) \in InLine
           /\ line' \in Seq(Sources)
           /\ InLine' = InLine \ {Head(line)}
           /\ OnceInLine' /\ TurnComes'
           /\ waited[Head(line)] <= Round
  <1>1. /\ line # <<>> /\ line' = Tail(line) /\ spent' = 0 /\ waited' = waited
    BY DEF Release
  <1>2. /\ line \in Seq(Sources) /\ Len(line) \in Nat /\ spent \in Nat /\ spent <= Timeout
        /\ waited \in [Sources -> Nat]
    BY TimeoutAssumption DEF TypeOK
  <1>3. Len(line) >= 1 /\ Head(line) = line[1] /\ \A i \in 1..Len(line) : line[i] \in Sources
    BY <1>1, <1>2
  <1>4. /\ line' \in Seq(Sources) /\ Len(line') = Len(line) - 1
        /\ \A i \in 1..Len(line') : line'[i] = line[i + 1]
    BY <1>1, <1>2
  <1>5. \A i \in 1..Len(line') : i + 1 \in 1..Len(line)
    BY <1>2, <1>4
  <1>6. OnceInLine'
    <2>. SUFFICES ASSUME NEW i \in 1..Len(line'), NEW j \in 1..Len(line'), line'[i] = line'[j]
                  PROVE  i = j
      BY DEF OnceInLine
    <2>1. i + 1 = j + 1
      BY <1>4, <1>5 DEF OnceInLine
    <2>. QED BY <1>2, <1>4, <2>1
  <1>7. InLine' = InLine \ {Head(line)}
    <2>1. InLine' = {line[k] : k \in 2..Len(line)}
      <3>1. \A k \in 2..Len(line) : k - 1 \in 1..Len(line') /\ line'[k - 1] = line[k]
        BY <1>2, <1>4
      <3>2. \A i \in 1..Len(line') : i + 1 \in 2..Len(line) /\ line'[i] = line[i + 1]
        BY <1>2, <1>4
      <3>3. InLine' = {line'[i] : i \in 1..Len(line')}
        BY <1>4 DEF InLine
      <3>4. InLine' \subseteq {line[k] : k \in 2..Len(line)}
        BY <3>2, <3>3
      <3>5. {line[k] : k \in 2..Len(line)} \subseteq InLine'
        BY <3>1, <3>3
      <3>. QED BY <3>4, <3>5
    <2>2. InLine = {line[k] : k \in 1..Len(line)}
      BY <1>2 DEF InLine
    <2>3. \A k \in 2..Len(line) : k \in 1..Len(line) /\ line[k] # line[1]
      BY <1>2, <1>3 DEF OnceInLine
    <2>4. \A k \in 1..Len(line) : k = 1 \/ k \in 2..Len(line)
      BY <1>2
    <2>. QED BY <1>3, <2>1, <2>2, <2>3, <2>4
  <1>8. TurnComes'
    <2>. SUFFICES ASSUME NEW i \in 1..Len(line')
                  PROVE  waited[line[i + 1]] + i * Timeout <= Round
      BY <1>1, <1>4, Lengths DEF TurnComes, Round
    <2>1. waited[line[i + 1]] + (i + 1) * Timeout <= Round + spent
      BY <1>5 DEF TurnComes
    <2>2. (i + 1) * Timeout = i * Timeout + Timeout /\ i * Timeout \in Nat
      BY <1>2, <1>4, Lengths, OneMoreTurn
    <2>3. waited[line[i + 1]] \in Nat
      BY <1>2, <1>3, <1>5
    <2>. QED BY <1>2, <2>1, <2>2, <2>3, Lengths
  <1>9. waited[line[1]] <= Round
    <2>1. waited[line[1]] + 1 * Timeout <= Round + spent
      BY <1>2, <1>3 DEF TurnComes
    <2>2. waited[line[1]] \in Nat
      BY <1>2, <1>3
    <2>. QED BY <1>2, <2>1, <2>2, Lengths
  <1>10. Head(line) \in InLine
    BY <1>2, <1>3 DEF InLine
  <1>. QED BY <1>3, <1>4, <1>6, <1>7, <1>8, <1>9, <1>10

-----------------------------------------------------------------------------
(* Steps *)

\* Run starts with nothing in line and everything to be queued.
THEOREM IInvInit == Init => IInv
  <1>. SUFFICES ASSUME Init PROVE IInv
    OBVIOUS
  <1>1. line = <<>> /\ Len(line) = 0 /\ DOMAIN line = 1..0
    BY DEF Init
  <1>2. TypeOK
    BY <1>1, Lengths, TimeoutAssumption, IntervalAssumption DEF Init, TypeOK
  <1>3. OnceInLine /\ TurnComes
    BY <1>1 DEF OnceInLine, TurnComes
  <1>4. QueuedInTime
    <2>1. \A s \in Sources : s \notin InLine /\ s \in todo /\ age[s] = 0 /\ 0 <= Due(s)
      BY <1>1, <1>2, DueNat DEF Init, InLine
    <2>. QED BY <2>1 DEF QueuedInTime
  <1>. QED BY <1>2, <1>3, <1>4 DEF IInv

\* What a source does when it is queued, by Run or by a client.
LEMMA QueueKeeps ==
    ASSUME IInv, NEW s \in Sources, QueueRefresh(s),
           UNCHANGED <<spent, timer, served, age, missed, restarts, failures>>,
           todo' \in {todo, todo \ {s}}
    PROVE  IInv'
  <1>. USE DEF IInv
  <1>1. CASE s \in InLine
    <2>1. UNCHANGED <<line, waited>> /\ InLine' = InLine
      BY <1>1 DEF QueueRefresh, InLine
    <2>2. TypeOK' /\ OnceInLine' /\ TurnComes'
      BY <2>1 DEF TypeOK, OnceInLine, TurnComes, Round
    <2>3. \A t \in Sources : Due(t)' = Due(t) /\ (t \notin InLine /\ t \notin todo' => t \notin todo)
      BY <1>1 DEF Due, Cycle, Round
    <2>4. QueuedInTime'
      BY <2>1, <2>3 DEF QueuedInTime
    <2>. QED BY <2>2, <2>4
  <1>2. CASE s \notin InLine
    <2>1. /\ line' \in Seq(Sources) /\ waited' \in [Sources -> Nat]
          /\ InLine' = InLine \cup {s}
          /\ OnceInLine' /\ TurnComes'
          /\ waited'[s] = 0 /\ \A t \in Sources \ {s} : waited'[t] = waited[t]
      BY <1>2, GetsInLine
    <2>2. TypeOK'
      BY <2>1 DEF TypeOK
    <2>3. \A t \in Sources : Due(t)' = Due(t) /\ Due(t) \in Nat
      BY DueNat DEF Due, Cycle, Round
    <2>4. QueuedInTime'
      <3>. SUFFICES ASSUME NEW t \in Sources
                    PROVE  /\ t \notin InLine' => age[t] <= Due(t)
                           /\ t \notin InLine' /\ t \notin todo' => age[t] + timer <= Due(t)
                           /\ t \in InLine' => age[t] <= Due(t) + waited'[t]
        BY <2>3 DEF QueuedInTime
      <3>1. CASE t = s
        BY <1>2, <2>1, <2>3, <3>1 DEF QueuedInTime
      <3>2. CASE t # s
        BY <2>1, <3>2 DEF QueuedInTime
      <3>. QED BY <3>1, <3>2
    <2>. QED BY <2>1, <2>2, <2>4
  <1>. QED BY <1>1, <1>2

\* The timer fires before any snapshot is due, and so it does after a reload.
LEMMA TimerKeeps == IInv /\ (TimerFires \/ Restart) => IInv'
  <1>. SUFFICES ASSUME IInv, TimerFires \/ Restart PROVE IInv'
    OBVIOUS
  <1>. USE DEF IInv
  <1>1. InLine' = InLine /\ UNCHANGED <<line, waited, spent, age, missed>>
    BY DEF TimerFires, Restart, InLine
  <1>2. OnceInLine' /\ TurnComes'
    BY <1>1 DEF OnceInLine, TurnComes, Round
  <1>3. \A s \in Sources : Due(s) \in Nat /\ age[s] \in Nat /\ waited[s] \in Nat /\ timer \in 0..Interval
    BY DueNat DEF TypeOK
  <1>4. CASE TimerFires
    <2>1. TypeOK'
      BY <1>4, Lengths DEF TimerFires, TypeOK
    <2>2. \A s \in Sources : Due(s)' = Due(s) /\ s \in todo'
      BY <1>4 DEF TimerFires, Due, Cycle, Round
    <2>3. QueuedInTime'
      BY <1>1, <2>2 DEF QueuedInTime
    <2>. QED BY <1>2, <2>1, <2>3
  <1>5. CASE Restart
    <2>1. TypeOK'
      BY <1>5, Lengths DEF Restart, TypeOK
    <2>2. ASSUME NEW s \in Sources
          PROVE  Due(s)' = Due(s) + Interval
      <3>1. restarts[s] \in Nat /\ restarts'[s] = restarts[s] + 1 /\ missed'[s] = missed[s]
        BY <1>1, <1>5 DEF Restart, TypeOK
      <3>2. restarts'[s] * Interval = restarts[s] * Interval + Interval
        BY <3>1, Lengths, OneMoreTurn
      <3>3. missed[s] * Cycle \in Nat /\ restarts[s] * Interval \in Nat
        BY <3>1, Lengths DEF TypeOK
      <3>. QED BY <3>1, <3>2, <3>3, Lengths DEF Due, Cycle, Round
    <2>3. timer' = Interval /\ todo' = todo
      BY <1>5 DEF Restart
    <2>4. QueuedInTime'
      BY <1>1, <1>3, <2>2, <2>3, Lengths DEF QueuedInTime
    <2>. QED BY <1>2, <2>1, <2>4
  <1>. QED BY <1>4, <1>5

\* A refresh that ends leaves its source due one interval after a success, and
\* one cycle later than before after a failure.
LEMMA RefreshKeeps == IInv /\ (Succeed \/ Fail) => IInv'
  <1>. SUFFICES ASSUME IInv, Succeed \/ Fail PROVE IInv'
    OBVIOUS
  <1>. USE DEF IInv
  <1>0. Release
    BY DEF Succeed, Fail
  <1>. DEFINE h == Head(line)
  <1>1. PICK first \in Sources : first = h /\ first \in InLine
    BY <1>0, LeavesLine
  <1>2. /\ line' \in Seq(Sources) /\ InLine' = InLine \ {first}
        /\ OnceInLine' /\ TurnComes' /\ waited[first] <= Round
    BY <1>0, <1>1, LeavesLine
  <1>3. spent' = 0 /\ UNCHANGED <<timer, todo, waited>>
    BY <1>0 DEF Release
  <1>4. \A s \in Sources : /\ Due(s) \in Nat /\ age[s] \in Nat /\ waited[s] \in Nat
                            /\ missed[s] \in Nat /\ restarts[s] \in Nat
    BY DueNat DEF TypeOK
  <1>5. timer \in Nat /\ timer <= Interval
    BY Lengths DEF TypeOK
  <1>6. CASE Succeed
    <2>1. /\ age' = [age EXCEPT ![first] = 0] /\ missed' = [missed EXCEPT ![first] = 0]
          /\ restarts' = [restarts EXCEPT ![first] = 0]
          /\ served' = served \cup {first} /\ failures' = failures
      BY <1>1, <1>6 DEF Succeed
    <2>2. TypeOK'
      BY <1>2, <1>3, <2>1, Lengths DEF TypeOK
    <2>3. \A s \in Sources \ {first} : Due(s)' = Due(s) /\ age'[s] = age[s]
      BY <2>1 DEF TypeOK, Due, Cycle, Round
    <2>4. Due(first)' = Interval /\ age'[first] = 0
      <3>1. missed'[first] = 0 /\ restarts'[first] = 0 /\ age'[first] = 0
        BY <2>1 DEF TypeOK
      <3>2. 0 * Cycle = 0 /\ 0 * Interval = 0
        BY Lengths
      <3>. QED BY <3>1, <3>2, Lengths DEF Due, Cycle, Round
    <2>5. QueuedInTime'
      <3>. SUFFICES ASSUME NEW s \in Sources
                    PROVE  /\ s \notin InLine' => age'[s] <= Due(s)'
                           /\ s \notin InLine' /\ s \notin todo' => age'[s] + timer' <= Due(s)'
                           /\ s \in InLine' => age'[s] <= Due(s)' + waited'[s]
        BY DEF QueuedInTime
      <3>1. CASE s = first
        BY <1>2, <1>3, <1>5, <2>4, <3>1, Lengths
      <3>2. CASE s # first
        BY <1>2, <1>3, <2>3, <3>2 DEF QueuedInTime
      <3>. QED BY <3>1, <3>2
    <2>. QED BY <1>2, <2>2, <2>5
  <1>7. CASE Fail
    <2>1. /\ missed' = [missed EXCEPT ![first] = @ + 1]
          /\ UNCHANGED <<served, age, restarts>> /\ failures' = failures + 1
      BY <1>1, <1>7 DEF Fail
    <2>2. TypeOK'
      BY <1>2, <1>3, <2>1, Lengths DEF TypeOK
    <2>3. \A s \in Sources \ {first} : Due(s)' = Due(s)
      BY <2>1 DEF TypeOK, Due, Cycle, Round
    <2>4. Due(first)' = Due(first) + Cycle
      <3>1. missed'[first] = missed[first] + 1 /\ restarts'[first] = restarts[first]
        BY <2>1 DEF TypeOK
      <3>2. missed'[first] * Cycle = missed[first] * Cycle + Cycle
        BY <1>4, <3>1, Lengths, OneMoreTurn
      <3>3. missed[first] * Cycle \in Nat /\ restarts[first] * Interval \in Nat
        BY <1>4, Lengths
      <3>. QED BY <3>1, <3>2, <3>3, Lengths DEF Due, Cycle, Round
    <2>5. QueuedInTime'
      <3>. SUFFICES ASSUME NEW s \in Sources
                    PROVE  /\ s \notin InLine' => age[s] <= Due(s)'
                           /\ s \notin InLine' /\ s \notin todo' => age[s] + timer' <= Due(s)'
                           /\ s \in InLine' => age[s] <= Due(s)' + waited'[s]
        BY <2>1 DEF QueuedInTime
      <3>1. CASE s = first
        <4>1. age[first] <= Due(first) + waited[first]
          BY <1>1 DEF QueuedInTime
        <4>2. age[first] + timer <= Due(first) + Cycle
          BY <1>2, <1>4, <1>5, <4>1, Lengths DEF Cycle
        <4>. QED BY <1>2, <1>3, <1>4, <1>5, <2>4, <3>1, <4>2, Lengths
      <3>2. CASE s # first
        BY <1>2, <1>3, <2>3, <3>2 DEF QueuedInTime
      <3>. QED BY <3>1, <3>2
    <2>. QED BY <1>2, <2>2, <2>5
  <1>. QED BY <1>6, <1>7

\* While time passes the first in line is being read, and the timer runs down.
LEMMA TickKeeps == IInv /\ Tick => IInv'
  <1>. SUFFICES ASSUME IInv, Tick PROVE IInv'
    OBVIOUS
  <1>. USE DEF IInv
  <1>1. /\ line' = line /\ InLine' = InLine /\ todo = {} /\ todo' = {} /\ served' = served
        /\ timer' = timer - 1 /\ timer \in Nat \ {0} /\ timer <= Interval
        /\ UNCHANGED <<missed, restarts, failures>>
    BY Lengths DEF Tick, InLine, TypeOK
  <1>2. line \in Seq(Sources) /\ Len(line) \in Nat /\ spent \in Nat /\ spent <= Timeout
    BY Lengths DEF TypeOK
  <1>3. \A s \in Sources : /\ age[s] \in Nat /\ age'[s] = age[s] + 1
                            /\ waited[s] \in Nat
                            /\ waited'[s] = IF s \in InLine THEN waited[s] + 1 ELSE 0
    BY DEF Tick, TypeOK
  <1>4. /\ line # <<>> => spent' = spent + 1 /\ spent < Timeout
        /\ line = <<>> => spent' = 0
    BY DEF Tick
  <1>5. TypeOK'
    <2>1. age' \in [Sources -> Nat] /\ waited' \in [Sources -> Nat]
      BY <1>3 DEF Tick
    <2>2. spent' \in 0..Timeout
      BY <1>2, <1>4, Lengths
    <2>3. timer' \in 0..Interval
      BY <1>1, Lengths
    <2>. QED BY <1>1, <2>1, <2>2, <2>3 DEF TypeOK
  <1>6. TurnComes'
    <2>. SUFFICES ASSUME NEW i \in 1..Len(line)
                  PROVE  waited'[line[i]] + i * Timeout <= Round + spent'
      BY <1>1 DEF TurnComes, Round
    <2>1. line[i] \in Sources /\ line[i] \in InLine /\ line # <<>>
      BY <1>2 DEF InLine
    <2>2. waited[line[i]] + i * Timeout <= Round + spent
      BY DEF TurnComes
    <2>3. i * Timeout \in Nat
      BY Lengths
    <2>. QED BY <1>2, <1>3, <1>4, <2>1, <2>2, <2>3, Lengths
  <1>7. OnceInLine'
    BY <1>1 DEF OnceInLine
  <1>8. QueuedInTime'
    <2>1. \A s \in Sources : Due(s)' = Due(s) /\ Due(s) \in Nat
      BY <1>1, DueNat DEF Due, Cycle, Round
    <2>. SUFFICES ASSUME NEW s \in Sources
                  PROVE  /\ s \notin InLine => age'[s] <= Due(s) /\ age'[s] + timer' <= Due(s)
                         /\ s \in InLine => age'[s] <= Due(s) + waited'[s]
      BY <1>1, <2>1 DEF QueuedInTime
    <2>2. CASE s \in InLine
      <3>1. age[s] <= Due(s) + waited[s]
        BY <2>2 DEF QueuedInTime
      <3>. QED BY <1>3, <2>1, <2>2, <3>1
    <2>3. CASE s \notin InLine
      <3>1. age[s] + timer <= Due(s)
        BY <1>1, <2>3 DEF QueuedInTime
      <3>. QED BY <1>1, <1>3, <2>1, <2>3, <3>1
    <2>. QED BY <2>2, <2>3
  <1>. QED BY <1>5, <1>6, <1>7, <1>8

\* Every step keeps the inductive invariant.
THEOREM IInvNext == IInv /\ [Next]_vars => IInv'
  <1>. SUFFICES ASSUME IInv, [Next]_vars PROVE IInv'
    OBVIOUS
  <1>1. ASSUME NEW s \in Sources, QueueNext(s)
        PROVE  IInv'
    BY <1>1, QueueKeeps DEF QueueNext
  <1>2. ASSUME NEW s \in Sources, Request(s)
        PROVE  IInv'
    BY <1>2, QueueKeeps DEF Request
  <1>3. CASE UNCHANGED vars
    BY <1>3 DEF vars, IInv, TypeOK, OnceInLine, TurnComes, QueuedInTime, InLine, Due, Cycle, Round
  <1>. QED BY <1>1, <1>2, <1>3, TimerKeeps, RefreshKeeps, TickKeeps DEF Next

\* So it holds of every reachable state.
THEOREM Invariance == Spec => []IInv
  BY IInvInit, IInvNext, PTL DEF Spec

\* The variables keep their types; in particular no read is longer than its
\* timeout.
THEOREM TypeCorrect == Spec => []TypeOK
  <1>1. IInv => TypeOK
    BY DEF IInv
  <1>. QED BY <1>1, Invariance, PTL

\* So nobody in line waits for longer than a round.
LEMMA WaitedAtMostRound == IInv => ServedWithinRound
  <1>. SUFFICES ASSUME IInv, NEW s \in InLine PROVE waited[s] <= Round
    BY DEF ServedWithinRound
  <1>1. line \in Seq(Sources) /\ spent \in Nat /\ spent <= Timeout /\ waited \in [Sources -> Nat]
    BY Lengths DEF IInv, TypeOK
  <1>2. PICK i \in 1..Len(line) : s = line[i]
    BY <1>1 DEF InLine
  <1>3. waited[s] \in Nat /\ i \in Nat /\ 1 <= i
    BY <1>1, <1>2
  <1>4. waited[s] + i * Timeout <= Round + spent
    BY <1>2 DEF IInv, TurnComes
  <1>5. PICK turns \in Nat : turns = i * Timeout
    BY <1>3, Lengths
  <1>6. Timeout <= turns
    <2>1. 1 * Timeout <= i * Timeout
      BY <1>3, Lengths, TurnsMonotone
    <2>. QED BY <1>5, <2>1, Lengths
  <1>7. waited[s] + turns <= Round + spent
    BY <1>4, <1>5
  <1>. QED BY <1>1, <1>3, <1>6, <1>7, Lengths

\* Whoever asks for what in between, an accepted refresh is over after as many
\* timeouts as there are sources.
THEOREM InTurn == Spec => []ServedWithinRound
  BY WaitedAtMostRound, Invariance, PTL

\* The age of a snapshot is bounded by the interval, the timeout and the number of
\* sources, by the failures since it was published and by the reloads since then.
THEOREM Fresh == Spec => []FreshEnough
  <1>1. IInv => FreshEnough
    <2>. SUFFICES ASSUME IInv, NEW s \in Sources
                  PROVE  age[s] <= (missed[s] + 1) * Cycle + restarts[s] * Interval
      BY DEF FreshEnough
    <2>1. age[s] \in Nat /\ waited[s] \in Nat /\ missed[s] \in Nat /\ restarts[s] \in Nat
      BY DEF IInv, TypeOK
    <2>2. age[s] <= Due(s) + Round
      <3>1. Due(s) \in Nat
        BY DueNat DEF IInv
      <3>. QED BY <2>1, <3>1, WaitedAtMostRound, Lengths DEF IInv, QueuedInTime, ServedWithinRound
    <2>3. (missed[s] + 1) * Cycle = missed[s] * Cycle + Cycle
      BY <2>1, Lengths, OneMoreTurn
    <2>4. missed[s] * Cycle \in Nat /\ restarts[s] * Interval \in Nat
      BY <2>1, Lengths
    <2>. QED BY <2>1, <2>2, <2>3, <2>4, Lengths DEF Due, Cycle
  <1>. QED BY <1>1, Invariance, PTL
-----------------------------------------------------------------------------
(* Numbers from 1 to n *)

\* Induction, for a set of numbers.
LEMMA Climb ==
    ASSUME NEW T, 0 \in T, \A n \in Nat : n \in T => n + 1 \in T
    PROVE  \A n \in Nat : n \in T
  <1>. DEFINE left  == {n \in Nat : n \notin T}
              below == OpToRel(<, Nat)
  <1>1. SUFFICES ASSUME left # {} PROVE FALSE
    OBVIOUS
  <1>2. PICK m \in left : \A k \in left : ~ (<<k, m>> \in below)
    <2>1. left \subseteq Nat
      OBVIOUS
    <2>. HIDE DEF left, below
    <2>2. IsWellFoundedOn(below, Nat)
      BY NatLessThanWellFounded DEF below
    <2>. QED BY <1>1, <2>1, <2>2, WFMin
  <1>3. m \in Nat /\ m # 0 /\ m \notin T
    OBVIOUS
  <1>4. m - 1 \in Nat /\ m - 1 < m /\ (m - 1) + 1 = m
    BY <1>3
  <1>5. m - 1 \in left
    BY <1>3, <1>4
  <1>. QED BY <1>2, <1>4, <1>5 DEF OpToRel

\* A set of such numbers that has members has a greatest one.
LEMMA GreatestOf ==
    ASSUME NEW n \in Nat, NEW s, s \subseteq 1..n, s # {}
    PROVE  Max(s) \in s /\ \A x \in s : x <= Max(s)
  <1>. DEFINE Has(k) == \A t \in SUBSET (1..k) : t # {} => \E x \in t : \A y \in t : x >= y
              T      == {k \in Nat : Has(k)}
  <1>1. 0 \in T
    <2>1. 1..0 = {}
      OBVIOUS
    <2>. QED BY <2>1
  <1>2. ASSUME NEW k \in Nat, k \in T
        PROVE  k + 1 \in T
    <2>. SUFFICES ASSUME NEW t \in SUBSET (1..(k + 1)), t # {}
                  PROVE  \E x \in t : \A y \in t : x >= y
      OBVIOUS
    <2>1. CASE k + 1 \in t
      BY <2>1
    <2>2. CASE k + 1 \notin t
      <3>1. t \in SUBSET (1..k)
        BY <2>2
      <3>. QED BY <1>2, <3>1
    <2>. QED BY <2>1, <2>2
  <1>3. n \in T
    <2>. HIDE DEF T
    <2>. QED BY <1>1, <1>2, Climb
  <1>4. \E x \in s : \A y \in s : x >= y
    BY <1>3
  <1>5. Max(s) \in s /\ \A y \in s : Max(s) >= y
    BY <1>4 DEF Max
  <1>. QED BY <1>5

\* And a least one.
LEMMA LeastOf ==
    ASSUME NEW n \in Nat, NEW s, s \subseteq 1..n, s # {}
    PROVE  Min(s) \in s
  <1>. DEFINE mirrored == {n + 1 - x : x \in s}
  <1>1. mirrored \subseteq 1..n /\ mirrored # {}
    <2>1. ASSUME NEW x \in s PROVE n + 1 - x \in 1..n
      <3>1. x \in 1..n
        OBVIOUS
      <3>. QED BY <3>1
    <2>. QED BY <2>1
  <1>2. Max(mirrored) \in mirrored /\ \A x \in mirrored : x <= Max(mirrored)
    <2>. HIDE DEF mirrored
    <2>. QED BY <1>1, GreatestOf
  <1>3. PICK x \in s : Max(mirrored) = n + 1 - x
    BY <1>2
  <1>4. ASSUME NEW y \in s PROVE x <= y
    <2>1. n + 1 - y <= n + 1 - x
      BY <1>2, <1>3
    <2>. QED BY <2>1
  <1>5. \E z \in s : \A y \in s : z <= y
    BY <1>4
  <1>. QED BY <1>5 DEF Min

-----------------------------------------------------------------------------
(* Loops *)

\* What the loop over the explicit sources in q starts with, and what it makes of it.
Start(list)          == [ok |-> TRUE, seen |-> {}, list |-> list]
Expanded(list, q, p) == FoldLeft(LAMBDA a, s : AddExplicit(a, s, p), Start(list), q)

\* One step of the fold: what it makes of the positions s, when g is what it makes of
\* fewer.
Turn(q, p, base, g, s) ==
    IF s = {} THEN base ELSE AddExplicit(g[s \ {Max(s)}], q[Max(s)], p)

\* The fold is well defined.
LEMMA TurnsExist ==
    ASSUME NEW q, NEW p, NEW base, NEW n \in Nat
    PROVE  \E g : g = [s \in SUBSET (1..n) |-> Turn(q, p, base, g, s)]
  <1>. DEFINE Fits(g, k) == \A s \in SUBSET (1..n) : s \subseteq 1..k => g[s] = Turn(q, p, base, g, s)
              Good(k)    == \E g : Fits(g, k)
              T          == {k \in Nat : Good(k)}
  <1>1. 0 \in T
    <2>. DEFINE g == [s \in SUBSET (1..n) |-> base]
    <2>1. Fits(g, 0)
      BY DEF Turn
    <2>. HIDE DEF g, Fits
    <2>. QED BY <2>1
  <1>2. ASSUME NEW k \in Nat, k \in T
        PROVE  k + 1 \in T
    <2>1. PICK g : Fits(g, k)
      BY <1>2
    <2>. DEFINE h == [s \in SUBSET (1..n) |-> Turn(q, p, base, g, s)]
    <2>2. ASSUME NEW s \in SUBSET (1..n), s \subseteq 1..(k + 1)
          PROVE  h[s] = Turn(q, p, base, h, s)
      <3>1. CASE s = {}
        BY <3>1 DEF Turn
      <3>2. CASE s # {}
        <4>. DEFINE rest == s \ {Max(s)}
        <4>1. rest \in SUBSET (1..n)
          OBVIOUS
        <4>2. rest \subseteq 1..k
          <5>1. Max(s) \in s /\ \A x \in s : x <= Max(s)
            BY <2>2, <3>2, GreatestOf
          <5>2. ASSUME NEW x \in rest PROVE x \in 1..k
            <6>1. x \in s /\ x # Max(s) /\ x \in 1..(k + 1) /\ Max(s) \in 1..(k + 1) /\ x <= Max(s)
              BY <2>2, <5>1
            <6>. QED BY <6>1
          <5>. QED BY <5>2
        <4>3. g[rest] = Turn(q, p, base, g, rest) /\ h[rest] = Turn(q, p, base, g, rest)
          <5>. HIDE DEF rest
          <5>. QED BY <2>1, <4>1, <4>2
        <4>4. h[s] = AddExplicit(g[rest], q[Max(s)], p)
          BY <3>2 DEF Turn
        <4>5. Turn(q, p, base, h, s) = AddExplicit(h[rest], q[Max(s)], p)
          BY <3>2 DEF Turn
        <4>. QED BY <4>3, <4>4, <4>5
      <3>. QED BY <3>1, <3>2
    <2>3. Fits(h, k + 1)
      BY <2>2
    <2>. HIDE DEF h, Fits
    <2>. QED BY <2>3
  <1>3. n \in T
    <2>. HIDE DEF T
    <2>. QED BY <1>1, <1>2, Climb
  <1>4. PICK g : Fits(g, n)
    BY <1>3
  <1>. DEFINE h == [s \in SUBSET (1..n) |-> g[s]]
  <1>5. ASSUME NEW s \in SUBSET (1..n)
        PROVE  h[s] = Turn(q, p, base, h, s)
    <2>1. s \ {Max(s)} \in SUBSET (1..n)
      OBVIOUS
    <2>2. h[s] = g[s] /\ h[s \ {Max(s)}] = g[s \ {Max(s)}]
      BY <2>1
    <2>3. g[s] = Turn(q, p, base, g, s)
      BY <1>4
    <2>. HIDE DEF h
    <2>. QED BY <2>2, <2>3 DEF Turn
  <1>6. h = [s \in SUBSET (1..n) |-> Turn(q, p, base, h, s)]
    <2>1. h = [s \in SUBSET (1..n) |-> h[s]]
      OBVIOUS
    <2>. HIDE DEF h
    <2>. QED BY <1>5, <2>1
  <1>. HIDE DEF h
  <1>. QED BY <1>6

\* acc is what the loop has after each of its n turns.
Turns(acc, list, q, p, n) ==
    /\ acc[0] = Start(list)
    /\ \A k \in 1..n : acc[k] = AddExplicit(acc[k - 1], q[k], p)
    /\ Expanded(list, q, p) = acc[n]

\* The loop over the explicit sources, turn by turn.
LEMMA LoopExplicit ==
    ASSUME NEW q, NEW n \in Nat, DOMAIN q = 1..n, NEW p, NEW list
    PROVE  \E acc : Turns(acc, list, q, p, n)
  <1>. DEFINE base == Start(list)
              iter == CHOOSE g : g = [s \in SUBSET (1..n) |-> Turn(q, p, base, g, s)]
  <1>1. Expanded(list, q, p) = iter[1..n]
    BY DEF Expanded, FoldLeft, MapThenFoldSet, Turn
  <1>2. iter = [s \in SUBSET (1..n) |-> Turn(q, p, base, iter, s)]
    BY TurnsExist
  <1>3. \A s \in SUBSET (1..n) : iter[s] = Turn(q, p, base, iter, s)
    <2>. HIDE DEF iter
    <2>. QED BY <1>2
  <1>. HIDE DEF iter
  <1>. DEFINE acc == [k \in 0..n |-> iter[1..k]]
  <1>4. acc[0] = base /\ acc[n] = iter[1..n]
    <2>1. 1..0 = {} /\ 0 \in 0..n /\ n \in 0..n
      OBVIOUS
    <2>2. iter[{}] = base
      BY <1>3 DEF Turn
    <2>. QED BY <2>1, <2>2
  <1>5. ASSUME NEW k \in 1..n
        PROVE  acc[k] = AddExplicit(acc[k - 1], q[k], p)
    <2>. DEFINE s == 1..k
    <2>1. s \in SUBSET (1..n) /\ s # {} /\ k \in s /\ k \in Nat
      OBVIOUS
    <2>2. Max(s) = k
      <3>1. Max(s) \in s /\ \A x \in s : x <= Max(s)
        <4>. HIDE DEF s
        <4>. QED BY <2>1, GreatestOf
      <3>. QED BY <2>1, <3>1
    <2>3. s \ {k} = 1..(k - 1)
      OBVIOUS
    <2>4. iter[s] = AddExplicit(iter[1..(k - 1)], q[k], p)
      <3>. HIDE DEF s
      <3>. QED BY <1>3, <2>1, <2>2, <2>3 DEF Turn
    <2>5. acc[k] = iter[s] /\ acc[k - 1] = iter[1..(k - 1)]
      OBVIOUS
    <2>. HIDE DEF acc, s
    <2>. QED BY <2>4, <2>5
  <1>. HIDE DEF acc
  <1>6. Turns(acc, list, q, p, n)
    BY <1>1, <1>4, <1>5 DEF Turns
  <1>. QED BY <1>6

\* The loops over channels and catalogs, channel by channel.
LEMMA LoopLists ==
    ASSUME NEW seqs, NEW n \in Nat, seqs \in Seq(ToSet(seqs)), Len(seqs) = n, n # 0
    PROVE  \E flat :
              /\ flat[1] = seqs[1]
              /\ \A k \in 2..n : flat[k] = flat[k - 1] \o seqs[k]
              /\ FlattenSeq(seqs) = flat[n]
  <1>. DEFINE Line(g, i) == IF i = 1 THEN seqs[i] ELSE g[i - 1] \o seqs[i]
              Fits(g, k) == \A i \in 1..k : g[i] = Line(g, i)
              T          == {k \in Nat : \E g : Fits(g, k)}
  <1>1. 0 \in T
    OBVIOUS
  <1>2. ASSUME NEW k \in Nat, k \in T
        PROVE  k + 1 \in T
    <2>1. PICK g : Fits(g, k)
      BY <1>2
    <2>. DEFINE h == [i \in 1..(k + 1) |-> Line(g, i)]
    <2>2. ASSUME NEW i \in 1..(k + 1)
          PROVE  h[i] = Line(h, i)
      <3>1. CASE i = 1
        BY <3>1
      <3>2. CASE i # 1
        <4>1. i - 1 \in 1..k /\ i - 1 \in 1..(k + 1)
          BY <3>2
        <4>2. h[i - 1] = g[i - 1]
          BY <2>1, <4>1
        <4>. QED BY <3>2, <4>2
      <3>. QED BY <3>1, <3>2
    <2>3. Fits(h, k + 1)
      BY <2>2
    <2>. HIDE DEF h, Fits
    <2>. QED BY <2>3
  <1>3. n \in T
    <2>. HIDE DEF T
    <2>. QED BY <1>1, <1>2, Climb
  <1>4. PICK g : Fits(g, n)
    BY <1>3
  <1>5. \E h : h = [i \in 1..n |-> Line(h, i)]
    <2>. DEFINE h == [i \in 1..n |-> g[i]]
    <2>1. ASSUME NEW i \in 1..n PROVE h[i] = Line(h, i)
      <3>1. i = 1 \/ i - 1 \in 1..n
        OBVIOUS
      <3>. QED BY <1>4, <3>1
    <2>2. h = [i \in 1..n |-> h[i]]
      OBVIOUS
    <2>. HIDE DEF h
    <2>3. h = [i \in 1..n |-> Line(h, i)]
      BY <2>1, <2>2
    <2>. QED BY <2>3
  <1>. DEFINE flat == CHOOSE h : h = [i \in 1..n |-> Line(h, i)]
  <1>6. FlattenSeq(seqs) = flat[n]
    BY DEF FlattenSeq
  <1>7. flat = [i \in 1..n |-> Line(flat, i)]
    BY <1>5
  <1>8. \A i \in 1..n : flat[i] = Line(flat, i)
    <2>. HIDE DEF flat
    <2>. QED BY <1>7
  <1>. HIDE DEF flat
  <1>9. flat[1] = seqs[1]
    <2>1. 1 \in 1..n
      OBVIOUS
    <2>. QED BY <1>8, <2>1
  <1>10. ASSUME NEW k \in 2..n PROVE flat[k] = flat[k - 1] \o seqs[k]
    <2>1. k \in 1..n /\ k # 1
      OBVIOUS
    <2>. QED BY <1>8, <2>1
  <1>. QED BY <1>6, <1>9, <1>10
-----------------------------------------------------------------------------
(* Lists without duplicates *)

\* list has every member of S once.
Enumerates(list, S) ==
    /\ list \in Seq(S)
    /\ \A x \in S : \E i \in 1..Len(list) : list[i] = x
    /\ \A i, j \in 1..Len(list) : list[i] = list[j] => i = j

\* What IsInjective and ToSet say of a sequence, by its places.
LEMMA Places ==
    ASSUME NEW list, list \in Seq(ToSet(list))
    PROVE  /\ Len(list) \in Nat /\ DOMAIN list = 1..Len(list)
           /\ IsInjective(list) <=> \A i, j \in 1..Len(list) : list[i] = list[j] => i = j
           /\ ToSet(list) = {list[i] : i \in 1..Len(list)}
  <1>1. Len(list) \in Nat /\ DOMAIN list = 1..Len(list)
    OBVIOUS
  <1>. QED BY <1>1 DEF IsInjective, ToSet

\* A list has no duplicates if, and only if, it is as long as the set of its members is
\* large.
LEMMA CountedOnce ==
    ASSUME NEW S, NEW list \in Seq(S), \A x \in S : \E i \in 1..Len(list) : list[i] = x
    PROVE  Cardinality(S) = Len(list)
             <=> \A i, j \in 1..Len(list) : list[i] = list[j] => i = j
  <1>1. PICK n \in Nat : n = Len(list)
    OBVIOUS
  <1>. DEFINE places == 1..n
  <1>2. list \in [places -> S] /\ \A x \in S : \E i \in places : list[i] = x
    BY <1>1
  <1>3. IsFiniteSet(places) /\ Cardinality(places) = n
    <2>1. 1 \in Int /\ n \in Int
      BY <1>1
    <2>2. IsFiniteSet(1..n) /\ Cardinality(1..n) = IF 1 > n THEN 0 ELSE n - 1 + 1
      BY ONLY <2>1, FS_Interval
    <2>3. (IF 1 > n THEN 0 ELSE n - 1 + 1) = n
      BY ONLY n \in Nat
    <2>. QED BY <2>2, <2>3
  <1>. HIDE DEF places
  <1>4. list \in Surjection(places, S)
    BY <1>2, Fun_IsSurj
  <1>5. Cardinality(S) = Cardinality(places) <=> list \in Injection(places, S)
    BY ONLY <1>3, <1>4, FS_Surjection
  <1>6. list \in Injection(places, S) <=> \A i, j \in places : list[i] = list[j] => i = j
    BY ONLY <1>2, Fun_IsInj DEF Injection, IsInjective
  <1>. QED BY <1>1, <1>3, <1>5, <1>6 DEF places

\* Two lists without a common member, one after the other.
LEMMA Concatenated ==
    ASSUME NEW A, NEW B, A \cap B = {}, NEW a, NEW b, Enumerates(a, A), Enumerates(b, B)
    PROVE  Enumerates(a \o b, A \cup B)
  <1>. DEFINE c == a \o b
  <1>1. a \in Seq(A) /\ b \in Seq(B) /\ Len(a) \in Nat /\ Len(b) \in Nat
    BY DEF Enumerates
  <1>2. c \in Seq(A \cup B) /\ Len(c) = Len(a) + Len(b)
        /\ \A i \in 1..Len(c) : c[i] = IF i <= Len(a) THEN a[i] ELSE b[i - Len(a)]
    <2>1. a \in Seq(A \cup B) /\ b \in Seq(A \cup B)
      <3>1. \A i \in 1..Len(a) : a[i] \in A \cup B
        BY <1>1
      <3>2. \A i \in 1..Len(b) : b[i] \in A \cup B
        BY <1>1
      <3>. QED BY <1>1, <3>1, <3>2
    <2>. QED BY <2>1
  <1>. HIDE DEF c
  <1>3. \A i \in 1..Len(a) : i \in 1..Len(c) /\ c[i] = a[i] /\ a[i] \in A
    BY <1>1, <1>2
  <1>4. ASSUME NEW i \in 1..Len(b)
        PROVE  i + Len(a) \in 1..Len(c) /\ c[i + Len(a)] = b[i] /\ b[i] \in B
    <2>1. PICK k \in Nat : k = i + Len(a)
      BY <1>1
    <2>2. k \in 1..Len(c) /\ ~(k <= Len(a)) /\ k - Len(a) = i
      BY <1>1, <1>2, <2>1
    <2>3. c[k] = b[i] /\ b[i] \in B
      BY <1>1, <1>2, <2>2
    <2>. QED BY <2>1, <2>2, <2>3
  <1>5. \A i \in 1..Len(c) : i \in 1..Len(a) \/ (i - Len(a) \in 1..Len(b) /\ (i - Len(a)) + Len(a) = i)
    BY <1>1, <1>2
  <1>6. ASSUME NEW x \in A \cup B
        PROVE  \E i \in 1..Len(c) : c[i] = x
    <2>1. CASE x \in A
      <3>1. PICK i \in 1..Len(a) : a[i] = x
        BY <2>1 DEF Enumerates
      <3>. QED BY <1>3, <3>1
    <2>2. CASE x \in B
      <3>1. PICK i \in 1..Len(b) : b[i] = x
        BY <2>2 DEF Enumerates
      <3>. QED BY <1>4, <3>1
    <2>. QED BY <2>1, <2>2
  <1>7. ASSUME NEW i \in 1..Len(c), NEW j \in 1..Len(c), c[i] = c[j]
        PROVE  i = j
    <2>1. CASE i \in 1..Len(a) /\ j \in 1..Len(a)
      BY <1>3, <1>7, <2>1 DEF Enumerates
    <2>2. CASE i - Len(a) \in 1..Len(b) /\ j - Len(a) \in 1..Len(b)
      <3>1. i - Len(a) = j - Len(a)
        <4>1. c[i] = b[i - Len(a)] /\ c[j] = b[j - Len(a)]
          <5>1. (i - Len(a)) + Len(a) = i /\ (j - Len(a)) + Len(a) = j
            BY <1>1
          <5>. QED BY <1>4, <2>2, <5>1
        <4>. QED BY <1>7, <2>2, <4>1 DEF Enumerates
      <3>. QED BY <1>1, <3>1
    <2>3. CASE i \in 1..Len(a) /\ j - Len(a) \in 1..Len(b)
      <3>1. c[i] \in A
        BY <1>3, <2>3
      <3>2. c[j] \in B
        <4>1. PICK k \in 1..Len(b) : k = j - Len(a)
          BY <2>3
        <4>2. k + Len(a) = j
          BY <1>1, <4>1
        <4>. QED BY <1>4, <4>2
      <3>. QED BY <1>7, <3>1, <3>2
    <2>4. CASE i - Len(a) \in 1..Len(b) /\ j \in 1..Len(a)
      <3>1. c[j] \in A
        BY <1>3, <2>4
      <3>2. c[i] \in B
        <4>1. PICK k \in 1..Len(b) : k = i - Len(a)
          BY <2>4
        <4>2. k + Len(a) = i
          BY <1>1, <4>1
        <4>. QED BY <1>4, <4>2
      <3>. QED BY <1>7, <3>1, <3>2
    <2>. QED BY <1>5, <2>1, <2>2, <2>3, <2>4
  <1>8. Enumerates(c, A \cup B)
    BY <1>2, <1>6, <1>7 DEF Enumerates
  <1>. QED BY <1>8 DEF c

\* An explicit source takes the place of the one with its id, and of nothing else.
LEMMA OverrideExact ==
    ASSUME NEW S, NEW list, Enumerates(list, S), \A x, y \in S : x.id = y.id => x = y,
           NEW source
    PROVE  Enumerates(Override(list, source),
                      {x \in S : x.id # source.id} \cup {source})
  <1>. DEFINE same == {i \in 1..Len(list) : list[i].id = source.id}
              over == Override(list, source)
              U    == {x \in S : x.id # source.id} \cup {source}
  <1>1. /\ list \in Seq(S) /\ Len(list) \in Nat
        /\ \A i \in 1..Len(list) : list[i] \in S
        /\ \A i, j \in 1..Len(list) : list[i] = list[j] => i = j
    BY DEF Enumerates
  <1>2. over = IF (IF same # {} THEN Min(same) ELSE 0) # 0
               THEN [list EXCEPT ![IF same # {} THEN Min(same) ELSE 0] = source]
               ELSE Append(list, source)
    BY DEF Override, SelectInSeq
  <1>3. CASE same = {}
    <2>1. over = Append(list, source)
      <3>. HIDE DEF same, over
      <3>. QED BY <1>2, <1>3
    <2>2. \A x \in S : x.id # source.id
      BY <1>1, <1>3 DEF Enumerates
    <2>3. /\ Len(over) = Len(list) + 1 /\ over[Len(list) + 1] = source
          /\ \A i \in 1..Len(list) : i \in 1..Len(over) /\ over[i] = list[i]
          /\ over \in Seq(U)
      <3>1. list \in Seq(U)
        <4>1. \A i \in 1..Len(list) : list[i] \in U
          BY <1>1, <2>2
        <4>. QED BY <1>1, <4>1
      <3>2. source \in U
        OBVIOUS
      <3>. HIDE DEF over, U
      <3>. QED BY <2>1, <3>1, <3>2
    <2>4. \A i \in 1..Len(over) : i \in 1..Len(list) \/ i = Len(list) + 1
      <3>. HIDE DEF over
      <3>. QED BY <1>1, <2>3
    <2>5. \A i \in 1..Len(list) : over[i] # source
      <3>. HIDE DEF over
      <3>. QED BY <1>1, <2>2, <2>3
    <2>6. \A x \in U : \E i \in 1..Len(over) : over[i] = x
      <3>1. \A x \in S : \E i \in 1..Len(list) : list[i] = x
        BY DEF Enumerates
      <3>2. Len(list) + 1 \in 1..Len(over)
        <4>. HIDE DEF over
        <4>. QED BY <1>1, <2>3
      <3>. HIDE DEF over
      <3>. QED BY <2>3, <3>1, <3>2
    <2>7. \A i, j \in 1..Len(over) : over[i] = over[j] => i = j
      <3>. HIDE DEF over
      <3>. QED BY <1>1, <2>3, <2>4, <2>5
    <2>. HIDE DEF over, U
    <2>8. Enumerates(over, U)
      BY <2>3, <2>6, <2>7 DEF Enumerates
    <2>. QED BY <2>8 DEF over, U
  <1>4. CASE same # {}
    <2>. DEFINE m == Min(same)
    <2>1. m \in same
      <3>1. same \subseteq 1..Len(list)
        OBVIOUS
      <3>. HIDE DEF same
      <3>. QED BY <1>1, <1>4, <3>1, LeastOf
    <2>2. m \in 1..Len(list) /\ list[m].id = source.id /\ m # 0
      <3>1. m \in 1..Len(list) /\ list[m].id = source.id
        BY <2>1
      <3>. HIDE DEF m
      <3>. QED BY <1>1, <3>1
    <2>3. over = [list EXCEPT ![m] = source]
      <3>. HIDE DEF same, over
      <3>. QED BY <1>2, <1>4, <2>2
    <2>4. \A i \in 1..Len(list) : i # m => list[i].id # source.id
      <3>. HIDE DEF m
      <3>. QED BY <1>1, <2>2
    <2>5. /\ Len(over) = Len(list) /\ over[m] = source
          /\ \A i \in 1..Len(list) : i # m => over[i] = list[i]
          /\ over \in Seq(U)
      <3>1. source \in U /\ \A i \in 1..Len(list) : i # m => list[i] \in U
        <4>. HIDE DEF m
        <4>. QED BY <1>1, <2>4
      <3>2. list \in [1..Len(list) -> S]
        BY <1>1
      <3>3. over = [i \in 1..Len(list) |-> IF i = m THEN source ELSE list[i]]
        <4>. HIDE DEF over, m
        <4>. QED BY <2>3, <3>2
      <3>. HIDE DEF over, m, U
      <3>4. over \in [1..Len(list) -> U]
        BY <3>1, <3>3
      <3>. QED BY <1>1, <2>2, <3>3, <3>4
    <2>6. \A x \in U : \E i \in 1..Len(over) : over[i] = x
      <3>. SUFFICES ASSUME NEW x \in U PROVE \E i \in 1..Len(over) : over[i] = x
        OBVIOUS
      <3>1. CASE x = source
        <4>. HIDE DEF over, m
        <4>. QED BY <2>2, <2>5, <3>1
      <3>2. CASE x # source
        <4>1. x \in S /\ x.id # source.id
          BY <3>2
        <4>2. PICK i \in 1..Len(list) : list[i] = x
          BY <4>1 DEF Enumerates
        <4>. HIDE DEF over, m
        <4>. QED BY <2>2, <2>5, <4>1, <4>2
      <3>. QED BY <3>1, <3>2
    <2>7. \A i, j \in 1..Len(over) : over[i] = over[j] => i = j
      <3>. HIDE DEF over, m
      <3>1. \A i \in 1..Len(over) : i # m => over[i] # source
        BY <2>4, <2>5
      <3>. QED BY <1>1, <2>2, <2>5, <3>1
    <2>. HIDE DEF over, U
    <2>8. Enumerates(over, U)
      BY <2>5, <2>6, <2>7 DEF Enumerates
    <2>. QED BY <2>8 DEF over, U
  <1>. QED BY <1>3, <1>4
-----------------------------------------------------------------------------
(* The sources of a file *)

\* The sources that the channels and catalogs of a file f generate.
GeneratedBy(f, p) ==
    {Generated(d, Canonical(c), p) : d \in ToSet(Definitions(f)), c \in ToSet(f.channels)}

\* Each of them comes once.
LEMMA GeneratedOnce ==
    ASSUME NEW f, NEW p,
           f.channels \in Seq(ToSet(f.channels)),
           Definitions(f) \in Seq(ToSet(Definitions(f))), IsInjective(Definitions(f)),
           IsInjective([i \in DOMAIN f.channels |-> Canonical(f.channels[i])])
    PROVE  Enumerates(GeneratedSources(f, p), GeneratedBy(f, p))
  <1>1. PICK ds : ds = Definitions(f)
    OBVIOUS
  <1>2. PICK n \in Nat : n = Len(f.channels) /\ DOMAIN f.channels = 1..n
    BY Places
  <1>3. PICK m \in Nat : m = Len(ds) /\ DOMAIN ds = 1..m
    BY <1>1, Places
  <1>. DEFINE G(j, i) == Generated(ds[j], Canonical(f.channels[i]), p)
              Row(i)  == {G(j, i) : j \in 1..m}
              Upto(k) == {G(j, i) : j \in 1..m, i \in 1..k}
              row(i)  == [j \in 1..m |-> G(j, i)]
              seqs    == [i \in 1..n |-> row(i)]
  <1>4. ASSUME NEW i \in 1..n, NEW k \in 1..n, NEW j \in 1..m, NEW l \in 1..m, G(j, i) = G(l, k)
        PROVE  i = k /\ j = l
    <2>1. ds[j] = ds[l] /\ Canonical(f.channels[i]) = Canonical(f.channels[k])
      <3>1. <<ds[j], Canonical(f.channels[i])>> = <<ds[l], Canonical(f.channels[k])>>
        BY <1>4 DEF Generated
      <3>. QED BY <3>1
    <2>2. j = l
      BY <1>1, <1>3, <2>1 DEF IsInjective
    <2>. DEFINE versions == [x \in DOMAIN f.channels |-> Canonical(f.channels[x])]
    <2>3. versions[i] = versions[k] /\ i \in DOMAIN versions /\ k \in DOMAIN versions
      BY <1>2, <2>1
    <2>. HIDE DEF versions
    <2>4. IsInjective(versions)
      BY DEF versions
    <2>. QED BY <2>2, <2>3, <2>4 DEF IsInjective
  <1>5. GeneratedBy(f, p) = Upto(n)
    <2>1. ToSet(ds) = {ds[j] : j \in 1..m} /\ ToSet(f.channels) = {f.channels[i] : i \in 1..n}
      BY <1>2, <1>3 DEF ToSet
    <2>. QED BY <1>1, <2>1 DEF GeneratedBy
  <1>6. GeneratedSources(f, p) = FlattenSeq(seqs)
    BY <1>1, <1>2, <1>3 DEF GeneratedSources
  <1>. HIDE DEF G
  <1>7. ASSUME NEW i \in 1..n PROVE Enumerates(row(i), Row(i))
    <2>. DEFINE r == row(i)
    <2>1. r \in [1..m -> Row(i)]
      OBVIOUS
    <2>2. r \in Seq(Row(i)) /\ Len(r) = m
      <3>1. DOMAIN r = 1..m
        OBVIOUS
      <3>. HIDE DEF r, Row
      <3>. QED BY ONLY <2>1, <3>1, m \in Nat
    <2>3. \A x \in Row(i) : \E j \in 1..m : r[j] = x
      OBVIOUS
    <2>4. \A j, l \in 1..m : r[j] = r[l] => j = l
      BY <1>4
    <2>. HIDE DEF r
    <2>5. Enumerates(r, Row(i))
      BY <2>2, <2>3, <2>4 DEF Enumerates
    <2>. QED BY <2>5 DEF r
  <1>8. CASE n = 0
    <2>1. seqs = <<>> /\ Upto(n) = {}
      BY <1>8
    <2>2. FlattenSeq(seqs) = <<>>
      <3>. HIDE DEF seqs
      <3>. QED BY <2>1 DEF FlattenSeq
    <2>3. Enumerates(<<>>, {})
      BY DEF Enumerates
    <2>. HIDE DEF seqs, Upto
    <2>. QED BY <1>5, <1>6, <2>1, <2>2, <2>3
  <1>9. CASE n # 0
    <2>1. seqs \in Seq(ToSet(seqs)) /\ Len(seqs) = n /\ \A i \in 1..n : seqs[i] = row(i)
      <3>1. DOMAIN seqs = 1..n /\ \A i \in 1..n : seqs[i] = row(i)
        OBVIOUS
      <3>2. seqs = [i \in 1..n |-> seqs[i]]
        OBVIOUS
      <3>. HIDE DEF seqs, row
      <3>3. \A i \in 1..n : seqs[i] \in ToSet(seqs)
        BY <3>1 DEF ToSet
      <3>4. seqs \in [1..n -> ToSet(seqs)]
        BY <3>2, <3>3
      <3>. QED BY <3>1, <3>4
    <2>2. PICK flat : /\ flat[1] = seqs[1]
                      /\ \A k \in 2..n : flat[k] = flat[k - 1] \o seqs[k]
                      /\ FlattenSeq(seqs) = flat[n]
      <3>. HIDE DEF seqs
      <3>. QED BY <1>9, <2>1, LoopLists
    <2>. HIDE DEF seqs
    <2>. DEFINE T == {k \in Nat : k \in 1..n => Enumerates(flat[k], Upto(k))}
    <2>3. 0 \in T
      OBVIOUS
    <2>4. ASSUME NEW k \in Nat, k \in T
          PROVE  k + 1 \in T
      <3>. SUFFICES ASSUME k + 1 \in 1..n PROVE Enumerates(flat[k + 1], Upto(k + 1))
        OBVIOUS
      <3>1. Upto(k + 1) = Upto(k) \cup Row(k + 1)
        <4>1. \A i : i \in 1..(k + 1) <=> i \in 1..k \/ i = k + 1
          OBVIOUS
        <4>. QED BY <4>1
      <3>2. Enumerates(seqs[k + 1], Row(k + 1))
        BY <1>7, <2>1
      <3>3. CASE k = 0
        <4>1. Upto(k) = {} /\ k + 1 = 1
          BY <3>3
        <4>2. Upto(k + 1) = Row(k + 1) /\ flat[k + 1] = seqs[k + 1]
          BY <2>2, <3>1, <4>1
        <4>. HIDE DEF Upto, Row
        <4>. QED BY <3>2, <4>2
      <3>4. CASE k # 0
        <4>1. k \in 1..n /\ k + 1 \in 2..n /\ (k + 1) - 1 = k
          BY <3>4
        <4>2. flat[k + 1] = flat[k] \o seqs[k + 1]
          BY <2>2, <4>1
        <4>3. Enumerates(flat[k], Upto(k))
          BY <2>4, <4>1
        <4>4. Upto(k) \cap Row(k + 1) = {}
          <5>1. ASSUME NEW i \in 1..k, NEW j \in 1..m, NEW l \in 1..m, G(j, i) = G(l, k + 1)
                PROVE  FALSE
            <6>1. i \in 1..n /\ i # k + 1
              BY <4>1
            <6>. QED BY <1>4, <5>1, <6>1
          <5>. QED BY <5>1
        <4>. HIDE DEF Upto, Row
        <4>. QED BY <3>1, <3>2, <4>2, <4>3, <4>4, Concatenated
      <3>. QED BY <3>3, <3>4
    <2>5. n \in T
      <3>. HIDE DEF T
      <3>. QED BY <2>3, <2>4, Climb
    <2>6. Enumerates(flat[n], Upto(n))
      <3>1. n \in 1..n
        BY <1>9
      <3>. QED BY <2>5, <3>1
    <2>. HIDE DEF Upto
    <2>. QED BY <1>5, <1>6, <2>2, <2>6
  <1>. QED BY <1>8, <1>9

\* The first k explicit sources of q pass the checks of the loop.
FirstAccepted(q, p, k) ==
    /\ \A i \in 1..k : /\ q[i].id # Unset /\ q[i].image # Unset
                       /\ Inherit(q[i], p).platform \in Platforms
    /\ \A i, j \in 1..k : q[i].id = q[j].id => i = j

\* The sources that stand after k explicit ones.
Standing(gen, q, p, k) ==
    {g \in gen : \A i \in 1..k : g.id # q[i].id} \cup {Inherit(q[i], p) : i \in 1..k}

\* The loop over the explicit sources accepts them exactly when every one passes the
\* checks, and then has the sources that stand in the end, each of them once.
LEMMA ExplicitExact ==
    ASSUME NEW gen, NEW list, Enumerates(list, gen), \A x, y \in gen : x.id = y.id => x = y,
           NEW q, q \in Seq(ToSet(q)),
           \A s \in ToSet(q) : s = [id |-> s.id, image |-> s.image, platform |-> s.platform],
           NEW p, NEW final, final = Expanded(list, q, p)
    PROVE  /\ final.ok \in BOOLEAN
           /\ final.ok <=> FirstAccepted(q, p, Len(q))
           /\ final.ok => Enumerates(final.list, Standing(gen, q, p, Len(q)))
  <1>1. PICK n \in Nat : n = Len(q) /\ DOMAIN q = 1..n /\ ToSet(q) = {q[i] : i \in 1..n}
    BY Places
  <1>2. PICK acc : Turns(acc, list, q, p, n)
    BY <1>1, LoopExplicit
  <1>3. final = acc[n]
    BY <1>2 DEF Turns
  <1>4. ASSUME NEW i \in 1..n
        PROVE  Inherit(q[i], p).id = q[i].id
    <2>1. q[i] = [id |-> q[i].id, image |-> q[i].image, platform |-> q[i].platform]
      BY <1>1
    <2>. QED BY <2>1 DEF Inherit
  <1>. DEFINE Holds(k) == /\ acc[k].ok \in BOOLEAN
                          /\ acc[k].ok <=> FirstAccepted(q, p, k)
                          /\ acc[k].ok => /\ acc[k].seen = {q[i].id : i \in 1..k}
                                          /\ Enumerates(acc[k].list, Standing(gen, q, p, k))
              T        == {k \in Nat : k \in 0..n => Holds(k)}
  <1>5. 0 \in T
    <2>1. FirstAccepted(q, p, 0)
      BY DEF FirstAccepted
    <2>2. Standing(gen, q, p, 0) = gen
      BY DEF Standing
    <2>3. acc[0].ok = TRUE /\ acc[0].seen = {} /\ acc[0].list = list
      BY <1>2 DEF Start, Turns
    <2>4. {q[i].id : i \in 1..0} = {}
      OBVIOUS
    <2>5. Holds(0)
      BY <2>1, <2>2, <2>3, <2>4
    <2>. HIDE DEF Holds
    <2>. QED BY <2>5
  <1>6. ASSUME NEW k \in Nat, k \in T
        PROVE  k + 1 \in T
    <2>. SUFFICES ASSUME k + 1 \in 0..n PROVE Holds(k + 1)
      OBVIOUS
    <2>1. Holds(k)
      <3>1. k \in 0..n
        OBVIOUS
      <3>. QED BY <1>6, <3>1
    <2>2. k + 1 \in 1..n /\ (k + 1) - 1 = k
      OBVIOUS
    <2>3. PICK s : s = q[k + 1]
      OBVIOUS
    <2>4. PICK complete : complete = Inherit(s, p)
      OBVIOUS
    <2>5. complete.id = s.id
      BY <1>4, <2>2, <2>3, <2>4
    <2>6. acc[k + 1] = AddExplicit(acc[k], s, p)
      BY <1>2, <2>2, <2>3 DEF Turns
    <2>. DEFINE Passes == /\ s.id # Unset /\ s.image # Unset /\ complete.platform \in Platforms
                          /\ \A i \in 1..k : q[i].id # s.id
    <2>7. \A i : i \in 1..(k + 1) <=> i \in 1..k \/ i = k + 1
      OBVIOUS
    <2>8. FirstAccepted(q, p, k + 1) <=> FirstAccepted(q, p, k) /\ Passes
      <3>1. ASSUME FirstAccepted(q, p, k + 1) PROVE FirstAccepted(q, p, k) /\ Passes
        <4>1. \A i \in 1..k : i # k + 1
          OBVIOUS
        <4>. QED BY <2>3, <2>4, <2>7, <3>1, <4>1 DEF FirstAccepted
      <3>2. ASSUME FirstAccepted(q, p, k), Passes PROVE FirstAccepted(q, p, k + 1)
        BY <2>3, <2>4, <2>7, <3>2 DEF FirstAccepted
      <3>. QED BY <3>1, <3>2
    <2>9. CASE FirstAccepted(q, p, k) /\ Passes
      <3>1. acc[k].ok /\ acc[k].seen = {q[i].id : i \in 1..k}
            /\ Enumerates(acc[k].list, Standing(gen, q, p, k))
        BY <2>1, <2>9
      <3>2. s.id \notin acc[k].seen
        BY <2>9, <3>1
      <3>3. acc[k + 1] = [ok |-> TRUE, seen |-> acc[k].seen \cup {s.id},
                          list |-> Override(acc[k].list, complete)]
        BY <2>4, <2>6, <2>9, <3>1, <3>2 DEF AddExplicit
      <3>4. acc[k + 1].seen = {q[i].id : i \in 1..(k + 1)}
        BY <2>3, <2>7, <3>1, <3>3
      <3>. DEFINE S == Standing(gen, q, p, k)
      <3>5. \A x, y \in S : x.id = y.id => x = y
        <4>. SUFFICES ASSUME NEW x \in S, NEW y \in S, x.id = y.id PROVE x = y
          OBVIOUS
        <4>1. ASSUME NEW i \in 1..k, NEW j \in 1..k, Inherit(q[i], p).id = Inherit(q[j], p).id
              PROVE  Inherit(q[i], p) = Inherit(q[j], p)
          <5>1. i \in 1..n /\ j \in 1..n
            BY <2>2
          <5>2. i = j
            BY <1>4, <2>9, <4>1, <5>1 DEF FirstAccepted
          <5>. QED BY <5>2
        <4>2. \A i \in 1..k : Inherit(q[i], p).id = q[i].id
          <5>1. \A i \in 1..k : i \in 1..n
            BY <2>2
          <5>. QED BY <1>4, <5>1
        <4>. QED BY <4>1, <4>2 DEF Standing
      <3>6. Standing(gen, q, p, k + 1) = {x \in S : x.id # complete.id} \cup {complete}
        <4>1. \A i \in 1..k : Inherit(q[i], p).id = q[i].id /\ q[i].id # complete.id
          <5>1. \A i \in 1..k : i \in 1..n
            BY <2>2
          <5>. QED BY <1>4, <2>5, <2>9, <5>1
        <4>2. Inherit(q[k + 1], p) = complete /\ q[k + 1].id = complete.id
          BY <2>3, <2>4, <2>5
        <4>. QED BY <2>7, <4>1, <4>2 DEF Standing
      <3>7. Enumerates(acc[k + 1].list, Standing(gen, q, p, k + 1))
        <4>1. acc[k + 1].list = Override(acc[k].list, complete)
          BY <3>3
        <4>. HIDE DEF S
        <4>2. Enumerates(acc[k].list, S)
          BY <3>1 DEF S
        <4>3. Enumerates(Override(acc[k].list, complete), {x \in S : x.id # complete.id} \cup {complete})
          BY ONLY <3>5, <4>2, OverrideExact
        <4>. QED BY <3>6, <4>1, <4>3
      <3>8. acc[k + 1].ok = TRUE
        BY <3>3
      <3>. QED BY <2>8, <2>9, <3>4, <3>7, <3>8
    <2>10. CASE ~(FirstAccepted(q, p, k) /\ Passes)
      <3>1. ~acc[k].ok \/ s.id = Unset \/ s.image = Unset \/ s.id \in acc[k].seen
            \/ complete.platform \notin Platforms
        BY <2>1, <2>10
      <3>2. acc[k + 1] = Rejected
        BY <2>4, <2>6, <3>1 DEF AddExplicit
      <3>3. acc[k + 1].ok = FALSE
        BY <3>2 DEF Rejected
      <3>. QED BY <2>8, <2>10, <3>3
    <2>. QED BY <2>9, <2>10
  <1>7. n \in T
    <2>. HIDE DEF T
    <2>. QED BY <1>5, <1>6, Climb
  <1>8. Holds(n)
    <2>1. n \in 0..n
      OBVIOUS
    <2>. QED BY <1>7, <2>1
  <1>. QED BY <1>1, <1>3, <1>8
-----------------------------------------------------------------------------
(* The settings of a file *)

\* A number that fits into a duration does not wrap.
LEMMA FitsDuration ==
    ASSUME NEW n \in Duration
    PROVE  Wrap(n) = n
  <1>1. PICK m \in Nat : m = MaxDuration + 1 /\ m > 0
    BY DurationsAssumption
  <1>2. n \in Int /\ n + m \in Nat /\ n + m < 2 * m /\ MinDuration = -m
    BY <1>1, DurationsAssumption DEF Duration, MinDuration
  <1>3. PICK x \in Nat : x = n + m
    BY <1>2
  <1>4. PICK w \in Nat : w = 2 * m /\ x < w /\ w > 0
    BY <1>1, <1>2, <1>3
  <1>5. x % w = x
    BY <1>4
  <1>6. n - MinDuration = x /\ 2 * (MaxDuration + 1) = w /\ x + MinDuration = n
    BY <1>1, <1>2, <1>3, <1>4, DurationsAssumption
  <1>. QED BY <1>5, <1>6 DEF Wrap

\* What the decoder makes of the durations of a file.
LEMMA DurationsRead ==
    ASSUME raw \in Files, raw.interval # Malformed, ~NotPositive(raw.timeout), ~NotPositive(raw.age)
    PROVE  /\ EffectiveInterval(raw) \in 1..MaxDuration
           /\ OrDefault(raw.timeout, DefaultTimeout) \in 1..MaxDuration
           /\ OrDefault(raw.age, DefaultAge) \in 1..MaxDuration
  <1>1. /\ DefaultInterval \in 1..MaxDuration /\ DefaultTimeout \in 1..MaxDuration
        /\ DefaultAge \in 1..MaxDuration /\ MaxDuration \in Nat
    BY DurationsAssumption
  <1>2. \A v \in {raw.interval, raw.timeout, raw.age} :
           v = Unset \/ v = Malformed \/ (v \in Int /\ v <= MaxDuration)
    <2>1. {raw.interval, raw.timeout, raw.age} \subseteq Duration \cup {Unset, Malformed}
      BY FilesAssumption
    <2>2. \A v \in Duration : v \in Int /\ v <= MaxDuration
      BY <1>1 DEF Duration, MinDuration
    <2>. QED BY <2>1, <2>2
  <1>3. OrDefault(raw.interval, DefaultInterval) \in Int
        /\ OrDefault(raw.interval, DefaultInterval) <= MaxDuration
    BY <1>1, <1>2 DEF OrDefault
  <1>4. EffectiveInterval(raw) \in 1..MaxDuration
    BY <1>1, <1>3 DEF EffectiveInterval
  <1>5. OrDefault(raw.timeout, DefaultTimeout) \in 1..MaxDuration
    BY <1>1, <1>2 DEF OrDefault, NotPositive
  <1>6. OrDefault(raw.age, DefaultAge) \in 1..MaxDuration
    BY <1>1, <1>2 DEF OrDefault, NotPositive
  <1>. QED BY <1>4, <1>5, <1>6

\* Of positive durations the subtraction never overflows, so that the check says of the
\* numbers what it says of the durations.
LEMMA AgeChecked ==
    ASSUME raw \in Files, raw.interval # Malformed, ~NotPositive(raw.timeout), ~NotPositive(raw.age)
    PROVE  AgeTooShort(raw) <=> ~RoomForRefresh
  <1>1. PICK i \in 1..MaxDuration, t \in 1..MaxDuration, a \in 1..MaxDuration :
           /\ i = EffectiveInterval(raw) /\ t = OrDefault(raw.timeout, DefaultTimeout)
           /\ a = OrDefault(raw.age, DefaultAge)
    BY DurationsRead
  <1>2. a - t \in Duration
    BY DurationsAssumption DEF Duration, MinDuration
  <1>3. Wrap(a - t) = a - t
    <2>1. PICK d \in Duration : d = a - t
      BY <1>2
    <2>. QED BY <2>1, FitsDuration
  <1>4. AgeTooShort(raw) <=> a - t <= i
    BY <1>1, <1>3 DEF AgeTooShort
  <1>5. RoomForRefresh <=> a > i + t
    BY <1>1 DEF RoomForRefresh
  <1>. QED BY <1>4, <1>5

\* The checks of resolve accept the settings exactly when they are well formed and leave
\* room for a refresh.
LEMMA SettingsExact ==
    ASSUME raw \in Files
    PROVE  SettingsAccepted(raw) <=> SettingsWellFormed /\ RoomForRefresh
  BY AgeChecked DEF SettingsAccepted, SettingsWellFormed

-----------------------------------------------------------------------------
(* The lists of a file *)

\* The platform of the sources that name none.
Platform == OrDefault(raw.platform, DefaultPlatform)

\* The lists of a decoded file.
LEMMA FileRead ==
    ASSUME raw \in Files
    PROVE  /\ raw.channels \in Seq(ToSet(raw.channels))
           /\ raw.catalogs \in Seq(ToSet(raw.catalogs))
           /\ raw.sources \in Seq(ToSet(raw.sources))
           /\ \A s \in ToSet(raw.sources) :
                 s = [id |-> s.id, image |-> s.image, platform |-> s.platform]
  BY FilesAssumption

\* Duplicates are found by counting.
LEMMA DuplicatesCounted ==
    ASSUME NEW list, list \in Seq(ToSet(list))
    PROVE  IsInjective(list) <=> Cardinality(ToSet(list)) = Len(list)
  <1>1. PICK S : S = ToSet(list)
    OBVIOUS
  <1>2. list \in Seq(S) /\ \A x \in S : \E i \in 1..Len(list) : list[i] = x
    BY <1>1, Places
  <1>3. Cardinality(S) = Len(list)
           <=> \A i, j \in 1..Len(list) : list[i] = list[j] => i = j
    BY ONLY <1>2, CountedOnce
  <1>4. IsInjective(list) <=> \A i, j \in 1..Len(list) : list[i] = list[j] => i = j
    BY Places
  <1>. QED BY <1>1, <1>3, <1>4

\* A function of what stands at each place.
LEMMA Mapped ==
    ASSUME NEW n \in Nat, NEW list, list = [i \in 1..n |-> list[i]]
    PROVE  /\ DOMAIN list = 1..n /\ Len(list) = n
           /\ list \in Seq(ToSet(list)) /\ ToSet(list) = {list[i] : i \in 1..n}
  <1>1. DOMAIN list = 1..n
    OBVIOUS
  <1>2. ToSet(list) = {list[i] : i \in 1..n}
    BY <1>1 DEF ToSet
  <1>3. list \in [1..n -> ToSet(list)]
    BY <1>2
  <1>4. list \in Seq(ToSet(list)) /\ Len(list) = n
    <2>. HIDE DEF ToSet
    <2>. QED BY ONLY <1>1, <1>3, n \in Nat
  <1>. QED BY <1>1, <1>2, <1>4

\* Two channels of the file are the same version exactly when there are fewer versions
\* than channels.
LEMMA ChannelsCounted ==
    ASSUME raw \in Files
    PROVE  /\ IsInjective([i \in DOMAIN raw.channels |-> Canonical(raw.channels[i])])
                <=> Cardinality(Versions) = Len(raw.channels)
           /\ Versions = {Canonical(raw.channels[i]) : i \in DOMAIN raw.channels}
  <1>1. PICK n \in Nat : n = Len(raw.channels) /\ DOMAIN raw.channels = 1..n
    BY FileRead, Places
  <1>2. PICK list : list = [i \in DOMAIN raw.channels |-> Canonical(raw.channels[i])]
    OBVIOUS
  <1>3. list = [i \in 1..n |-> list[i]]
    BY <1>1, <1>2
  <1>4. Versions = {Canonical(raw.channels[i]) : i \in DOMAIN raw.channels}
    BY DEF Versions, ToSet
  <1>5. ToSet(list) = Versions /\ Len(list) = n /\ list \in Seq(ToSet(list))
    BY <1>1, <1>2, <1>3, <1>4, Mapped
  <1>. QED BY <1>1, <1>2, <1>4, <1>5, DuplicatesCounted

\* The same of the ids of the explicit sources.
LEMMA IDsCounted ==
    ASSUME raw \in Files
    PROVE  (\A i, j \in 1..Len(raw.sources) : raw.sources[i].id = raw.sources[j].id => i = j)
              <=> Cardinality(ExplicitIDs) = Len(raw.sources)
  <1>1. PICK n \in Nat : n = Len(raw.sources) /\ DOMAIN raw.sources = 1..n
    BY FileRead, Places
  <1>2. PICK list : list = [i \in 1..n |-> raw.sources[i].id]
    OBVIOUS
  <1>3. list = [i \in 1..n |-> list[i]]
    BY <1>2
  <1>4. ToSet(list) = {list[i] : i \in 1..n} /\ Len(list) = n /\ list \in Seq(ToSet(list))
        /\ DOMAIN list = 1..n
    BY <1>3, Mapped
  <1>5. ExplicitIDs = ToSet(list)
    BY <1>1, <1>2, <1>4 DEF ExplicitIDs, ToSet
  <1>6. IsInjective(list) <=> \A i, j \in 1..n : raw.sources[i].id = raw.sources[j].id => i = j
    BY <1>2, <1>4 DEF IsInjective
  <1>. QED BY <1>1, <1>4, <1>5, <1>6, DuplicatesCounted

\* The explicit sources pass the checks of the loop exactly when they are well formed.
LEMMA ExplicitChecked ==
    ASSUME raw \in Files, Platform \in Platforms
    PROVE  FirstAccepted(raw.sources, Platform, Len(raw.sources))
             <=> /\ Cardinality(ExplicitIDs) = Len(raw.sources)
                 /\ \A s \in ToSet(raw.sources) :
                       s.id # Unset /\ s.image # Unset /\ s.platform \in Platforms \cup {Unset}
  <1>1. ASSUME NEW s \in ToSet(raw.sources)
        PROVE  Inherit(s, Platform).platform \in Platforms <=> s.platform \in Platforms \cup {Unset}
    <2>1. s = [id |-> s.id, image |-> s.image, platform |-> s.platform]
      BY FileRead
    <2>2. [s EXCEPT !.platform = Platform].platform = Platform
      BY <2>1
    <2>. QED BY <2>2 DEF Inherit
  <1>2. ToSet(raw.sources) = {raw.sources[i] : i \in 1..Len(raw.sources)}
    BY FileRead, Places
  <1>. QED BY <1>1, <1>2, IDsCounted DEF FirstAccepted
-----------------------------------------------------------------------------
(* What a file means *)

\* An id stands for a source with that id.
LEMMA MeaningHasID ==
    ASSUME raw \in Files, NEW id \in GeneratedIDs \cup ExplicitIDs
    PROVE  /\ Meaning(id).id = id
           /\ id \in ExplicitIDs => \E s \in ToSet(raw.sources) :
                                       s.id = id /\ Meaning(id) = Inherit(s, Platform)
           /\ id \notin ExplicitIDs => Meaning(id) = Generated(id[1], id[2], Platform)
  <1>1. CASE id \in ExplicitIDs
    <2>1. PICK s : s = CHOOSE x \in ToSet(raw.sources) : x.id = id
      OBVIOUS
    <2>2. s \in ToSet(raw.sources) /\ s.id = id
      BY <1>1, <2>1 DEF ExplicitIDs
    <2>3. Meaning(id) = Inherit(s, Platform)
      BY <1>1, <2>1 DEF Meaning, Platform
    <2>4. Inherit(s, Platform).id = id
      <3>1. s = [id |-> s.id, image |-> s.image, platform |-> s.platform]
        BY <2>2, FileRead
      <3>. QED BY <2>2, <3>1 DEF Inherit
    <2>. QED BY <1>1, <2>2, <2>3, <2>4
  <1>2. CASE id \notin ExplicitIDs
    <2>1. Meaning(id) = Generated(id[1], id[2], Platform)
      BY <1>2 DEF Meaning, Platform
    <2>2. id = <<id[1], id[2]>>
      BY <1>2 DEF GeneratedIDs
    <2>. QED BY <1>2, <2>1, <2>2 DEF Generated
  <1>. QED BY <1>1, <1>2

\* The sources that stand in the end are those that the ids of the file stand for.
LEMMA StandingMeant ==
    ASSUME raw \in Files,
           \A i, j \in 1..Len(raw.sources) : raw.sources[i].id = raw.sources[j].id => i = j
    PROVE  Standing(GeneratedBy(raw, Platform), raw.sources, Platform, Len(raw.sources))
             = {Meaning(id) : id \in GeneratedIDs \cup ExplicitIDs}
  <1>. DEFINE gen   == GeneratedBy(raw, Platform)
              q     == raw.sources
              stand == {g \in gen : \A i \in 1..Len(q) : g.id # q[i].id}
                         \cup {Inherit(q[i], Platform) : i \in 1..Len(q)}
              meant == {Meaning(id) : id \in GeneratedIDs \cup ExplicitIDs}
  <1>1. ToSet(q) = {q[i] : i \in 1..Len(q)} /\ ExplicitIDs = {q[i].id : i \in 1..Len(q)}
    <2>1. ToSet(q) = {q[i] : i \in 1..Len(q)}
      BY FileRead, Places
    <2>. HIDE DEF q
    <2>2. {s.id : s \in ToSet(q)} = {q[i].id : i \in 1..Len(q)}
      BY <2>1
    <2>. QED BY <2>1, <2>2 DEF ExplicitIDs, q
  <1>2. gen = {Generated(d, v, Platform) : d \in ToSet(Definitions(raw)), v \in Versions}
    BY DEF GeneratedBy, Versions
  <1>3. ASSUME NEW i \in 1..Len(q)
        PROVE  q[i].id \in ExplicitIDs /\ Meaning(q[i].id) = Inherit(q[i], Platform)
    <2>1. q[i].id \in ExplicitIDs
      BY <1>1
    <2>2. PICK s \in ToSet(q) : s.id = q[i].id /\ Meaning(q[i].id) = Inherit(s, Platform)
      BY <2>1, MeaningHasID
    <2>3. s = q[i]
      BY <1>1, <2>2
    <2>. QED BY <2>1, <2>2, <2>3
  <1>4. ASSUME NEW g \in gen, g.id \notin ExplicitIDs
        PROVE  g.id \in GeneratedIDs /\ Meaning(g.id) = g
    <2>1. PICK d \in ToSet(Definitions(raw)), v \in Versions : g = Generated(d, v, Platform)
      BY <1>2
    <2>2. g.id = <<d, v>> /\ g.id \in GeneratedIDs /\ g.id[1] = d /\ g.id[2] = v
      BY <2>1 DEF Generated, GeneratedIDs
    <2>3. Meaning(g.id) = Generated(g.id[1], g.id[2], Platform)
      BY <1>4, <2>2, MeaningHasID
    <2>. QED BY <2>1, <2>2, <2>3
  <1>5. ASSUME NEW x \in stand PROVE x \in meant
    <2>1. CASE x \in gen /\ \A i \in 1..Len(q) : x.id # q[i].id
      <3>1. x.id \notin ExplicitIDs
        BY <1>1, <2>1
      <3>. QED BY <1>4, <2>1, <3>1
    <2>2. CASE \E i \in 1..Len(q) : x = Inherit(q[i], Platform)
      BY <1>3, <2>2
    <2>. QED BY <2>1, <2>2
  <1>6. ASSUME NEW id \in GeneratedIDs \cup ExplicitIDs PROVE Meaning(id) \in stand
    <2>1. CASE id \in ExplicitIDs
      <3>1. PICK i \in 1..Len(q) : q[i].id = id
        BY <1>1, <2>1
      <3>. QED BY <1>3, <3>1
    <2>2. CASE id \notin ExplicitIDs
      <3>1. PICK d \in ToSet(Definitions(raw)), v \in Versions : id = <<d, v>>
        BY <2>2 DEF GeneratedIDs
      <3>2. Meaning(id) = Generated(d, v, Platform)
        BY <2>2, <3>1, MeaningHasID
      <3>3. Meaning(id) \in gen /\ Meaning(id).id = id
        BY <1>2, <3>2, MeaningHasID
      <3>4. \A i \in 1..Len(q) : Meaning(id).id # q[i].id
        BY <1>1, <2>2, <3>3
      <3>. QED BY <3>3, <3>4
    <2>. QED BY <2>1, <2>2
  <1>7. stand = meant
    <2>. HIDE DEF stand
    <2>. QED BY <1>5, <1>6
  <1>. QED BY <1>7 DEF Standing

\* expandSources, in terms of the loops.
LEMMA ExpandedWhen ==
    ASSUME raw \in Files
    PROVE  LET good == /\ raw.channels # <<>> \/ (raw.sources # <<>> /\ raw.catalogs = <<>>)
                       /\ Cardinality(Versions) = Len(raw.channels)
                       /\ Cardinality(ToSet(raw.catalogs)) = Len(raw.catalogs)
                       /\ ToSet(raw.catalogs) \subseteq ToSet(BuiltIn)
           IN  /\ good => ExpandSources(raw)
                            = Expanded(GeneratedSources(raw, Platform), raw.sources, Platform)
               /\ ~good => ExpandSources(raw) = Rejected
  <1>1. IsInjective([i \in DOMAIN raw.channels |-> Canonical(raw.channels[i])])
          <=> Cardinality(Versions) = Len(raw.channels)
    BY ChannelsCounted
  <1>2. IsInjective(raw.catalogs) <=> Cardinality(ToSet(raw.catalogs)) = Len(raw.catalogs)
    BY FileRead, DuplicatesCounted
  <1>. QED BY <1>1, <1>2 DEF ExpandSources, HasDuplicates, Platform, Expanded, Start

\* The sources that the loops over channels and catalogs generate.
LEMMA GeneratedWhen ==
    ASSUME raw \in Files,
           Cardinality(Versions) = Len(raw.channels),
           Cardinality(ToSet(raw.catalogs)) = Len(raw.catalogs)
    PROVE  /\ Enumerates(GeneratedSources(raw, Platform), GeneratedBy(raw, Platform))
           /\ \A x, y \in GeneratedBy(raw, Platform) : x.id = y.id => x = y
  <1>1. Definitions(raw) \in Seq(ToSet(Definitions(raw))) /\ IsInjective(Definitions(raw))
    <2>1. raw.catalogs \in Seq(ToSet(raw.catalogs)) /\ IsInjective(raw.catalogs)
      BY FileRead, DuplicatesCounted
    <2>. QED BY <2>1, BuiltInAssumption DEF Definitions
  <1>2. IsInjective([i \in DOMAIN raw.channels |-> Canonical(raw.channels[i])])
    BY ChannelsCounted
  <1>3. Enumerates(GeneratedSources(raw, Platform), GeneratedBy(raw, Platform))
    BY <1>1, <1>2, FileRead, GeneratedOnce
  <1>4. ASSUME NEW x \in GeneratedBy(raw, Platform), NEW y \in GeneratedBy(raw, Platform), x.id = y.id
        PROVE  x = y
    <2>1. PICK d \in ToSet(Definitions(raw)), c \in ToSet(raw.channels) :
             x = Generated(d, Canonical(c), Platform)
      BY DEF GeneratedBy
    <2>2. PICK e \in ToSet(Definitions(raw)), b \in ToSet(raw.channels) :
             y = Generated(e, Canonical(b), Platform)
      BY DEF GeneratedBy
    <2>3. <<d, Canonical(c)>> = <<e, Canonical(b)>>
      BY <1>4, <2>1, <2>2 DEF Generated
    <2>4. d = e /\ Canonical(c) = Canonical(b)
      BY <2>3
    <2>. QED BY <2>1, <2>2, <2>4
  <1>. QED BY <1>3, <1>4

\* expandSources accepts the lists exactly when they are well formed, and then has one
\* source for each id, the one that the id stands for.
LEMMA ListsExact ==
    ASSUME raw \in Files, Platform \in Platforms
    PROVE  LET r   == ExpandSources(raw)
               ids == GeneratedIDs \cup ExplicitIDs
           IN  /\ r.ok \in BOOLEAN
               /\ r.ok /\ Malformed \notin Versions <=> ListsWellFormed
               /\ r.ok => /\ Len(r.list) = Cardinality(ids)
                          /\ ToSet(r.list) = {Meaning(id) : id \in ids}
  <1>. DEFINE ids  == GeneratedIDs \cup ExplicitIDs
              good == /\ raw.channels # <<>> \/ (raw.sources # <<>> /\ raw.catalogs = <<>>)
                      /\ Cardinality(Versions) = Len(raw.channels)
                      /\ Cardinality(ToSet(raw.catalogs)) = Len(raw.catalogs)
                      /\ ToSet(raw.catalogs) \subseteq ToSet(BuiltIn)
  <1>1. PICK r : r = ExpandSources(raw)
    OBVIOUS
  <1>2. CASE ~good
    <2>1. r = Rejected
      BY <1>1, <1>2, ExpandedWhen
    <2>2. r.ok = FALSE
      BY <2>1 DEF Rejected
    <2>. QED BY <1>1, <1>2, <2>2 DEF ListsWellFormed
  <1>3. CASE good
    <2>1. r = Expanded(GeneratedSources(raw, Platform), raw.sources, Platform)
      BY <1>1, <1>3, ExpandedWhen
    <2>2. /\ Enumerates(GeneratedSources(raw, Platform), GeneratedBy(raw, Platform))
          /\ \A x, y \in GeneratedBy(raw, Platform) : x.id = y.id => x = y
      BY <1>3, GeneratedWhen
    <2>3. /\ raw.sources \in Seq(ToSet(raw.sources))
          /\ \A s \in ToSet(raw.sources) : s = [id |-> s.id, image |-> s.image, platform |-> s.platform]
      BY FileRead
    <2>. DEFINE stand == Standing(GeneratedBy(raw, Platform), raw.sources, Platform, Len(raw.sources))
    <2>4. /\ r.ok \in BOOLEAN
          /\ r.ok <=> FirstAccepted(raw.sources, Platform, Len(raw.sources))
          /\ r.ok => Enumerates(r.list, stand)
      BY ONLY <2>1, <2>2, <2>3, ExplicitExact
    <2>5. r.ok /\ Malformed \notin Versions <=> ListsWellFormed
      <3>1. r.ok <=> /\ Cardinality(ExplicitIDs) = Len(raw.sources)
                     /\ \A s \in ToSet(raw.sources) :
                           s.id # Unset /\ s.image # Unset /\ s.platform \in Platforms \cup {Unset}
        BY <2>4, ExplicitChecked
      <3>. QED BY <1>3, <3>1 DEF ListsWellFormed
    <2>6. ASSUME r.ok
          PROVE  Len(r.list) = Cardinality(ids) /\ ToSet(r.list) = {Meaning(id) : id \in ids}
      <3>1. stand = {Meaning(id) : id \in ids}
        <4>1. \A i, j \in 1..Len(raw.sources) : raw.sources[i].id = raw.sources[j].id => i = j
          BY <2>4, <2>6 DEF FirstAccepted
        <4>. QED BY <4>1, StandingMeant
      <3>2. Enumerates(r.list, {Meaning(id) : id \in ids})
        BY <2>4, <2>6, <3>1
      <3>. HIDE DEF stand, ids
      <3>. DEFINE S == {Meaning(id) : id \in ids}
      <3>3. r.list \in Seq(S) /\ (\A x \in S : \E i \in 1..Len(r.list) : r.list[i] = x)
            /\ (\A i, j \in 1..Len(r.list) : r.list[i] = r.list[j] => i = j)
        BY <3>2 DEF Enumerates
      <3>4. \A id \in ids : Meaning(id).id = id
        BY MeaningHasID DEF ids
      <3>5. PICK n \in Nat : n = Len(r.list) /\ DOMAIN r.list = 1..n
                             /\ \A i \in 1..n : r.list[i] \in S
        <4>. HIDE DEF S
        <4>. QED BY <3>3
      <3>6. ToSet(r.list) = S
        <4>1. ToSet(r.list) = {r.list[i] : i \in 1..n}
          BY <3>5 DEF ToSet
        <4>. HIDE DEF S
        <4>. QED BY <3>3, <3>5, <4>1
      <3>. DEFINE named == [i \in 1..n |-> r.list[i].id]
      <3>7. \A i \in 1..n : r.list[i].id \in ids /\ r.list[i] = Meaning(r.list[i].id)
        BY <3>4, <3>5
      <3>8. named \in Seq(ids) /\ Len(named) = n
        <4>1. named \in [1..n -> ids] /\ DOMAIN named = 1..n
          BY <3>7
        <4>. HIDE DEF named
        <4>. QED BY ONLY <4>1, n \in Nat
      <3>9. \A id \in ids : \E i \in 1..n : named[i] = id
        <4>. SUFFICES ASSUME NEW id \in ids PROVE \E i \in 1..n : named[i] = id
          OBVIOUS
        <4>1. PICK i \in 1..n : r.list[i] = Meaning(id)
          BY <3>3, <3>5
        <4>2. named[i] = id
          BY <3>4, <4>1
        <4>. QED BY <4>2
      <3>10. \A i, j \in 1..n : named[i] = named[j] => i = j
        BY <3>3, <3>5, <3>7
      <3>. HIDE DEF named
      <3>11. Cardinality(ids) = Len(named)
                <=> \A i, j \in 1..Len(named) : named[i] = named[j] => i = j
        <4>1. named \in Seq(ids) /\ \A id \in ids : \E i \in 1..Len(named) : named[i] = id
          BY <3>8, <3>9
        <4>. QED BY ONLY <4>1, CountedOnce
      <3>. QED BY <3>5, <3>6, <3>8, <3>10, <3>11
    <2>. HIDE DEF stand
    <2>. QED BY <1>1, <2>4, <2>5, <2>6
  <1>. QED BY <1>2, <1>3

-----------------------------------------------------------------------------
(* Loading a file *)

\* The verdict of a loaded file is that of resolve.
Resolved == raw \in Files /\ loaded \in BOOLEAN
            /\ result = IF loaded THEN Resolve(raw) ELSE Rejected

LEMMA AlwaysResolved == FileSpec => []Resolved
  <1>1. FileInit => Resolved
    BY DEF FileInit, Resolved
  <1>2. Resolved /\ [Load]_fileVars => Resolved'
    <2>1. ASSUME Resolved, Load PROVE Resolved'
      <3>1. raw' = raw /\ raw \in Files /\ loaded' = TRUE /\ result' = Resolve(raw)
        BY <2>1 DEF Resolved, Load
      <3>2. Resolve(raw)' = Resolve(raw')
        OBVIOUS
      <3>. QED BY <3>1, <3>2 DEF Resolved
    <2>2. ASSUME Resolved, UNCHANGED fileVars PROVE Resolved'
      BY <2>2 DEF Resolved, fileVars
    <2>. QED BY <2>1, <2>2
  <1>. QED BY <1>1, <1>2, PTL DEF FileSpec

\* resolve accepts a file exactly when its lists and settings are well formed and the
\* age leaves room for a refresh.
LEMMA VerdictExact ==
    ASSUME Resolved, loaded
    PROVE  /\ Accepted <=> ListsWellFormed /\ SettingsWellFormed /\ RoomForRefresh
           /\ Accepted => result = ExpandSources(raw)
  <1>1. raw \in Files /\ result = Resolve(raw)
    BY DEF Resolved
  <1>2. Versions = {Canonical(raw.channels[i]) : i \in DOMAIN raw.channels}
    BY <1>1, ChannelsCounted
  <1>3. SettingsAccepted(raw) <=> SettingsWellFormed /\ RoomForRefresh
    BY <1>1, SettingsExact
  <1>4. CASE Malformed \notin Versions /\ SettingsAccepted(raw)
    <2>1. Platform \in Platforms
      BY <1>3, <1>4, PlatformAssumption DEF SettingsWellFormed, Platform, OrDefault
    <2>2. result = ExpandSources(raw)
      BY <1>1, <1>2, <1>4 DEF Resolve
    <2>3. ExpandSources(raw).ok <=> ListsWellFormed
      BY <1>1, <1>4, <2>1, ListsExact
    <2>. QED BY <1>3, <1>4, <2>2, <2>3 DEF Accepted
  <1>5. CASE ~(Malformed \notin Versions /\ SettingsAccepted(raw))
    <2>1. result = Rejected
      BY <1>1, <1>2, <1>5 DEF Resolve
    <2>2. ~Accepted
      BY <2>1 DEF Accepted, Rejected
    <2>. QED BY <1>3, <1>5, <2>2 DEF ListsWellFormed
  <1>. QED BY <1>4, <1>5

\* A file of any size is accepted only if it is well formed, and then it has one source
\* for every id; one that is refused has a defect.
THEOREM FileMeansWhatItSays == FileSpec => []ExpansionExact
  <1>1. Resolved => ExpansionExact
    <2>. SUFFICES ASSUME Resolved PROVE ExpansionExact
      OBVIOUS
    <2>1. CASE loaded
      <3>1. Refused <=> ~Accepted
        BY <2>1 DEF Refused, Accepted
      <3>2. Refused => ~(ListsWellFormed /\ SettingsWellFormed /\ RoomForRefresh)
        BY <2>1, <3>1, VerdictExact
      <3>3. ASSUME Accepted
            PROVE  LET ids == GeneratedIDs \cup ExplicitIDs IN
                   /\ ListsWellFormed /\ SettingsWellFormed
                   /\ Len(result.list) = Cardinality(ids)
                   /\ ToSet(result.list) = {Meaning(id) : id \in ids}
        <4>1. ListsWellFormed /\ SettingsWellFormed /\ result = ExpandSources(raw)
          BY <2>1, <3>3, VerdictExact
        <4>2. raw \in Files /\ Platform \in Platforms
          BY <4>1, PlatformAssumption DEF Resolved, SettingsWellFormed, Platform, OrDefault
        <4>3. ExpandSources(raw).ok
          BY <3>3, <4>1 DEF Accepted
        <4>. QED BY <4>1, <4>2, <4>3, ListsExact
      <3>. QED BY <3>2, <3>3 DEF ExpansionExact
    <2>2. CASE ~loaded
      BY <2>2 DEF ExpansionExact, Accepted, Refused
    <2>. QED BY <2>1, <2>2 DEF Resolved
  <1>. QED BY <1>1, AlwaysResolved, PTL

\* For durations of any width: no accepted file has too short a maxSnapshotAge, and none
\* is refused for it that leaves the room.
THEOREM AgeLeavesRoom == FileSpec => []AgeCheckExact
  <1>1. Resolved => AgeCheckExact
    <2>1. ASSUME Resolved, loaded PROVE AgeCheckExact
      BY <2>1, VerdictExact DEF AgeCheckExact, Refused, Accepted
    <2>2. ASSUME ~loaded PROVE AgeCheckExact
      BY <2>2 DEF AgeCheckExact, Accepted, Refused
    <2>. QED BY <2>1, <2>2 DEF Resolved
  <1>. QED BY <1>1, AlwaysResolved, PTL
-----------------------------------------------------------------------------
(* What a file is accepted for *)

\* How old a snapshot gets in a service that runs with the accepted file: while no
\* refresh fails and no reload restarts the timer, younger than maxSnapshotAge and one
\* refreshTimeout for each further source.
AgeConfigured ==
    Accepted /\ Interval = EffectiveInterval(raw) /\ Timeout = OrDefault(raw.timeout, DefaultTimeout)
      => \A s \in Sources :
            missed[s] = 0 /\ restarts[s] = 0
              => age[s] < OrDefault(raw.age, DefaultAge) + (Cardinality(Sources) - 1) * Timeout

\* The room that the check of maxSnapshotAge leaves is enough for one source, whose
\* snapshot then never expires; each further source takes one timeout of it.
THEOREM OneSourceNeverExpires == Spec /\ FileSpec => []AgeConfigured
  <1>1. TypeOK /\ FreshEnough /\ Resolved /\ AgeCheckExact => AgeConfigured
    <2>. SUFFICES ASSUME TypeOK, FreshEnough, Resolved, AgeCheckExact, Accepted,
                         Interval = EffectiveInterval(raw),
                         Timeout = OrDefault(raw.timeout, DefaultTimeout),
                         NEW s \in Sources, missed[s] = 0, restarts[s] = 0
                  PROVE  age[s] < OrDefault(raw.age, DefaultAge) + (Cardinality(Sources) - 1) * Timeout
      BY DEF AgeConfigured
    <2>1. age[s] <= (0 + 1) * Cycle + 0 * Interval
      BY DEF FreshEnough
    <2>2. PICK n \in Nat : n = Cardinality(Sources)
      BY Lengths
    <2>3. PICK t \in Nat : t = Timeout
      BY Lengths
    <2>4. PICK others \in Int : others = (n - 1) * t
      BY <2>2, <2>3
    <2>5. Round = others + t
      <3>1. n * t = (n - 1) * t + t
        BY <2>2, <2>3
      <3>. QED BY <2>2, <2>3, <2>4, <3>1 DEF Round
    <2>6. age[s] <= Interval + others + t
      <3>1. (0 + 1) * Cycle + 0 * Interval = Interval + Round
        BY Lengths DEF Cycle
      <3>2. age[s] \in Nat
        BY DEF TypeOK
      <3>. QED BY <2>1, <2>4, <2>5, <3>1, <3>2, Lengths
    <2>7. PICK a \in Int : a = OrDefault(raw.age, DefaultAge) /\ a > Interval + t
      <3>1. raw \in Files /\ loaded
        BY DEF Resolved, Accepted
      <3>2. SettingsWellFormed
        BY <3>1, VerdictExact
      <3>3. OrDefault(raw.age, DefaultAge) \in 1..MaxDuration
        BY <3>1, <3>2, DurationsRead DEF SettingsWellFormed
      <3>4. OrDefault(raw.age, DefaultAge) > Interval + t
        BY <2>3 DEF AgeCheckExact, RoomForRefresh
      <3>. QED BY <3>3, <3>4
    <2>8. age[s] < a + others
      <3>1. age[s] \in Nat
        BY DEF TypeOK
      <3>. QED BY <2>6, <2>7, <3>1, Lengths
    <2>. QED BY <2>2, <2>3, <2>4, <2>7, <2>8
  <1>. QED BY <1>1, TypeCorrect, Fresh, AlwaysResolved, AgeLeavesRoom, PTL
=============================================================================
