--------------------------- MODULE DhtTableProofs ----------------------------
(***************************************************************************)
(* The safety properties of DhtBucket, for every set of peers, every k_,   *)
(* every max_missed_pings_ and every ping_timeout_ of two units or more;   *)
(* and of DhtPersistence: what a bucket keeps over restarts.               *)
(***************************************************************************)
EXTENDS DhtBucket, DhtPersistence, DhtRouting, ClosestProofs

\* The last ping sent to n is still in flight.
Awaited(n) == \/ pinged[n] = 0 /\ young[n] > 0
              \/ pinged[n] = 1 /\ old[n] > 0

\* missed_pings_ exceeds the pings that really were lost by the one in flight at
\* most.  (Both are compared up to MaxMissed, where the history stops counting.)
MissedWereLost ==
  \A n \in Present :
    LET m == Least(missed[n], MaxMissed) IN
    m > unanswered[n] => m = unanswered[n] + 1 /\ Awaited(n)

\* A node that is not ready and has lost no ping is new: it waits for its first
\* ping, which the next check sends, or for the answer to it.
NotReadyIsNew ==
  \A n \in Present \ ready :
    unanswered[n] = 0 =>
      \/ failed[n] = 0 /\ pinged[n] = Old
      \/ failed[n] = 1 /\ pinged[n] = Old /\ ~checked
      \/ failed[n] =< 1 /\ pinged[n] = 0 /\ young[n] > 0
      \/ failed[n] =< 2 /\ pinged[n] = 1 /\ old[n] > 0

\* The inductive invariant.
Inv == /\ TypeOK /\ SlotsDistinct /\ ActiveAreReady /\ NoReadyNodeWaits
       /\ MissedWereLost /\ NotReadyIsNew

\* The invariant holds of the empty bucket.
LEMMA InitInv == Init => Inv
<1>. SUFFICES ASSUME Init PROVE Inv
  OBVIOUS
<1>. USE MaxMissedAssumption, IntervalAssumption, KAssumption DEF Init
<1>1. TypeOK
  <2>1. Present = {} /\ missed \in [{} -> 0..MaxMissed + 1] /\ pinged \in [{} -> 0..Old]
        /\ failed \in [{} -> 0..Old]
    BY DEF Present
  <2>2. unanswered \in [Node -> 0..MaxMissed]
    OBVIOUS
  <2>. QED  BY <2>1, <2>2 DEF TypeOK
<1>2. SlotsDistinct  BY FS_EmptySet DEF SlotsDistinct
<1>3. ActiveAreReady /\ NoReadyNodeWaits  BY DEF ActiveAreReady, NoReadyNodeWaits
<1>4. MissedWereLost /\ NotReadyIsNew  BY DEF MissedWereLost, NotReadyIsNew, Present
<1>. QED  BY <1>1, <1>2, <1>3, <1>4 DEF Inv

\* The sets of nodes are finite, and their sizes numbers.
LEMMA Finite ==
  ASSUME NEW S \in SUBSET Node
  PROVE  IsFiniteSet(S) /\ Cardinality(S) \in Nat
BY NodeAssumption, FS_Subset, FS_CardinalityType

\* A record in the place of none, or of a replaceable backup.
LEMMA EnterInv ==
  ASSUME Inv, NEW n \in Node, n \notin Present, NEW gone \in SUBSET Replaceable,
         Enter(n, gone), UNCHANGED <<network, checked>>,
         \/ gone = {} /\ Cardinality(backup) < K
         \/ \E g \in Replaceable : gone = {g}
  PROVE  Inv'
<1>. USE DEF Inv
<1>1. /\ active \in SUBSET Node /\ backup \in SUBSET Node /\ ready \subseteq Present
      /\ Replaceable \subseteq backup \ ready
  BY DEF TypeOK, Replaceable
<1>2. /\ backup' = (backup \ gone) \cup {n} /\ active' = active /\ ready' = ready
      /\ Present' = (Present \ gone) \cup {n}
  BY <1>1 DEF Enter, Present, SlotsDistinct
<1>3. n \notin ready /\ \A m \in Present' : m # n => m \in Present
  BY <1>1, <1>2
<1>4. TypeOK'
  BY <1>1, <1>2, <1>3, MaxMissedAssumption, IntervalAssumption
     DEF TypeOK, Enter, network, Old
<1>5. Cardinality(backup') =< K
  <2>1. IsFiniteSet(backup) /\ Cardinality(backup) \in Nat /\ Cardinality(backup) =< K
    BY <1>1, Finite DEF SlotsDistinct
  <2>2. CASE gone = {} /\ Cardinality(backup) < K
    <3>1. backup' = backup \cup {n}  BY <1>2, <2>2
    <3>2. n \notin backup  BY DEF Present
    <3>3. Cardinality(backup \cup {n}) = Cardinality(backup) + 1
      BY <2>1, <3>2, FS_AddElement
    <3>. QED  BY <2>1, <2>2, <3>1, <3>3, KAssumption
  <2>3. ASSUME NEW g \in Replaceable, gone = {g}  PROVE Cardinality(backup') =< K
    <3>1. IsFiniteSet(backup \ {g}) /\ Cardinality(backup \ {g}) = Cardinality(backup) - 1
      BY <1>1, <2>1, FS_RemoveElement
    <3>2. DEFINE rest == backup \ {g}
    <3>3. IsFiniteSet(rest) /\ Cardinality(rest) = Cardinality(backup) - 1
      BY <3>1
    <3>4. n \notin rest  BY DEF Present
    <3>5. backup' = rest \cup {n}  BY <1>2, <2>3
    <3>. HIDE DEF rest
    <3>6. Cardinality(rest \cup {n}) = Cardinality(rest) + 1
      BY <3>3, <3>4, FS_AddElement
    <3>. QED  BY <2>1, <3>3, <3>5, <3>6, KAssumption
  <2>. QED  BY <2>2, <2>3
<1>6. SlotsDistinct'
  BY <1>2, <1>5 DEF SlotsDistinct, Present
<1>7. ActiveAreReady' /\ NoReadyNodeWaits'
  BY <1>2, <1>3 DEF ActiveAreReady, NoReadyNodeWaits
<1>8. MissedWereLost'
  <2>. SUFFICES ASSUME NEW m \in Present'
                PROVE  LET x == Least(missed'[m], MaxMissed) IN
                       x > unanswered'[m] => x = unanswered'[m] + 1 /\ Awaited(m)'
    BY DEF MissedWereLost
  <2>1. unanswered' = unanswered /\ young' = young /\ old' = old
        /\ unanswered[m] \in Nat
    BY <1>1, <1>2 DEF network, TypeOK, Present
  <2>2. CASE m = n
    BY <2>1, <2>2, MaxMissedAssumption DEF Enter, Least
  <2>3. CASE m # n
    <3>1. missed'[m] = missed[m] /\ pinged'[m] = pinged[m]  BY <2>3 DEF Enter
    <3>. QED  BY <1>3, <2>1, <2>3, <3>1 DEF MissedWereLost, Awaited
  <2>. QED  BY <2>2, <2>3
<1>9. NotReadyIsNew'
  <2>. SUFFICES ASSUME NEW m \in Present' \ ready', unanswered'[m] = 0
                PROVE  \/ failed'[m] = 0 /\ pinged'[m] = Old
                       \/ failed'[m] = 1 /\ pinged'[m] = Old /\ ~checked'
                       \/ failed'[m] =< 1 /\ pinged'[m] = 0 /\ young'[m] > 0
                       \/ failed'[m] =< 2 /\ pinged'[m] = 1 /\ old'[m] > 0
    BY DEF NotReadyIsNew, Old
  <2>1. unanswered' = unanswered /\ young' = young /\ old' = old /\ checked' = checked
    BY DEF network
  <2>2. CASE m = n
    BY <2>2 DEF Enter
  <2>3. CASE m # n
    <3>1. pinged'[m] = pinged[m] /\ failed'[m] = failed[m]  BY <2>3 DEF Enter
    <3>. QED  BY <1>2, <1>3, <2>1, <2>3, <3>1 DEF NotReadyIsNew
  <2>. QED  BY <2>2, <2>3
<1>. QED  BY <1>4, <1>6, <1>7, <1>8, <1>9

\* promote_node moves the node if there is room, and nothing else.
LEMMA PromoteSlots ==
  ASSUME TypeOK, SlotsDistinct, NEW n \in backup, Promote(n)
  PROVE  /\ Present' = Present /\ active' \subseteq active \cup {n}
         /\ active \subseteq active' /\ backup' \subseteq backup
         /\ SlotsDistinct'
         /\ Cardinality(active') < K => Cardinality(active) < K /\ n \notin backup'
<1>1. /\ IsFiniteSet(active) /\ IsFiniteSet(backup)
      /\ Cardinality(active) \in Nat /\ Cardinality(backup) \in Nat
  BY Finite DEF TypeOK
<1>2. CASE Cardinality(active) < K
  <2>1. active' = active \cup {n} /\ backup' = backup \ {n}  BY <1>2 DEF Promote
  <2>2. n \notin active  BY DEF SlotsDistinct
  <2>3. /\ Cardinality(active \cup {n}) = Cardinality(active) + 1
        /\ Cardinality(backup \ {n}) = Cardinality(backup) - 1
    BY <1>1, <2>2, FS_AddElement, FS_RemoveElement
  <2>4. Cardinality(active') =< K /\ Cardinality(backup') =< K
    BY <1>1, <1>2, <2>1, <2>3, KAssumption DEF SlotsDistinct
  <2>. QED  BY <1>2, <2>1, <2>4 DEF SlotsDistinct, Present
<1>3. CASE ~(Cardinality(active) < K)
  <2>1. active' = active /\ backup' = backup  BY <1>3 DEF Promote
  <2>. QED  BY <1>3, <2>1 DEF SlotsDistinct, Present
<1>. QED  BY <1>2, <1>3

\* A ping that ends is one less in flight, of the node it was sent to.
LEMMA PingEnds ==
  ASSUME TypeOK, NEW n \in Node, Ends(n)
  PROVE  /\ young' \in [Node -> Nat] /\ old' \in [Node -> Nat]
         /\ \A m \in Node \ {n} : young'[m] = young[m] /\ old'[m] = old[m]
<1>1. young \in [Node -> Nat] /\ old \in [Node -> Nat]  BY DEF TypeOK
<1>2. CASE old[n] > 0 /\ old' = [old EXCEPT ![n] = @ - 1] /\ young' = young
  BY <1>1, <1>2
<1>3. CASE young[n] > 0 /\ young' = [young EXCEPT ![n] = @ - 1] /\ old' = old
  BY <1>1, <1>3
<1>. QED  BY <1>2, <1>3 DEF Ends

\* An accepted answer.
LEMMA ReceivePingInv ==
  ASSUME Inv, NEW n \in Node, ReceivePing(n)
  PROVE  Inv'
<1>. USE DEF Inv
<1>1. /\ unanswered' = [unanswered EXCEPT ![n] = 0]
      /\ pinged' = pinged /\ failed' = failed /\ alive' = alive /\ checked' = checked
      /\ Ends(n)
  BY DEF ReceivePing, slots
<1>2. /\ Present' = Present /\ SlotsDistinct' /\ ready' \subseteq ready \cup {n}
      /\ ready \subseteq ready' /\ (n \in Present => n \in ready')
      /\ active \subseteq active' /\ active' \subseteq active \cup (Present \cap {n})
      /\ backup' \subseteq backup
      /\ Cardinality(active') < K => Cardinality(active) < K /\ n \notin backup'
      /\ missed' \in [Present -> 0..MaxMissed + 1]
      /\ n \in Present => missed'[n] = 0
      /\ \A m \in Present : m # n => missed'[m] = missed[m]
      /\ n \notin Present => ready' = ready
  <2>1. missed \in [Present -> 0..MaxMissed + 1]  BY DEF TypeOK
  <2>2. CASE n \notin Present
    BY <2>1, <2>2 DEF ReceivePing, slots, Present, SlotsDistinct
  <2>3. CASE n \in Present
    <3>1. missed' = [missed EXCEPT ![n] = 0] /\ ready' = ready \cup {n}
      BY <2>3 DEF ReceivePing, ClearMissed
    <3>2. /\ missed' \in [Present -> 0..MaxMissed + 1] /\ missed'[n] = 0
          /\ \A m \in Present : m # n => missed'[m] = missed[m]
      BY <2>1, <2>3, <3>1, MaxMissedAssumption
    <3>3. CASE n \in active
      <4>1. active' = active /\ backup' = backup  BY <2>3, <3>3 DEF ReceivePing
      <4>2. n \notin backup  BY <3>3 DEF SlotsDistinct
      <4>. QED  BY <2>3, <3>1, <3>2, <3>3, <4>1, <4>2 DEF Present, SlotsDistinct
    <3>4. CASE n \notin active
      <4>1. Promote(n) /\ n \in backup  BY <2>3, <3>4 DEF ReceivePing, Present
      <4>. QED  BY <2>3, <3>1, <3>2, <4>1, PromoteSlots DEF Present
    <3>. QED  BY <3>3, <3>4
  <2>. QED  BY <2>2, <2>3
<1>3. /\ young' \in [Node -> Nat] /\ old' \in [Node -> Nat]
      /\ \A m \in Node \ {n} : young'[m] = young[m] /\ old'[m] = old[m]
  BY <1>1, PingEnds
<1>4. /\ unanswered \in [Node -> 0..MaxMissed] /\ Present \subseteq Node
      /\ ready \subseteq Present
  BY DEF TypeOK, Present
<1>5. TypeOK'
  <2>1. unanswered' \in [Node -> 0..MaxMissed]  BY <1>1, <1>4, MaxMissedAssumption
  <2>2. active' \subseteq Node /\ backup' \subseteq Node  BY <1>2, <1>4 DEF TypeOK
  <2>3. ready' \subseteq Present'  BY <1>2, <1>4
  <2>4. pinged' \in [Present' -> 0..Old] /\ failed' \in [Present' -> 0..Old]
    BY <1>1, <1>2 DEF TypeOK
  <2>5. alive' \subseteq Node /\ checked' \in BOOLEAN  BY <1>1 DEF TypeOK
  <2>6. missed' \in [Present' -> 0..MaxMissed + 1]  BY <1>2
  <2>. QED  BY <1>3, <2>1, <2>2, <2>3, <2>4, <2>5, <2>6 DEF TypeOK, Old
<1>6. ActiveAreReady' /\ NoReadyNodeWaits'
  BY <1>2 DEF ActiveAreReady, NoReadyNodeWaits
<1>7. MissedWereLost'
  <2>. SUFFICES ASSUME NEW m \in Present'
                PROVE  LET x == Least(missed'[m], MaxMissed) IN
                       x > unanswered'[m] => x = unanswered'[m] + 1 /\ Awaited(m)'
    BY DEF MissedWereLost
  <2>1. CASE m = n
    <3>1. Least(missed'[m], MaxMissed) = 0 /\ unanswered'[m] = 0
      BY <1>1, <1>2, <1>4, <2>1, MaxMissedAssumption DEF Least
    <3>. QED  BY <3>1
  <2>2. CASE m # n
    BY <1>1, <1>2, <1>3, <1>4, <2>2 DEF MissedWereLost, Awaited
  <2>. QED  BY <2>1, <2>2
<1>8. NotReadyIsNew'
  <2>. SUFFICES ASSUME NEW m \in Present' \ ready', unanswered'[m] = 0
                PROVE  \/ failed'[m] = 0 /\ pinged'[m] = Old
                       \/ failed'[m] = 1 /\ pinged'[m] = Old /\ ~checked'
                       \/ failed'[m] =< 1 /\ pinged'[m] = 0 /\ young'[m] > 0
                       \/ failed'[m] =< 2 /\ pinged'[m] = 1 /\ old'[m] > 0
    BY DEF NotReadyIsNew, Old
  <2>1. m # n /\ m \in Present \ ready  BY <1>2
  <2>2. unanswered[m] = 0  BY <1>1, <1>4, <2>1
  <2>. QED  BY <1>1, <1>3, <1>4, <2>1, <2>2 DEF NotReadyIsNew
<1>. QED  BY <1>2, <1>5, <1>6, <1>7, <1>8

\* A ping that brought no accepted answer: lost, or answered with a description
\* that is rejected.  It counts as unanswered.
LEMMA UnansweredInv ==
  ASSUME Inv, NEW n \in Node, ReceiveBadPing(n) \/ Lose(n)
  PROVE  Inv'
<1>. USE DEF Inv
<1>1. /\ unanswered' = [unanswered EXCEPT ![n] = Least(@ + 1, MaxMissed)]
      /\ missed' = missed /\ pinged' = pinged /\ failed' = failed /\ ready' = ready
      /\ alive' = alive /\ checked' = checked /\ Ends(n)
  BY DEF ReceiveBadPing, Lose, slots
<1>2. /\ Present' = Present /\ SlotsDistinct'
      /\ active' \subseteq active \cup ready /\ active' \subseteq active \cup backup
      /\ backup' \subseteq backup
      /\ Cardinality(active') < K => Cardinality(active) < K
  <2>1. CASE active' = active /\ backup' = backup
    BY <2>1 DEF Present, SlotsDistinct
  <2>2. CASE n \in backup \cap ready /\ Promote(n)
    BY <2>2, PromoteSlots
  <2>. QED  BY <2>1, <2>2 DEF ReceiveBadPing, Lose, slots
<1>3. /\ young' \in [Node -> Nat] /\ old' \in [Node -> Nat]
      /\ \A m \in Node \ {n} : young'[m] = young[m] /\ old'[m] = old[m]
  BY <1>1, PingEnds
<1>4. /\ unanswered \in [Node -> 0..MaxMissed] /\ Present \subseteq Node
      /\ ready \subseteq Present
  BY DEF TypeOK, Present
<1>5. /\ unanswered' \in [Node -> 0..MaxMissed] /\ unanswered'[n] > 0
      /\ unanswered'[n] = Least(unanswered[n] + 1, MaxMissed)
      /\ \A m \in Node \ {n} : unanswered'[m] = unanswered[m]
  BY <1>1, <1>4, MaxMissedAssumption DEF Least
<1>6. TypeOK'
  BY <1>1, <1>2, <1>3, <1>4, <1>5 DEF TypeOK, Old
<1>7. ActiveAreReady' /\ NoReadyNodeWaits'
  BY <1>1, <1>2 DEF ActiveAreReady, NoReadyNodeWaits
<1>8. MissedWereLost'
  <2>. SUFFICES ASSUME NEW m \in Present'
                PROVE  LET x == Least(missed'[m], MaxMissed) IN
                       x > unanswered'[m] => x = unanswered'[m] + 1 /\ Awaited(m)'
    BY DEF MissedWereLost
  <2>1. CASE m = n
    <3>1. missed[m] \in Nat /\ unanswered[m] \in Nat  BY <1>2, <1>4 DEF TypeOK
    <3>2. Least(missed[m], MaxMissed) =< unanswered[m] + 1
      BY <1>2, <3>1, MaxMissedAssumption DEF MissedWereLost, Least
    <3>. QED  BY <1>1, <1>5, <2>1, <3>1, <3>2, MaxMissedAssumption DEF Least
  <2>2. CASE m # n
    BY <1>1, <1>2, <1>3, <1>4, <1>5, <2>2 DEF MissedWereLost, Awaited
  <2>. QED  BY <2>1, <2>2
<1>9. NotReadyIsNew'
  <2>. SUFFICES ASSUME NEW m \in Present' \ ready', unanswered'[m] = 0
                PROVE  \/ failed'[m] = 0 /\ pinged'[m] = Old
                       \/ failed'[m] = 1 /\ pinged'[m] = Old /\ ~checked'
                       \/ failed'[m] =< 1 /\ pinged'[m] = 0 /\ young'[m] > 0
                       \/ failed'[m] =< 2 /\ pinged'[m] = 1 /\ old'[m] > 0
    BY DEF NotReadyIsNew, Old
  <2>1. m # n /\ m \in Present \ ready  BY <1>1, <1>2, <1>5
  <2>2. unanswered[m] = 0  BY <1>4, <1>5, <2>1
  <2>. QED  BY <1>1, <1>3, <1>4, <2>1, <2>2 DEF NotReadyIsNew
<1>. QED  BY <1>2, <1>6, <1>7, <1>8, <1>9

\* A unit of time: the pings still in flight are those sent in it.
LEMMA TickInv == ASSUME Inv, Tick PROVE Inv'
<1>. USE DEF Inv
<1>1. /\ checked /\ ~checked' /\ \A n \in Node : old[n] = 0
      /\ pinged' = [n \in Present |-> Least(pinged[n] + 1, Old)]
      /\ failed' = [n \in Present |-> Least(failed[n] + 1, Old)]
      /\ old' = young /\ young' = [n \in Node |-> 0]
      /\ active' = active /\ backup' = backup /\ ready' = ready /\ missed' = missed
      /\ alive' = alive /\ unanswered' = unanswered /\ Present' = Present
  BY DEF Tick, Present
<1>2. /\ young \in [Node -> Nat] /\ unanswered \in [Node -> 0..MaxMissed]
      /\ missed \in [Present -> 0..MaxMissed + 1]
      /\ pinged \in [Present -> 0..Old] /\ failed \in [Present -> 0..Old]
      /\ Present \subseteq Node /\ Old \in Nat /\ Old >= 3
  BY IntervalAssumption DEF TypeOK, Present, Old
<1>3. TypeOK'
  <2>1. pinged' \in [Present -> 0..Old] /\ failed' \in [Present -> 0..Old]
    BY <1>1, <1>2 DEF Least
  <2>2. young' \in [Node -> Nat]  BY <1>1
  <2>3. /\ active' \subseteq Node /\ backup' \subseteq Node /\ ready' \subseteq Present'
        /\ alive' \subseteq Node /\ checked' \in BOOLEAN /\ old' \in [Node -> Nat]
        /\ missed' \in [Present' -> 0..MaxMissed + 1]
        /\ unanswered' \in [Node -> 0..MaxMissed]
    <3>1. /\ active \subseteq Node /\ backup \subseteq Node /\ ready \subseteq Present
          /\ alive \subseteq Node
      BY DEF TypeOK
    <3>2. ready' \subseteq Present' /\ checked' \in BOOLEAN  BY <1>1, <3>1 DEF Tick
    <3>3. missed' \in [Present' -> 0..MaxMissed + 1]  BY <1>1, <1>2
    <3>. QED  BY <1>1, <1>2, <3>1, <3>2, <3>3
  <2>4. pinged' \in [Present' -> 0..Old'] /\ failed' \in [Present' -> 0..Old']
    BY <1>1, <2>1 DEF Old
  <2>. QED  BY <2>2, <2>3, <2>4 DEF TypeOK
<1>4. SlotsDistinct' /\ ActiveAreReady' /\ NoReadyNodeWaits'
  BY <1>1 DEF SlotsDistinct, ActiveAreReady, NoReadyNodeWaits
<1>5. MissedWereLost'
  <2>. SUFFICES ASSUME NEW m \in Present,
                       Least(missed[m], MaxMissed) > unanswered[m]
                PROVE  Least(missed[m], MaxMissed) = unanswered[m] + 1 /\ Awaited(m)'
    BY <1>1 DEF MissedWereLost
  <2>1. Least(missed[m], MaxMissed) = unanswered[m] + 1 /\ Awaited(m)
    BY DEF MissedWereLost
  <2>2. pinged[m] = 0 /\ young[m] > 0  BY <1>1, <1>2, <2>1 DEF Awaited
  <2>3. pinged'[m] = 1  BY <1>1, <1>2, <2>2 DEF Least
  <2>. QED  BY <1>1, <2>1, <2>2, <2>3 DEF Awaited
<1>6. NotReadyIsNew'
  <2>. SUFFICES ASSUME NEW m \in Present \ ready, unanswered[m] = 0
                PROVE  \/ failed'[m] = 0 /\ pinged'[m] = Old
                       \/ failed'[m] = 1 /\ pinged'[m] = Old /\ ~checked'
                       \/ failed'[m] =< 1 /\ pinged'[m] = 0 /\ young'[m] > 0
                       \/ failed'[m] =< 2 /\ pinged'[m] = 1 /\ old'[m] > 0
    BY <1>1 DEF NotReadyIsNew, Old
  <2>1. \/ failed[m] = 0 /\ pinged[m] = Old
        \/ failed[m] =< 1 /\ pinged[m] = 0 /\ young[m] > 0
    BY <1>1, <1>2 DEF NotReadyIsNew
  <2>2. /\ pinged[m] \in 0..Old /\ failed[m] \in 0..Old
        /\ pinged'[m] = Least(pinged[m] + 1, Old)
        /\ failed'[m] = Least(failed[m] + 1, Old)
    BY <1>1, <1>2
  <2>3. CASE failed[m] = 0 /\ pinged[m] = Old
    BY <1>1, <1>2, <2>2, <2>3 DEF Least
  <2>4. CASE failed[m] =< 1 /\ pinged[m] = 0 /\ young[m] > 0
    BY <1>1, <1>2, <2>2, <2>4 DEF Least
  <2>. QED  BY <2>1, <2>3, <2>4
<1>. QED  BY <1>3, <1>4, <1>5, <1>6

\* What check does to the slots.
LEMMA CheckSlots ==
  ASSUME Inv, Check
  PROVE  /\ SlotsDistinct' /\ ActiveAreReady' /\ NoReadyNodeWaits'
         /\ Present' \subseteq Present
         /\ Present \ Present' \subseteq Failing \cup Replaceable
         /\ Present' # Present => Cardinality(Present') >= K
         /\ ready' = (ready \ Failing) \cap Present'
<1>. USE DEF Inv
<1>. DEFINE stays == active \ Demoted
<1>1. PICK stay \in SUBSET Demoted, gone \in SUBSET Replaceable :
        LET rest == (backup \ gone) \cup stay
            fit  == rest \cap (ready \ Failing)
        IN
        /\ Demote(stay, gone)
        /\ \E up \in SUBSET fit :
             /\ Cardinality(up) = Least(Cardinality(fit), HaveSpace)
             /\ active' = stays \cup up
             /\ backup' = rest \ up
  BY DEF Check
<1>. DEFINE rest == (backup \ gone) \cup stay
            fit  == rest \cap (ready \ Failing)
<1>2. PICK up \in SUBSET fit :
        /\ Cardinality(up) = Least(Cardinality(fit), HaveSpace)
        /\ active' = stays \cup up
        /\ backup' = rest \ up
  BY <1>1
<1>3. ready' = (ready \ Failing) \cap Present'  BY DEF Check
<1>4. /\ active \in SUBSET Node /\ backup \in SUBSET Node /\ active \cap backup = {}
      /\ Demoted \subseteq active /\ Replaceable \subseteq backup \ ready
      /\ Failing \subseteq Due /\ active \subseteq ready
  BY DEF TypeOK, SlotsDistinct, Demoted, Replaceable, Failing, ActiveAreReady
<1>5. stays \cap rest = {} /\ stays \subseteq ready \ Failing
  BY <1>4 DEF Demoted
<1>6. Demoted \subseteq Failing
  BY <1>4 DEF Demoted
<1>7. /\ Present' = stays \cup rest /\ Present' \subseteq Present
      /\ Present \ Present' \subseteq Failing \cup Replaceable
  BY <1>2, <1>4, <1>6 DEF Present
<1>8. /\ Cardinality(rest) =< K
      /\ Present' # Present => Cardinality(rest) = K
  <2>1. /\ IsFiniteSet(backup) /\ Cardinality(backup) \in Nat
        /\ IsFiniteSet(gone) /\ Cardinality(gone) \in Nat
        /\ IsFiniteSet(stay) /\ Cardinality(stay) \in Nat
        /\ IsFiniteSet(Demoted) /\ Cardinality(Demoted) \in Nat
        /\ Cardinality(Replaceable) \in Nat
    <3>1. /\ backup \in SUBSET Node /\ gone \in SUBSET Node /\ stay \in SUBSET Node
          /\ Demoted \in SUBSET Node /\ Replaceable \in SUBSET Node
      BY <1>4
    <3>. QED  BY <3>1, Finite
  <2>2. /\ IsFiniteSet(backup \ gone)
        /\ Cardinality(backup \ gone) = Cardinality(backup) - Cardinality(gone)
    <3>1. /\ IsFiniteSet(backup \ gone)
          /\ Cardinality(backup \ gone)
               = Cardinality(backup) - Cardinality(backup \cap gone)
      BY <2>1, FS_Difference
    <3>2. backup \cap gone = gone  BY <1>4
    <3>. QED  BY <3>1, <3>2
  <2>3. Cardinality(rest) = Cardinality(backup \ gone) + Cardinality(stay)
    <3>1. (backup \ gone) \cap stay = {}  BY <1>4
    <3>2. Cardinality((backup \ gone) \cap stay) = 0  BY <3>1, FS_EmptySet
    <3>3. Cardinality((backup \ gone) \cup stay)
            = Cardinality(backup \ gone) + Cardinality(stay)
              - Cardinality((backup \ gone) \cap stay)
      BY <2>1, <2>2, FS_Union
    <3>. QED  BY <2>1, <2>2, <3>2, <3>3
  <2>. DEFINE free == K - Cardinality(backup)
  <2>4. /\ Cardinality(gone) = Cardinality(stay) - Least(Cardinality(stay), free)
        /\ Cardinality(stay)
             = Least(Cardinality(Demoted), free + Cardinality(Replaceable))
    BY <1>1 DEF Demote
  <2>5. Cardinality(rest) =< K
    BY <2>1, <2>2, <2>3, <2>4, KAssumption DEF Least, SlotsDistinct
  <2>6. ASSUME Present' # Present  PROVE Cardinality(rest) = K
    <3>1. gone # {} \/ stay # Demoted
      BY <1>4, <1>7, <2>6 DEF Present
    <3>2. CASE gone # {}
      <4>1. Cardinality(gone) # 0  BY <2>1, <3>2, FS_EmptySet
      <4>. QED  BY <2>1, <2>2, <2>3, <2>4, <4>1, KAssumption DEF Least, SlotsDistinct
    <3>3. CASE stay # Demoted
      <4>1. Cardinality(stay) # Cardinality(Demoted)
        BY <2>1, <3>3, FS_Subset
      <4>2. Cardinality(stay) >= free
        BY <2>1, <2>4, <4>1, KAssumption DEF Least, SlotsDistinct
      <4>. QED  BY <2>1, <2>2, <2>3, <2>4, <4>2, KAssumption DEF Least, SlotsDistinct
    <3>. QED  BY <3>1, <3>2, <3>3
  <2>. QED  BY <2>5, <2>6
<1>9. /\ IsFiniteSet(stays) /\ IsFiniteSet(up) /\ IsFiniteSet(fit) /\ IsFiniteSet(rest)
      /\ Cardinality(stays) \in Nat /\ Cardinality(up) \in Nat
      /\ Cardinality(fit) \in Nat /\ Cardinality(rest) \in Nat
  <2>1. stays \in SUBSET Node /\ rest \in SUBSET Node  BY <1>4
  <2>2. up \in SUBSET Node /\ fit \in SUBSET Node  BY <2>1
  <2>. QED  BY <2>1, <2>2, Finite
<1>10. /\ Cardinality(up) = Least(Cardinality(fit), K - Cardinality(stays))
       /\ Cardinality(stays) =< K
  <2>1. Cardinality(stays) =< Cardinality(active)  BY <1>4, Finite, FS_Subset
  <2>. QED  BY <1>2, <1>4, <1>9, <2>1, Finite, KAssumption DEF HaveSpace, SlotsDistinct
<1>11. Cardinality(stays \cup up) = Cardinality(stays) + Cardinality(up)
  <2>1. stays \cap up = {}  BY <1>5
  <2>2. Cardinality(stays \cap up) = 0  BY <2>1, FS_EmptySet
  <2>3. Cardinality(stays \cup up)
          = Cardinality(stays) + Cardinality(up) - Cardinality(stays \cap up)
    BY <1>9, FS_Union
  <2>. QED  BY <1>9, <2>2, <2>3
<1>12. SlotsDistinct'
  <2>1. active' \cap backup' = {}  BY <1>2, <1>5
  <2>2. Cardinality(stays \cup up) =< K
    BY <1>9, <1>10, <1>11, KAssumption DEF Least
  <2>3. Cardinality(rest \ up) =< K
    BY <1>8, <1>9, FS_Subset, FS_CardinalityType, KAssumption
  <2>. QED  BY <1>2, <2>1, <2>2, <2>3 DEF SlotsDistinct
<1>13. ActiveAreReady'
  BY <1>2, <1>3, <1>5 DEF ActiveAreReady, Present
<1>14. NoReadyNodeWaits'
  <2>1. SUFFICES ASSUME Cardinality(stays \cup up) < K
                 PROVE  (rest \ up) \cap (ready \ Failing) = {}
    BY <1>2, <1>3 DEF NoReadyNodeWaits
  <2>2. Cardinality(up) = Cardinality(fit)
    BY <1>9, <1>10, <1>11, <2>1, KAssumption DEF Least
  <2>3. up = fit
    <3>. HIDE DEF fit
    <3>. QED  BY <1>9, <2>2, FS_Subset
  <2>. QED  BY <2>3
<1>15. Present' # Present => Cardinality(Present') >= K
  <2>1. rest \subseteq Present' /\ Present' \in SUBSET Node
    BY <1>4, <1>7 DEF Present
  <2>2. Cardinality(rest) =< Cardinality(Present') /\ Cardinality(Present') \in Nat
    <3>. HIDE DEF rest
    <3>. QED  BY <2>1, Finite, FS_Subset
  <2>. QED  BY <1>8, <2>2
<1>. QED  BY <1>3, <1>7, <1>12, <1>13, <1>14, <1>15

\* A node that fails has lost max_missed_pings_ pings in a row: its last ping is
\* too long ago to be in flight.
LEMMA FailingWereSilent ==
  ASSUME Inv, NEW n \in Failing
  PROVE  unanswered[n] >= MaxMissed
<1>1. /\ n \in Present /\ n \in Node /\ pinged[n] \in 0..Old /\ pinged[n] > Interval
      /\ missed[n] \in 0..MaxMissed + 1 /\ missed[n] + 1 > MaxMissed
      /\ unanswered[n] \in 0..MaxMissed
  BY DEF Inv, TypeOK, Failing, Due, Present
<1>2. ~Awaited(n)  BY <1>1, IntervalAssumption DEF Awaited
<1>3. ~(Least(missed[n], MaxMissed) > unanswered[n])
  BY <1>1, <1>2 DEF Inv, MissedWereLost
<1>. QED  BY <1>1, <1>3, MaxMissedAssumption DEF Least

\* A replaceable backup has lost a ping: a new one is answered within a minute.
LEMMA ReplaceableWereSilent ==
  ASSUME Inv, NEW n \in Replaceable
  PROVE  unanswered[n] > 0
<1>1. /\ n \in Present \ ready /\ failed[n] \in 0..Old /\ failed[n] > Interval
      /\ unanswered[n] \in 0..MaxMissed
  BY DEF Inv, TypeOK, Replaceable, Present
<1>2. unanswered[n] # 0
  BY <1>1, IntervalAssumption DEF Inv, NotReadyIsNew
<1>. QED  BY <1>1, <1>2, MaxMissedAssumption

\* DhtBucket::check preserves the invariant.
LEMMA CheckInv == ASSUME Inv, Check PROVE Inv'
<1>. USE DEF Inv
<1>1. /\ SlotsDistinct' /\ ActiveAreReady' /\ NoReadyNodeWaits'
      /\ Present' \subseteq Present /\ ready' = (ready \ Failing) \cap Present'
  BY CheckSlots
<1>2. /\ missed' = [n \in Present' |->
                     IF n \in Due THEN Least(missed[n], MaxMissed) + 1 ELSE missed[n]]
      /\ pinged' = [n \in Present' |-> IF n \in Due THEN 0 ELSE pinged[n]]
      /\ failed' = [n \in Present' |-> IF n \in Failing THEN 0 ELSE failed[n]]
      /\ young' = [n \in Node |-> IF n \in Due /\ ~(n \in backup /\ n \notin Present')
                                  THEN young[n] + 1 ELSE young[n]]
      /\ old' = old /\ alive' = alive /\ unanswered' = unanswered /\ checked'
  BY DEF Check, SendPings
<1>3. /\ young \in [Node -> Nat] /\ old \in [Node -> Nat]
      /\ unanswered \in [Node -> 0..MaxMissed]
      /\ missed \in [Present -> 0..MaxMissed + 1]
      /\ pinged \in [Present -> 0..Old] /\ failed \in [Present -> 0..Old]
      /\ Present \subseteq Node /\ Old \in Nat /\ Old = Interval + 1
  BY IntervalAssumption DEF TypeOK, Present, Old
<1>4. TypeOK'
  <2>1. missed' \in [Present' -> 0..MaxMissed + 1]
    BY <1>1, <1>2, <1>3, MaxMissedAssumption DEF Least
  <2>2. pinged' \in [Present' -> 0..Old] /\ failed' \in [Present' -> 0..Old]
    BY <1>1, <1>2, <1>3
  <2>3. young' \in [Node -> Nat]  BY <1>2, <1>3
  <2>4. active' \subseteq Node /\ backup' \subseteq Node
    BY <1>1, <1>3 DEF Present
  <2>5. ready' \subseteq Present' /\ checked' \in BOOLEAN  BY <1>1 DEF Check
  <2>6. alive' \subseteq Node  BY <1>2 DEF TypeOK
  <2>7. pinged' \in [Present' -> 0..Old'] /\ failed' \in [Present' -> 0..Old']
    BY <2>2 DEF Old
  <2>. QED  BY <1>2, <1>3, <2>1, <2>3, <2>4, <2>5, <2>6, <2>7 DEF TypeOK
<1>5. MissedWereLost'
  <2>. SUFFICES ASSUME NEW m \in Present',
                       Least(missed'[m], MaxMissed) > unanswered[m]
                PROVE  Least(missed'[m], MaxMissed) = unanswered[m] + 1 /\ Awaited(m)'
    BY <1>2 DEF MissedWereLost
  <2>1. /\ m \in Present /\ m \in Node /\ pinged[m] \in 0..Old
        /\ missed[m] \in 0..MaxMissed + 1 /\ unanswered[m] \in 0..MaxMissed
        /\ Least(missed[m], MaxMissed) > unanswered[m]
             => Least(missed[m], MaxMissed) = unanswered[m] + 1 /\ Awaited(m)
    BY <1>1, <1>3 DEF MissedWereLost
  <2>2. CASE m \in Due
    <3>1. ~Awaited(m)
      BY <2>1, <2>2, IntervalAssumption DEF Awaited, Due
    <3>2. ~(Least(missed[m], MaxMissed) > unanswered[m])  BY <2>1, <3>1
    <3>3. missed'[m] = Least(missed[m], MaxMissed) + 1  BY <1>2, <2>2
    <3>4. Least(missed'[m], MaxMissed) = unanswered[m] + 1
      BY <2>1, <3>2, <3>3, MaxMissedAssumption DEF Least
    <3>5. pinged'[m] = 0 /\ young'[m] > 0  BY <1>2, <1>3, <2>1, <2>2
    <3>. QED  BY <3>4, <3>5 DEF Awaited
  <2>3. CASE m \notin Due
    <3>1. missed'[m] = missed[m] /\ pinged'[m] = pinged[m] /\ young'[m] = young[m]
      BY <1>2, <2>1, <2>3
    <3>. QED  BY <1>2, <2>1, <3>1 DEF Awaited
  <2>. QED  BY <2>2, <2>3
<1>6. NotReadyIsNew'
  <2>. SUFFICES ASSUME NEW m \in Present' \ ready', unanswered[m] = 0
                PROVE  \/ failed'[m] = 0 /\ pinged'[m] = Old
                       \/ failed'[m] = 1 /\ pinged'[m] = Old /\ ~checked'
                       \/ failed'[m] =< 1 /\ pinged'[m] = 0 /\ young'[m] > 0
                       \/ failed'[m] =< 2 /\ pinged'[m] = 1 /\ old'[m] > 0
    BY <1>2 DEF NotReadyIsNew, Old
  <2>1. m \notin Failing
    BY FailingWereSilent, MaxMissedAssumption
  <2>2. m \in Present \ ready  BY <1>1, <2>1
  <2>3. \/ failed[m] =< 1 /\ pinged[m] = Old
        \/ failed[m] =< 1 /\ pinged[m] = 0 /\ young[m] > 0
        \/ failed[m] =< 2 /\ pinged[m] = 1 /\ old[m] > 0
    BY <1>3, <2>2 DEF NotReadyIsNew
  <2>4. failed'[m] = failed[m]  BY <1>2, <2>1
  <2>5. CASE m \in Due
    <3>1. pinged[m] > Interval  BY <2>5 DEF Due
    <3>2. failed[m] =< 1  BY <1>3, <2>3, <3>1, IntervalAssumption
    <3>3. pinged'[m] = 0 /\ young'[m] > 0  BY <1>2, <1>3, <2>2, <2>5
    <3>. QED  BY <2>4, <3>2, <3>3
  <2>6. CASE m \notin Due
    <3>1. pinged[m] # Old  BY <1>3, <2>2, <2>6, IntervalAssumption DEF Due
    <3>2. pinged'[m] = pinged[m] /\ young'[m] = young[m] /\ old'[m] = old[m]
      BY <1>2, <1>3, <2>2, <2>6
    <3>. QED  BY <2>3, <2>4, <3>1, <3>2
  <2>. QED  BY <2>5, <2>6
<1>. QED  BY <1>1, <1>4, <1>5, <1>6

\* Every step of the bucket, its peers and the network preserves the invariant.
LEMMA StepInv == ASSUME Inv, [Next]_vars PROVE Inv'
<1>1. CASE Check  BY <1>1, CheckInv
<1>2. CASE Tick  BY <1>2, TickInv
<1>3. ASSUME NEW n \in Node, AddFullNode(n)  PROVE Inv'
  <2>1. /\ n \notin Present
        /\ \/ Cardinality(backup) < K /\ Enter(n, {})
           \/ \E g \in Replaceable : Enter(n, {g})
        /\ UNCHANGED <<network, checked>>
    BY <1>3 DEF AddFullNode
  <2>2. CASE Cardinality(backup) < K /\ Enter(n, {})
    BY <2>1, <2>2, EnterInv
  <2>3. ASSUME NEW g \in Replaceable, Enter(n, {g})  PROVE Inv'
    BY <2>1, <2>3, EnterInv
  <2>. QED  BY <2>1, <2>2, <2>3
<1>4. ASSUME NEW n \in Node, Settle(n)  PROVE Inv'
  BY <1>4, ReceivePingInv, UnansweredInv DEF Settle
<1>5. ASSUME NEW n \in Node, Leave(n)  PROVE Inv'
  <2>1. /\ alive' \subseteq alive /\ slots' = slots
        /\ young' = young /\ old' = old /\ unanswered' = unanswered
        /\ checked' = checked
    BY <1>5 DEF Leave
  <2>2. TypeOK'
    BY <2>1 DEF TypeOK, Inv, slots, Present, Old
  <2>3. SlotsDistinct' /\ ActiveAreReady' /\ NoReadyNodeWaits'
    BY <2>1 DEF Inv, slots, SlotsDistinct, ActiveAreReady, NoReadyNodeWaits
  <2>4. MissedWereLost' /\ NotReadyIsNew'
    BY <2>1 DEF Inv, slots, MissedWereLost, NotReadyIsNew, Awaited, Present, Old
  <2>. QED  BY <2>2, <2>3, <2>4 DEF Inv
<1>6. CASE UNCHANGED vars
  <2>1. TypeOK' /\ SlotsDistinct' /\ ActiveAreReady' /\ NoReadyNodeWaits'
    BY <1>6 DEF vars, slots, network, Inv, TypeOK, Present, Old, SlotsDistinct,
                ActiveAreReady, NoReadyNodeWaits
  <2>2. MissedWereLost' /\ NotReadyIsNew'
    BY <1>6 DEF vars, slots, network, Inv, MissedWereLost, NotReadyIsNew, Awaited,
                Present, Old
  <2>. QED  BY <2>1, <2>2 DEF Inv
<1>. QED  BY <1>1, <1>2, <1>3, <1>4, <1>5, <1>6 DEF Next

\* What a step may take from a node: check alone makes one fail, and only check
\* and add_full_node drop one.
LEMMA StepTakes ==
  ASSUME Inv, [Next]_vars
  PROVE  /\ \A n \in ready : n \notin ready' => n \in Failing
         /\ \A n \in Present : n \notin Present' => n \in Failing \cup Replaceable
<1>. USE DEF Inv
<1>0. ready \subseteq Present /\ Replaceable \cap ready = {}
  BY DEF TypeOK, Replaceable
<1>1. CASE Check
  BY <1>0, <1>1, CheckSlots
<1>2. CASE Tick
  BY <1>2 DEF Tick, Present
<1>3. ASSUME NEW n \in Node, AddFullNode(n)
      PROVE  ready' = ready /\ \A m \in Present : m \notin Present' => m \in Replaceable
  BY <1>3 DEF AddFullNode, Enter, Present
<1>4. ASSUME NEW n \in Node, Settle(n)
      PROVE  ready \subseteq ready' /\ Present' = Present
  <2>1. CASE ReceivePing(n)
    <3>1. CASE n \notin Present
      BY <2>1, <3>1 DEF ReceivePing, slots, Present
    <3>2. CASE n \in active
      BY <2>1, <3>2 DEF ReceivePing, Present
    <3>3. CASE n \in Present \ active
      <4>1. Promote(n) /\ n \in backup /\ ready' = ready \cup {n}
        BY <2>1, <3>3 DEF ReceivePing, Present
      <4>. QED  BY <4>1, PromoteSlots
    <3>. QED  BY <3>1, <3>2, <3>3
  <2>2. CASE ReceiveBadPing(n)
    <3>1. CASE n \in backup \cap ready
      BY <2>2, <3>1, PromoteSlots DEF ReceiveBadPing
    <3>2. CASE n \notin backup \cap ready
      BY <2>2, <3>2 DEF ReceiveBadPing, Present
    <3>. QED  BY <3>1, <3>2
  <2>3. CASE Lose(n)
    BY <2>3 DEF Lose, slots, Present
  <2>. QED  BY <1>4, <2>1, <2>2, <2>3 DEF Settle
<1>5. ASSUME NEW n \in Node, Leave(n)  PROVE ready' = ready /\ Present' = Present
  BY <1>5 DEF Leave, slots, Present
<1>6. CASE UNCHANGED vars
  BY <1>6 DEF vars, slots, Present
<1>. QED  BY <1>1, <1>2, <1>3, <1>4, <1>5, <1>6 DEF Next

\* The inductive invariant holds throughout.
THEOREM BucketInvariant == Spec => []Inv
BY InitInv, StepInv, PTL DEF Spec

\* Records exist for exactly the nodes in a slot, with counters in range.
THEOREM BucketTypes == Spec => []TypeOK
<1>1. Inv => TypeOK  BY DEF Inv
<1>. QED  BY <1>1, BucketInvariant, PTL

\* No node takes two slots and no array overflows, whatever order nodes are met,
\* pinged, promoted, demoted and replaced in.
THEOREM SlotsStayDistinct == Spec => []SlotsDistinct
<1>1. Inv => SlotsDistinct  BY DEF Inv
<1>. QED  BY <1>1, BucketInvariant, PTL

\* CHECK(node->is_ready()) never fails: lookups are given ready nodes only.
THEOREM ActiveStayReady == Spec => []ActiveAreReady
<1>1. Inv => ActiveAreReady  BY DEF Inv
<1>. QED  BY <1>1, BucketInvariant, PTL

\* No ready backup waits while an active slot is free.
THEOREM SlotsAreFilled == Spec => []NoReadyNodeWaits
<1>1. Inv => NoReadyNodeWaits  BY DEF Inv
<1>. QED  BY <1>1, BucketInvariant, PTL

\* A node fails only after max_missed_pings_ pings in a row were lost.
THEOREM OnlySilentFail == Spec => FailsOnlyIfSilent
<1>1. Inv /\ [Next]_vars
        => [\A n \in ready : n \notin ready' => unanswered[n] >= MaxMissed]_vars
  BY StepTakes, FailingWereSilent
<1>. QED  BY <1>1, BucketInvariant, PTL DEF Spec, FailsOnlyIfSilent

\* A node that answers every ping is never dropped.
THEOREM OnlyMissedDropped == Spec => DropsOnlyIfMissed
<1>1. Inv /\ [Next]_vars
        => [\A n \in Present : n \notin Present' => unanswered[n] > 0]_vars
  <2>. SUFFICES ASSUME Inv, [Next]_vars, NEW n \in Present, n \notin Present'
                PROVE  unanswered[n] > 0
    OBVIOUS
  <2>1. n \in Failing \cup Replaceable  BY StepTakes
  <2>2. CASE n \in Failing
    <3>1. unanswered[n] \in Nat /\ unanswered[n] >= MaxMissed
      BY <2>2, FailingWereSilent DEF Inv, TypeOK, Present
    <3>. QED  BY <3>1, MaxMissedAssumption
  <2>3. CASE n \in Replaceable  BY <2>3, ReplaceableWereSilent
  <2>. QED  BY <2>1, <2>2, <2>3
<1>. QED  BY <1>1, BucketInvariant, PTL DEF Spec, DropsOnlyIfMissed

\* The slots count as the bucket does.
LEMMA SlotsCardinality == \A S : Abstract!Cardinality(S) = Cardinality(S)
BY DEF Abstract!Cardinality, Cardinality

\* The bucket implements the slots the rest of the member relies on: no node
\* takes two, neither array overflows, and none is dropped unless K others stay.
THEOREM BucketImplementsSlots == Spec => ImplementsSlots
<1>. USE DEF Abstract!Known, Abstract!SlotsFit
<1>1. Init => Abstract!Init  BY DEF Init, Abstract!Init
<1>2. ASSUME Inv, Inv', [Next]_vars  PROVE [Abstract!Next]_(Abstract!slotVars)
  <2>. USE DEF Abstract!Next
  <2>1. /\ active \in SUBSET Present /\ backup \in SUBSET Present
        /\ active' \in SUBSET Present' /\ backup' \in SUBSET Present'
        /\ SlotsDistinct'
    BY <1>2 DEF Inv, Present
  <2>2. ASSUME Present' \subseteq Present,
               Present' # Present => Cardinality(Present') >= K
        PROVE  Abstract!Arrange
    BY <2>1, <2>2, SlotsCardinality DEF Abstract!Arrange, Present, SlotsDistinct
  <2>3. CASE Check
    BY <1>2, <2>2, <2>3, CheckSlots
  <2>4. ASSUME NEW n \in Node, AddFullNode(n)  PROVE Abstract!Enter(n)
    <3>1. n \notin Present /\ active' = active
      BY <2>4 DEF AddFullNode, Enter
    <3>2. CASE Cardinality(backup) < K /\ Enter(n, {})
      <4>1. backup' = (backup \ {}) \cup {n}  BY <3>2 DEF Enter
      <4>2. Cardinality({}) =< 1  BY FS_EmptySet
      <4>. QED  BY <2>1, <3>1, <4>1, <4>2, SlotsCardinality DEF Abstract!Enter, Present, SlotsDistinct
    <3>3. ASSUME NEW g \in Replaceable, Cardinality(backup) = K, Enter(n, {g})
          PROVE  Abstract!Enter(n)
      <4>1. backup' = (backup \ {g}) \cup {n} /\ {g} \in SUBSET backup
        BY <3>3 DEF Enter, Replaceable
      <4>2. Cardinality({g}) = 1  BY FS_Singleton
      <4>3. Cardinality({g}) =< 1  BY <4>2
      <4>. QED  BY <2>1, <3>1, <3>3, <4>1, <4>3, SlotsCardinality DEF Abstract!Enter, Present, SlotsDistinct
    <3>. QED  BY <2>4, <3>2, <3>3 DEF AddFullNode
  <2>5. ASSUME NEW n \in Node, ReceivePing(n) \/ ReceiveBadPing(n)
        PROVE  Abstract!Arrange \/ UNCHANGED <<active, backup>>
    <3>1. CASE UNCHANGED <<active, backup>>  BY <3>1
    <3>2. CASE n \in backup /\ Promote(n)
      <4>1. Present' = Present  BY <1>2, <3>2, PromoteSlots DEF Inv
      <4>. QED  BY <2>2, <4>1
    <3>. QED  BY <2>5, <3>1, <3>2 DEF ReceivePing, ReceiveBadPing, slots, Present
  <2>6. CASE \/ Tick \/ UNCHANGED vars
             \/ \E n \in Node : Lose(n) \/ Leave(n)
    <3>1. active' = active /\ backup' = backup
      BY <2>6 DEF Tick, Lose, Leave, vars, slots
    <3>. QED  BY <3>1 DEF Abstract!slotVars
  <2>. QED  BY <1>2, <2>3, <2>4, <2>5, <2>6 DEF Next, Settle, Abstract!slotVars
<1>. QED  BY <1>1, <1>2, BucketInvariant, PTL DEF Spec, ImplementsSlots, Abstract!Spec
-----------------------------------------------------------------------------
\* A record was exported from arrays that fit.
WellExported(r) ==
  /\ r.wereActive = r.first
  /\ r.first \cap r.rest = {}
  /\ Cardinality(r.first) =< Room /\ Cardinality(r.rest) =< Room

Records == {record} \cup {writing[i] : i \in DOMAIN writing}

\* The inductive invariant of a bucket's life.
LifeInv ==
  /\ LifeTypes
  /\ activeNodes \cap backupNodes = {}
  /\ Cardinality(activeNodes) =< Room /\ Cardinality(backupNodes) =< Room
  /\ \A r \in Records : WellExported(r)
  /\ EmptyWasNeverSaved

\* The sets of nodes are finite, and their sizes numbers.
LEMMA PeersFinite ==
  ASSUME NEW S \in SUBSET Peer
  PROVE  IsFiniteSet(S) /\ Cardinality(S) \in Nat
BY PeerAssumption, FS_Subset, FS_CardinalityType

\* The slots count as this module does.
LEMMA PeersCardinality == \A S : Bucket!Cardinality(S) = Cardinality(S)
BY DEF Bucket!Cardinality, Cardinality

\* What is exported from arrays that fit is well exported.
LEMMA ExportWell ==
  ASSUME LifeInv
  PROVE  Export \in Lists /\ WellExported(Export)
BY DEF LifeInv, LifeTypes, Export, Lists, WellExported

\* The empty bucket of an empty database.
LEMMA LifeInitInv == LifeInit => LifeInv
<1>. SUFFICES ASSUME LifeInit PROVE LifeInv
  OBVIOUS
<1>1. /\ activeNodes = {} /\ backupNodes = {} /\ writing = <<>>
      /\ record = [first |-> {}, rest |-> {}, wereActive |-> {}]
  BY DEF LifeInit, Bucket!Init, Export
<1>2. Cardinality({}) = 0  BY FS_EmptySet
<1>3. LifeTypes  BY <1>1 DEF LifeTypes, Lists
<1>4. Records = {record}  BY <1>1 DEF Records
<1>5. WellExported(record)  BY <1>1, <1>2, RoomAssumption DEF WellExported
<1>6. EmptyWasNeverSaved  BY <1>1 DEF EmptyWasNeverSaved, Listed
<1>. QED  BY <1>1, <1>2, <1>3, <1>4, <1>5, <1>6, RoomAssumption DEF LifeInv

\* The bucket at work: a new node makes it non-empty, and what is dropped leaves
\* at least one.
LEMMA WorkInv == ASSUME LifeInv, Work PROVE LifeInv'
<1>1. record' = record /\ writing' = writing  BY DEF Work
<1>2. /\ activeNodes' \in SUBSET Peer /\ backupNodes' \in SUBSET Peer
      /\ activeNodes' \cap backupNodes' = {}
      /\ Cardinality(activeNodes') =< Room /\ Cardinality(backupNodes') =< Room
      /\ activeNodes' \cup backupNodes' = {} => activeNodes \cup backupNodes = {}
  <2>. USE DEF Bucket!SlotsFit, Bucket!Known
  <2>1. CASE Bucket!Arrange
    <3>1. /\ activeNodes' \in SUBSET Peer /\ backupNodes' \in SUBSET Peer
      BY <2>1 DEF Bucket!Arrange, LifeInv, LifeTypes
    <3>2. ASSUME activeNodes' \cup backupNodes' = {}  PROVE activeNodes \cup backupNodes = {}
      <4>1. Cardinality(activeNodes' \cup backupNodes') = 0  BY <3>2, FS_EmptySet
      <4>2. ~(Cardinality(activeNodes' \cup backupNodes') >= Room)  BY <4>1, RoomAssumption
      <4>3. activeNodes' \cup backupNodes' = activeNodes \cup backupNodes
        BY <2>1, <4>2, PeersCardinality DEF Bucket!Arrange
      <4>. QED  BY <3>2, <4>3
    <3>. QED  BY <2>1, <3>1, <3>2, PeersCardinality DEF Bucket!Arrange
  <2>2. ASSUME NEW n \in Peer, Bucket!Enter(n)
        PROVE  /\ activeNodes' \in SUBSET Peer /\ backupNodes' \in SUBSET Peer
               /\ activeNodes' \cap backupNodes' = {}
               /\ Cardinality(activeNodes') =< Room /\ Cardinality(backupNodes') =< Room
               /\ n \in backupNodes'
    BY <2>2, PeersCardinality DEF Bucket!Enter, LifeInv, LifeTypes
  <2>. QED  BY <2>1, <2>2 DEF Work, Bucket!Next
<1>3. LifeTypes' /\ EmptyWasNeverSaved'
  BY <1>1, <1>2 DEF LifeInv, LifeTypes, EmptyWasNeverSaved
<1>4. Records' = Records  BY <1>1 DEF Records
<1>. QED  BY <1>2, <1>3, <1>4 DEF LifeInv, WellExported

\* A record made now is of a bucket that is not empty.
LEMMA SaveInv == ASSUME LifeInv, SaveToDb PROVE LifeInv'
<1>1. /\ activeNodes' = activeNodes /\ backupNodes' = backupNodes /\ record' = record
      /\ writing' = Append(writing, Export) /\ writing \in Seq(Lists)
  BY DEF SaveToDb, nodeArrays, LifeInv, LifeTypes
<1>2. activeNodes \cup backupNodes # {}  BY DEF SaveToDb, Export, Listed
<1>3. Export \in Lists /\ WellExported(Export)  BY ExportWell
<1>4. writing' \in Seq(Lists)  BY <1>1, <1>3
<1>5. Records' \subseteq Records \cup {Export}  BY <1>1, <1>3 DEF Records
<1>6. LifeTypes' /\ EmptyWasNeverSaved'
  BY <1>1, <1>2, <1>4 DEF LifeInv, LifeTypes, EmptyWasNeverSaved
<1>7. \A r \in Records' : WellExported(r)  BY <1>3, <1>5 DEF LifeInv
<1>. QED  BY <1>1, <1>6, <1>7 DEF LifeInv, WellExported

\* The record becomes one that was under way.
LEMMA WriteInv == ASSUME LifeInv, Write PROVE LifeInv'
<1>1. /\ activeNodes' = activeNodes /\ backupNodes' = backupNodes /\ writing # <<>>
      /\ record' = Head(writing) /\ writing' = Tail(writing)
      /\ writing \in Seq(Lists)
  BY DEF Write, nodeArrays, LifeInv, LifeTypes
<1>2. /\ record' = writing[1] /\ 1 \in DOMAIN writing /\ record' \in Lists
      /\ writing' \in Seq(Lists)
      /\ \A i \in DOMAIN writing' : i + 1 \in DOMAIN writing /\ writing'[i] = writing[i + 1]
  BY <1>1
<1>3. Records' \subseteq Records  BY <1>2 DEF Records
<1>4. LifeTypes'  BY <1>1, <1>2 DEF LifeInv, LifeTypes
<1>5. EmptyWasNeverSaved'
  BY <1>1, <1>2 DEF LifeInv, EmptyWasNeverSaved
<1>. QED  BY <1>1, <1>3, <1>4, <1>5 DEF LifeInv, WellExported

\* What start_up takes over of a record.
LEMMA RestartTakes ==
  ASSUME LifeInv, Restart
  PROVE  /\ activeNodes' = {} /\ backupNodes' \in SUBSET Listed(record)
         /\ record.first \subseteq backupNodes'
         /\ Cardinality(backupNodes') = Least(Room, Cardinality(Listed(record)))
<1>1. /\ record.first \in SUBSET Peer /\ record.rest \in SUBSET Peer
      /\ record.first \cap record.rest = {} /\ Cardinality(record.first) =< Room
  BY DEF LifeInv, LifeTypes, Lists, Records, WellExported
<1>2. PICK fit \in SUBSET record.rest :
        /\ Cardinality(fit) = Least(Cardinality(record.rest), Room - Cardinality(record.first))
        /\ backupNodes' = record.first \cup fit
  BY DEF Restart, Reload
<1>3. /\ IsFiniteSet(record.first) /\ Cardinality(record.first) \in Nat
      /\ IsFiniteSet(record.rest) /\ Cardinality(record.rest) \in Nat
      /\ IsFiniteSet(fit) /\ Cardinality(fit) \in Nat
  <2>1. fit \in SUBSET Peer  BY <1>1
  <2>. QED  BY <1>1, <2>1, PeersFinite
<1>4. /\ Cardinality(record.first \cup fit) = Cardinality(record.first) + Cardinality(fit)
      /\ Cardinality(record.first \cup record.rest)
           = Cardinality(record.first) + Cardinality(record.rest)
  <2>1. record.first \cap fit = {}  BY <1>1
  <2>2. Cardinality(record.first \cap fit) = 0
        /\ Cardinality(record.first \cap record.rest) = 0
    BY <1>1, <2>1, FS_EmptySet
  <2>3. /\ Cardinality(record.first \cup fit)
             = Cardinality(record.first) + Cardinality(fit)
               - Cardinality(record.first \cap fit)
        /\ Cardinality(record.first \cup record.rest)
             = Cardinality(record.first) + Cardinality(record.rest)
               - Cardinality(record.first \cap record.rest)
    BY <1>3, FS_Union
  <2>. QED  BY <1>3, <2>2, <2>3
<1>5. Cardinality(backupNodes') = Least(Room, Cardinality(Listed(record)))
  <2>. DEFINE f == Cardinality(record.first)  r == Cardinality(record.rest)
              c == Cardinality(fit)
  <2>1. f \in Nat /\ r \in Nat /\ c = Least(r, Room - f) /\ f =< Room
    BY <1>1, <1>2, <1>3
  <2>2. f + c = Least(Room, f + r)  BY <2>1, RoomAssumption DEF Least
  <2>. QED  BY <1>2, <1>4, <2>2 DEF Listed
<1>. QED  BY <1>2, <1>5 DEF Restart, Listed

\* A restart of a bucket that was ever saved leaves it not empty.
LEMMA RestartInv == ASSUME LifeInv, Restart PROVE LifeInv'
<1>1. /\ record' = record /\ writing' = <<>> /\ record \in Lists
  BY DEF Restart, LifeInv, LifeTypes
<1>2. /\ Listed(record) \in SUBSET Peer
      /\ activeNodes' = {} /\ backupNodes' \in SUBSET Peer
  BY <1>1, RestartTakes DEF Listed, Lists
<1>3. Cardinality(Listed(record)) \in Nat /\ IsFiniteSet(Listed(record))
  BY <1>2, PeersFinite
<1>4. Cardinality(activeNodes') =< Room /\ Cardinality(backupNodes') =< Room
  <2>1. Cardinality({}) = 0  BY FS_EmptySet
  <2>. QED  BY <1>2, <1>3, <2>1, RestartTakes, RoomAssumption DEF Least
<1>5. backupNodes' = {} => Listed(record) = {}
  <2>. SUFFICES ASSUME backupNodes' = {} PROVE Listed(record) = {}
    OBVIOUS
  <2>1. Cardinality(backupNodes') = 0  BY FS_EmptySet
  <2>2. Cardinality(Listed(record)) = 0
    BY <1>3, <2>1, RestartTakes, RoomAssumption DEF Least
  <2>. QED  BY <1>3, <2>2, FS_EmptySet
<1>6. LifeTypes'  BY <1>1, <1>2 DEF LifeInv, LifeTypes
<1>7. EmptyWasNeverSaved'  BY <1>1, <1>5 DEF EmptyWasNeverSaved, Listed
<1>8. Records' \subseteq Records  BY <1>1 DEF Records
<1>. QED  BY <1>2, <1>4, <1>6, <1>7, <1>8 DEF LifeInv, WellExported

\* Every step preserves the invariant.
LEMMA LifeStepInv == ASSUME LifeInv, [LifeNext]_lifeVars PROVE LifeInv'
<1>1. CASE UNCHANGED lifeVars
  BY <1>1 DEF lifeVars, nodeArrays, LifeInv, LifeTypes, Records, WellExported, EmptyWasNeverSaved, Listed
<1>. QED  BY <1>1, WorkInv, SaveInv, WriteInv, RestartInv DEF LifeNext

\* An empty bucket was never saved, and so never held a node.
THEOREM EmptyNeverSaved == LifeSpec => []EmptyWasNeverSaved
<1>1. LifeInv => EmptyWasNeverSaved  BY DEF LifeInv
<1>. QED  BY <1>1, LifeInitInv, LifeStepInv, PTL DEF LifeSpec

\* A restart brings back the nodes that were active when the bucket was saved,
\* and k nodes if so many were.
THEOREM ActiveAlwaysComeBack == LifeSpec => ActiveComeBack
<1>1. LifeInv /\ [LifeNext]_lifeVars
        => [Restart => /\ record.wereActive \subseteq backupNodes'
                       /\ Cardinality(backupNodes') >= Least(Room, Cardinality(Listed(record)))]_lifeVars
  <2>. SUFFICES ASSUME LifeInv, Restart
                PROVE  /\ record.wereActive \subseteq backupNodes'
                       /\ Cardinality(backupNodes') >= Least(Room, Cardinality(Listed(record)))
    OBVIOUS
  <2>1. record.wereActive = record.first  BY DEF LifeInv, Records, WellExported
  <2>2. Listed(record) \in SUBSET Peer  BY DEF LifeInv, LifeTypes, Lists, Listed
  <2>3. Cardinality(Listed(record)) \in Nat  BY <2>2, PeersFinite
  <2>4. Least(Room, Cardinality(Listed(record))) \in Nat
    BY <2>3, RoomAssumption DEF Least
  <2>. QED  BY <2>1, <2>4, RestartTakes
<1>. QED  BY <1>1, LifeInitInv, LifeStepInv, PTL DEF LifeSpec, ActiveComeBack
-----------------------------------------------------------------------------
(***************************************************************************)
(* get_nearest_nodes finds the nearest nodes, for keys of any length.  The *)
(* argument: the buckets, in the order the two loops walk them, hold nodes *)
(* farther and farther from the key.                                       *)
(***************************************************************************)

\* Below the bit of its bucket a node is as far from the key as this node is;
\* there the distances differ.
LEMMA BucketDistance ==
  ASSUME NEW n \in Key, id \in Key, NEW b \in Bit, InBucket(n, b)
  PROVE  /\ \A j \in 0..b - 1 : j \in Xor(n, id) <=> j \in IdXor
         /\ b \in Xor(n, id) <=> b \notin IdXor
BY SelfAssumption, BitsAssumption DEF InBucket, Xor, IdXor, Key, Bit

\* The bits of visited buckets, given how far the two loops have come, come
\* before those of all others: the order of the walk is that of the distances.
LEMMA BucketsOrdered ==
  ASSUME id \in Key, NEW b \in Bit, NEW c \in Bit,
         NEW m \in Key, NEW n \in Key, InBucket(m, b), InBucket(n, c),
         \/ b \in IdXor /\ (c \notin IdXor \/ b < c)
         \/ b \notin IdXor /\ c \notin IdXor /\ c < b
  PROVE  Nearer(m, n)
<1>1. /\ \A j \in 0..b - 1 : j \in Xor(m, id) <=> j \in IdXor
      /\ b \in Xor(m, id) <=> b \notin IdXor
      /\ \A j \in 0..c - 1 : j \in Xor(n, id) <=> j \in IdXor
      /\ c \in Xor(n, id) <=> c \notin IdXor
      /\ b \in Int /\ c \in Int /\ b >= 0 /\ c >= 0
  BY BucketDistance, BitsAssumption DEF Bit
<1>2. CASE b \in IdXor /\ b < c
  <2>1. b \in Xor(n, id) \ Xor(m, id)  BY <1>1, <1>2
  <2>2. \A j \in 0..b - 1 : j \in Xor(m, id) <=> j \in Xor(n, id)  BY <1>1, <1>2
  <2>. QED  BY <2>1, <2>2 DEF Nearer, Less
<1>3. CASE c \notin IdXor /\ c < b
  <2>1. c \in Xor(n, id) \ Xor(m, id)  BY <1>1, <1>3
  <2>2. \A j \in 0..c - 1 : j \in Xor(m, id) <=> j \in Xor(n, id)  BY <1>1, <1>3
  <2>. QED  BY <2>1, <2>2 DEF Nearer, Less
<1>4. CASE b = c
  BY <1>1, <1>4
<1>. QED  BY <1>1, <1>2, <1>3, <1>4

\* Every other key falls into exactly one bucket.
LEMMA BucketExists ==
  ASSUME NEW n \in Key, n # Self
  PROVE  \E b \in Bit : InBucket(n, b)
<1>1. Xor(n, Self) \in SUBSET Nat /\ Xor(n, Self) # {} /\ Xor(n, Self) \subseteq Bit
  BY SelfAssumption, BitsAssumption DEF Xor, Key, Bit
<1>2. PICK b \in Xor(n, Self) : \A y \in Xor(n, Self) : b =< y
  BY <1>1, LeastElement
<1>3. \A j \in 0..b - 1 : j \notin Xor(n, Self)
  BY <1>1, <1>2
<1>. QED  BY <1>1, <1>2, <1>3 DEF InBucket, Xor

\* A node is in one bucket only.
LEMMA BucketUnique ==
  ASSUME NEW n, NEW b \in Bit, NEW c \in Bit, InBucket(n, b), InBucket(n, c)
  PROVE  b = c
<1>1. b \in Int /\ c \in Int /\ b >= 0 /\ c >= 0  BY BitsAssumption DEF Bit
<1>2. ~(b < c) /\ ~(c < b)  BY <1>1 DEF InBucket, Xor
<1>. QED  BY <1>1, <1>2

-----------------------------------------------------------------------------
\* The nodes of the buckets in S.
Seen(S) == {n \in nodes : \E b \in S : InBucket(n, b)}

\* No bucket outside S comes before one in S: the walk may have visited just S.
Walked(S) ==
  \A b \in S, c \in Bit \ S :
    \/ b \in IdXor /\ (c \notin IdXor \/ b < c)
    \/ b \notin IdXor /\ c \notin IdXor /\ c < b

UpBits   == {b \in IdXor : b < bit}
DownBits == IdXor \cup {b \in Bit : b > bit}

\* The arguments and the list.
ArgsOK == /\ nodes \subseteq Key \ {Self} /\ id \in Key /\ k \in Nat /\ bit \in Bit
          /\ list \subseteq nodes /\ Cardinality(list) =< k /\ res \in Nat
          /\ pc \in {"up", "check", "down", "found", "count", "counted"}

\* The inductive invariant: while a loop goes on, the list is all nodes of the
\* buckets walked.
WalkInv ==
  /\ ArgsOK
  /\ pc = "up" => list = Seen(UpBits)
  /\ pc = "check" => /\ list \subseteq Seen(IdXor)
                     /\ Cardinality(list) < k => list = Seen(IdXor)
                     /\ Cardinality(list) >= k => AreNearest(list, nodes, k)
  /\ pc = "down" => list = Seen(DownBits)
  /\ pc = "found" => AreNearest(list, nodes, k)
  /\ pc = "count" => res = Least(Cardinality(Seen(UpBits)), MaxValue)
  /\ pc = "counted" => res = Least(Cardinality(Seen(IdXor)), MaxValue)

\* Keys, nodes and buckets are finite sets.
LEMMA FiniteSets ==
  ASSUME NEW S \in SUBSET Key
  PROVE  IsFiniteSet(S) /\ Cardinality(S) \in Nat
<1>1. IsFiniteSet(Bit)  BY BitsAssumption, FS_Interval DEF Bit
<1>2. IsFiniteSet(Key)  BY <1>1, FS_SUBSET DEF Key
<1>. QED  BY <1>2, FS_Subset, FS_CardinalityType

\* One more bucket adds its nodes, which are in no other bucket.
LEMMA SeenSets ==
  ASSUME nodes \subseteq Key, NEW S, NEW b
  PROVE  /\ Seen(S \cup {b}) = Seen(S) \cup BucketAt(b)
         /\ Seen(S) \subseteq nodes /\ BucketAt(b) \subseteq nodes
         /\ Seen({}) = {}
         /\ S \subseteq Bit /\ b \in Bit \ S => Seen(S) \cap BucketAt(b) = {}
<1>1. Seen(S \cup {b}) = Seen(S) \cup BucketAt(b)  BY DEF Seen, BucketAt
<1>2. ASSUME S \subseteq Bit, b \in Bit \ S, NEW n \in Seen(S) \cap BucketAt(b)
      PROVE  FALSE
  <2>1. PICK c \in S : InBucket(n, c)  BY <1>2 DEF Seen
  <2>2. InBucket(n, b)  BY <1>2 DEF BucketAt
  <2>. QED  BY <1>2, <2>1, <2>2, BucketUnique
<1>. QED  BY <1>1, <1>2 DEF Seen, BucketAt

\* The buckets walked so far come first in both loops.
LEMMA WalkedUp ==
  ASSUME id \in Key, bit \in Bit
  PROVE  /\ Walked(UpBits) /\ Walked(IdXor)
         /\ bit \in IdXor => Walked(UpBits \cup {bit})
         /\ Walked(DownBits) /\ Walked(DownBits \cup {bit}) /\ Walked(Bit)
         /\ UpBits \subseteq Bit /\ DownBits \subseteq Bit /\ IdXor \subseteq Bit
<1>1. /\ IdXor \subseteq Bit /\ bit \in Bit /\ Bit \subseteq Int
  BY SelfAssumption, BitsAssumption DEF IdXor, Xor, Bit, Key
<1>2. Walked(UpBits) /\ Walked(IdXor) /\ UpBits \subseteq Bit
  <2>1. ASSUME NEW b \in UpBits, NEW c \in Bit \ UpBits
        PROVE  b \in IdXor /\ (c \notin IdXor \/ b < c)
    <3>1. b \in IdXor /\ b < bit /\ b \in Int /\ c \in Int  BY <1>1, <2>1 DEF UpBits
    <3>2. c \in IdXor => ~(c < bit)  BY <2>1 DEF UpBits
    <3>. QED  BY <1>1, <3>1, <3>2
  <2>2. Walked(UpBits)  BY <2>1 DEF Walked
  <2>3. Walked(IdXor)  BY DEF Walked
  <2>. QED  BY <1>1, <2>2, <2>3 DEF UpBits
<1>3. ASSUME bit \in IdXor  PROVE Walked(UpBits \cup {bit})
  <2>. SUFFICES ASSUME NEW b \in UpBits \cup {bit}, NEW c \in Bit \ (UpBits \cup {bit})
                PROVE  b \in IdXor /\ (c \notin IdXor \/ b < c)
    BY DEF Walked
  <2>1. b \in IdXor /\ b =< bit /\ b \in Int /\ c \in Int  BY <1>1, <1>3 DEF UpBits
  <2>2. c \in IdXor => ~(c < bit) /\ c # bit  BY DEF UpBits
  <2>. QED  BY <1>1, <2>1, <2>2
<1>4. Walked(DownBits) /\ Walked(Bit) /\ DownBits \subseteq Bit
  <2>1. ASSUME NEW b \in DownBits, NEW c \in Bit \ DownBits
        PROVE  c \notin IdXor /\ (b \in IdXor \/ c < b)
    <3>1. c \notin IdXor /\ c \in Int /\ ~(c > bit)  BY <1>1, <2>1 DEF DownBits
    <3>2. b \in IdXor \/ (b \in Int /\ b > bit)  BY <1>1, <2>1 DEF DownBits
    <3>. QED  BY <1>1, <3>1, <3>2
  <2>2. Walked(DownBits)  BY <2>1 DEF Walked
  <2>3. Walked(Bit)  BY DEF Walked
  <2>. QED  BY <1>1, <2>2, <2>3 DEF DownBits
<1>5. Walked(DownBits \cup {bit})
  <2>. SUFFICES ASSUME NEW b \in DownBits \cup {bit}, NEW c \in Bit \ (DownBits \cup {bit})
                PROVE  c \notin IdXor /\ (b \in IdXor \/ c < b)
    BY DEF Walked
  <2>1. c \notin IdXor /\ c \in Int /\ c < bit  BY <1>1 DEF DownBits
  <2>2. b \in IdXor \/ (b \in Int /\ b >= bit)  BY <1>1 DEF DownBits
  <2>. QED  BY <1>1, <2>1, <2>2
<1>. QED  BY <1>1, <1>2, <1>3, <1>4, <1>5

\* A node of a bucket walked is nearer than one of a bucket not walked.
LEMMA WalkedAreNearer ==
  ASSUME ArgsOK, NEW S \in SUBSET Bit, Walked(S),
         NEW m \in Seen(S), NEW n \in nodes \ Seen(S)
  PROVE  Nearer(m, n)
<1>1. PICK b \in S : InBucket(m, b)  BY DEF Seen
<1>2. m \in Key /\ n \in Key /\ n # Self /\ id \in Key  BY DEF ArgsOK, Seen
<1>3. PICK c \in Bit : InBucket(n, c)  BY <1>2, BucketExists
<1>4. c \notin S  BY <1>3 DEF Seen
<1>. QED  BY <1>1, <1>2, <1>3, <1>4, BucketsOrdered DEF Walked

\* All of the walked buckets' nodes, if they are exactly as many as wanted.
LEMMA SeenAreNearest ==
  ASSUME ArgsOK, NEW S \in SUBSET Bit, Walked(S), NEW T, T = Seen(S),
         Cardinality(T) =< k, Cardinality(T) >= k \/ S = Bit
  PROVE  AreNearest(T, nodes, k)
<1>0. T \subseteq nodes  BY DEF Seen
<1>1. /\ IsFiniteSet(nodes) /\ Cardinality(nodes) \in Nat /\ Cardinality(T) \in Nat
      /\ Cardinality(T) =< Cardinality(nodes) /\ k \in Nat
  BY <1>0, FiniteSets, FS_Subset DEF ArgsOK
<1>2. \A m \in T, n \in nodes \ T : Nearer(m, n)
  BY WalkedAreNearer
<1>3. Cardinality(T) = Least(Cardinality(nodes), k)
  <2>1. CASE Cardinality(T) >= k  BY <1>1, <2>1 DEF Least
  <2>2. CASE S = Bit
    <3>1. T = nodes  BY <2>2, BucketExists DEF Seen, ArgsOK
    <3>. QED  BY <1>1, <3>1 DEF Least
  <2>. QED  BY <2>1, <2>2
<1>. QED  BY <1>0, <1>2, <1>3 DEF AreNearest

\* One bucket more: either all its nodes fit, or the list is complete.
LEMMA TakeOne ==
  ASSUME ArgsOK, UNCHANGED args, NEW S \in SUBSET Bit, NEW b \in Bit \ S,
         Walked(S), Walked(S \cup {b}), list = Seen(S), Take(b)
  PROVE  /\ list' \subseteq Seen(S \cup {b}) /\ list' \subseteq nodes
         /\ Cardinality(list') \in Nat /\ Cardinality(list') =< k
         /\ Cardinality(list') < k => list' = Seen(S \cup {b})
         /\ Cardinality(list') >= k => AreNearest(list', nodes, k)
<1>1. PICK T \in SUBSET BucketAt(b) :
        AreNearest(T, BucketAt(b), k - Cardinality(list)) /\ list' = list \cup T
  BY DEF Take
<1>2. /\ nodes \subseteq Key /\ k \in Nat /\ Cardinality(list) =< k
      /\ Seen(S \cup {b}) = Seen(S) \cup BucketAt(b)
      /\ Seen(S) \subseteq nodes /\ BucketAt(b) \subseteq nodes
      /\ Seen(S) \cap BucketAt(b) = {}
  BY SeenSets DEF ArgsOK
<1>3. /\ IsFiniteSet(list) /\ Cardinality(list) \in Nat
      /\ IsFiniteSet(T) /\ Cardinality(T) \in Nat
      /\ IsFiniteSet(BucketAt(b)) /\ Cardinality(BucketAt(b)) \in Nat
      /\ IsFiniteSet(nodes) /\ Cardinality(nodes) \in Nat
      /\ IsFiniteSet(list \cup T) /\ Cardinality(list \cup T) \in Nat
  BY <1>2, FiniteSets
<1>4. Cardinality(list \cup T) = Cardinality(list) + Cardinality(T)
  <2>1. list \cap T = {}  BY <1>2
  <2>2. Cardinality(list \cap T) = 0  BY <2>1, FS_EmptySet
  <2>3. Cardinality(list \cup T)
          = Cardinality(list) + Cardinality(T) - Cardinality(list \cap T)
    BY <1>3, FS_Union
  <2>. QED  BY <1>3, <2>2, <2>3
<1>5. Cardinality(T) = Least(Cardinality(BucketAt(b)), k - Cardinality(list))
  BY <1>1 DEF AreNearest
<1>6. Cardinality(list \cup T) =< k
  BY <1>2, <1>3, <1>4, <1>5 DEF Least
<1>7. Cardinality(list \cup T) < k => T = BucketAt(b)
  <2>1. Cardinality(list \cup T) < k => Cardinality(T) = Cardinality(BucketAt(b))
    BY <1>2, <1>3, <1>4, <1>5 DEF Least
  <2>. QED  BY <1>3, <2>1, FS_Subset
<1>8. ASSUME Cardinality(list \cup T) >= k
      PROVE  AreNearest(list \cup T, nodes, k)
  <2>1. list \cup T \subseteq nodes  BY <1>2
  <2>2. Cardinality(list \cup T) = Least(Cardinality(nodes), k)
    BY <1>2, <1>3, <1>6, <1>8, <2>1, FS_Subset DEF Least
  <2>3. ASSUME NEW m \in list \cup T, NEW n \in nodes \ (list \cup T)
        PROVE  Nearer(m, n)
    <3>1. CASE m \in list  BY <2>3, <3>1, WalkedAreNearer
    <3>2. CASE m \in T /\ n \in BucketAt(b)  BY <1>1, <2>3, <3>2 DEF AreNearest
    <3>3. CASE m \in T /\ n \notin BucketAt(b)
      <4>1. m \in Seen(S \cup {b}) /\ n \notin Seen(S \cup {b})
        BY <1>2, <2>3, <3>3
      <4>. QED  BY <2>3, <4>1, WalkedAreNearer
    <3>. QED  BY <2>3, <3>1, <3>2, <3>3
  <2>. QED  BY <2>1, <2>2, <2>3 DEF AreNearest
<1>. QED  BY <1>1, <1>2, <1>3, <1>6, <1>7, <1>8

\* What does not depend on the step: the arguments stay.
LEMMA Unchanging ==
  ASSUME UNCHANGED args
  PROVE  /\ \A S : Seen(S)' = Seen(S)
         /\ IdXor' = IdXor /\ MaxValue' = MaxValue
         /\ \A T, S, s : AreNearest(T, S, s)' <=> AreNearest(T, S, s)
BY DEF args, Seen, IdXor, MaxValue, AreNearest, Nearer, InBucket

\* Where a loop stands after one more step, and at its end.
LEMMA LoopBits ==
  ASSUME id \in Key, bit \in Bit
  PROVE  /\ bit \notin UpBits
         /\ bit \notin IdXor => bit \notin DownBits
         /\ bit = Bits - 1 => IdXor = IF bit \in IdXor THEN UpBits \cup {bit} ELSE UpBits
         /\ bit = 0 => Bit = DownBits \cup {bit}
         /\ bit # Bits - 1 => bit + 1 \in Bit
         /\ bit # 0 => bit - 1 \in Bit
         /\ Bits - 1 \in Bit
<1>1. IdXor \subseteq Bit  BY SelfAssumption, BitsAssumption DEF IdXor, Xor, Bit, Key
<1>2. bit \in Nat /\ bit =< Bits - 1 /\ Bits \in Nat \ {0}  BY BitsAssumption DEF Bit
<1>3. \A b \in Bit : b \in Nat /\ b =< Bits - 1  BY BitsAssumption DEF Bit
<1>4. ASSUME bit = Bits - 1
      PROVE  IdXor = IF bit \in IdXor THEN UpBits \cup {bit} ELSE UpBits
  <2>1. \A b \in IdXor : b # bit => b < bit  BY <1>1, <1>2, <1>3, <1>4
  <2>2. UpBits \subseteq IdXor /\ \A b \in IdXor : b # bit => b \in UpBits
    BY <2>1 DEF UpBits
  <2>. QED  BY <2>2 DEF UpBits
<1>5. ASSUME bit = 0  PROVE Bit = DownBits \cup {bit}
  <2>1. \A b \in Bit : b # bit => b > bit  BY <1>3, <1>5
  <2>2. DownBits \subseteq Bit /\ \A b \in Bit : b # bit => b \in DownBits
    BY <1>1, <2>1 DEF DownBits
  <2>. QED  BY <2>2
<1>. QED  BY <1>1, <1>2, <1>4, <1>5 DEF UpBits, DownBits, Bit

\* The sets of buckets walked after the loop variable moves on.
LEMMA NextBits ==
  ASSUME id \in Key, bit \in Bit, UNCHANGED args
  PROVE  /\ bit' = bit + 1 =>
              UpBits' = IF bit \in IdXor THEN UpBits \cup {bit} ELSE UpBits
         /\ bit' = bit - 1 =>
              DownBits' = IF bit \in IdXor THEN DownBits ELSE DownBits \cup {bit}
         /\ bit' = Bits - 1 => DownBits' = IdXor
         /\ bit' = 0 => UpBits' = {}
<1>1. IdXor \subseteq Bit /\ IdXor' = IdXor
  BY SelfAssumption, BitsAssumption, Unchanging DEF IdXor, Xor, Bit, Key
<1>2. bit \in Nat /\ Bits \in Nat \ {0} /\ \A b \in Bit : b \in Nat /\ b =< Bits - 1
  BY BitsAssumption DEF Bit
<1>3. ASSUME bit' = bit + 1
      PROVE  UpBits' = IF bit \in IdXor THEN UpBits \cup {bit} ELSE UpBits
  <2>1. \A b \in IdXor : b < bit + 1 <=> b < bit \/ b = bit  BY <1>1, <1>2
  <2>2. \A b : b \in UpBits' <=> b \in IdXor /\ b < bit + 1
    BY <1>1, <1>3 DEF UpBits
  <2>. QED  BY <2>1, <2>2 DEF UpBits
<1>4. ASSUME bit' = bit - 1
      PROVE  DownBits' = IF bit \in IdXor THEN DownBits ELSE DownBits \cup {bit}
  <2>1. \A b \in Bit : b > bit - 1 <=> b > bit \/ b = bit  BY <1>2
  <2>2. \A b : b \in DownBits' <=> b \in IdXor \/ (b \in Bit /\ b > bit - 1)
    BY <1>1, <1>4 DEF DownBits, Bit
  <2>. QED  BY <2>1, <2>2 DEF DownBits
<1>5. ASSUME bit' = Bits - 1  PROVE DownBits' = IdXor
  <2>1. \A b \in Bit : ~(b > Bits - 1)  BY <1>2
  <2>2. \A b : b \in DownBits' <=> b \in IdXor \/ (b \in Bit /\ b > Bits - 1)
    BY <1>1, <1>5 DEF DownBits, Bit
  <2>. QED  BY <2>1, <2>2
<1>6. ASSUME bit' = 0  PROVE UpBits' = {}
  <2>1. \A b \in IdXor : ~(b < 0)  BY <1>1, <1>2
  <2>. QED  BY <1>1, <1>6, <2>1 DEF UpBits
<1>. QED  BY <1>3, <1>4, <1>5, <1>6

\* The invariant holds before the first bucket is looked at.
LEMMA WalkInitInv == WalkInit => WalkInv
<1>. SUFFICES ASSUME WalkInit PROVE WalkInv
  OBVIOUS
<1>1. /\ nodes \subseteq Key \ {Self} /\ id \in Key /\ k \in Nat /\ bit = 0 /\ 0 \in Bit
      /\ list = {} /\ res = 0 /\ pc \in {"up", "count"}
  BY BitsAssumption, MaxArgAssumption DEF WalkInit, Bit
<1>2. UpBits = {}
  <2>1. IdXor \subseteq Nat
    BY <1>1, SelfAssumption, BitsAssumption DEF IdXor, Xor, Bit, Key
  <2>2. \A b \in IdXor : ~(b < bit)  BY <1>1, <2>1
  <2>. QED  BY <2>2 DEF UpBits
<1>3. Seen(UpBits) = {}  BY <1>2 DEF Seen
<1>4. Cardinality({}) = 0  BY FS_EmptySet
<1>5. ArgsOK  BY <1>1, <1>4 DEF ArgsOK
<1>6. res = Least(Cardinality(Seen(UpBits)), MaxValue)
  BY <1>1, <1>3, <1>4, SlotsAssumption DEF Least, MaxValue
<1>. QED  BY <1>1, <1>3, <1>5, <1>6 DEF WalkInv

\* The first loop.
LEMMA UpInv == ASSUME WalkInv, Up PROVE WalkInv'
<1>1. /\ ArgsOK /\ list = Seen(UpBits) /\ id \in Key /\ bit \in Bit
      /\ UNCHANGED args /\ res' = res
      /\ UpBits \subseteq Bit /\ Walked(UpBits) /\ k \in Nat /\ Cardinality(list) =< k
      /\ k' = k /\ nodes' = nodes /\ id' = id
  BY WalkedUp DEF WalkInv, Up, ArgsOK, args
<1>2. CASE bit \in IdXor
  <2>1. /\ list' \subseteq Seen(UpBits \cup {bit}) /\ list' \subseteq nodes
        /\ Cardinality(list') \in Nat /\ Cardinality(list') =< k
        /\ Cardinality(list') < k => list' = Seen(UpBits \cup {bit})
        /\ Cardinality(list') >= k => AreNearest(list', nodes, k)
    BY <1>1, <1>2, LoopBits, WalkedUp, TakeOne DEF Up
  <2>2. CASE Cardinality(list') >= k \/ bit = Bits - 1
    <3>1. pc' = "check" /\ bit' = bit  BY <1>2, <2>2 DEF Up
    <3>2. list' \subseteq Seen(IdXor)
      BY <1>1, <1>2, <2>1 DEF Seen, UpBits
    <3>3. Cardinality(list') < k => list' = Seen(IdXor)
      BY <1>1, <1>2, <2>1, <2>2, LoopBits
    <3>4. ArgsOK'  BY <1>1, <2>1, <3>1 DEF ArgsOK
    <3>. QED  BY <1>1, <2>1, <3>1, <3>2, <3>3, <3>4, Unchanging DEF WalkInv
  <2>3. CASE ~(Cardinality(list') >= k \/ bit = Bits - 1)
    <3>1. pc' = "up" /\ bit' = bit + 1  BY <1>2, <2>3 DEF Up
    <3>2. list' = Seen(UpBits \cup {bit})  BY <1>1, <2>1, <2>3
    <3>3. UpBits' = UpBits \cup {bit}  BY <1>1, <1>2, <3>1, NextBits
    <3>4. ArgsOK'  BY <1>1, <2>1, <2>3, <3>1, LoopBits DEF ArgsOK
    <3>5. list' = Seen(UpBits)'  BY <1>1, <3>2, <3>3 DEF Seen, InBucket
    <3>. QED  BY <3>1, <3>4, <3>5 DEF WalkInv
  <2>. QED  BY <2>2, <2>3
<1>3. CASE bit \notin IdXor
  <2>1. list' = list  BY <1>3 DEF Up
  <2>2. CASE bit = Bits - 1
    <3>1. pc' = "check" /\ bit' = bit  BY <2>2 DEF Up
    <3>2. IdXor = UpBits  BY <1>1, <1>3, <2>2, LoopBits
    <3>3. Cardinality(list) >= k => AreNearest(list, nodes, k)
      BY <1>1, SeenAreNearest
    <3>4. ArgsOK'  BY <1>1, <2>1, <3>1 DEF ArgsOK
    <3>. QED  BY <1>1, <2>1, <3>1, <3>2, <3>3, <3>4, Unchanging DEF WalkInv
  <2>3. CASE bit # Bits - 1
    <3>1. pc' = "up" /\ bit' = bit + 1  BY <1>3, <2>3 DEF Up, WalkInv
    <3>2. UpBits' = UpBits  BY <1>1, <1>3, <3>1, NextBits
    <3>3. ArgsOK'  BY <1>1, <2>1, <2>3, <3>1, LoopBits DEF ArgsOK
    <3>4. list' = Seen(UpBits)'  BY <1>1, <2>1, <3>2 DEF Seen, InBucket
    <3>. QED  BY <3>1, <3>3, <3>4 DEF WalkInv
  <2>. QED  BY <2>2, <2>3
<1>. QED  BY <1>2, <1>3

\* Between the loops.
LEMMA TurnInv == ASSUME WalkInv, Turn PROVE WalkInv'
<1>1. /\ ArgsOK /\ id \in Key /\ bit \in Bit /\ pc = "check"
      /\ UNCHANGED args /\ res' = res /\ list' = list
      /\ k' = k /\ nodes' = nodes /\ id' = id
  BY DEF WalkInv, Turn, ArgsOK, args
<1>2. CASE Cardinality(list) < k
  <2>1. pc' = "down" /\ bit' = Bits - 1 /\ list = Seen(IdXor)
    BY <1>1, <1>2 DEF Turn, WalkInv
  <2>2. DownBits' = IdXor  BY <1>1, <2>1, NextBits
  <2>3. list' = Seen(DownBits)'  BY <1>1, <2>1, <2>2 DEF Seen, InBucket
  <2>4. ArgsOK'  BY <1>1, <2>1, LoopBits DEF ArgsOK
  <2>. QED  BY <2>1, <2>3, <2>4 DEF WalkInv
<1>3. CASE ~(Cardinality(list) < k)
  <2>1. pc' = "found" /\ bit' = bit  BY <1>1, <1>3 DEF Turn
  <2>2. Cardinality(list) \in Nat /\ k \in Nat
    BY <1>1, FiniteSets DEF ArgsOK
  <2>3. AreNearest(list, nodes, k)  BY <1>1, <1>3, <2>2 DEF WalkInv
  <2>4. ArgsOK'  BY <1>1, <2>1 DEF ArgsOK
  <2>. QED  BY <1>1, <2>1, <2>3, <2>4, Unchanging DEF WalkInv
<1>. QED  BY <1>2, <1>3

\* The second loop.
LEMMA DownInv == ASSUME WalkInv, Down PROVE WalkInv'
<1>1. /\ ArgsOK /\ list = Seen(DownBits) /\ id \in Key /\ bit \in Bit
      /\ UNCHANGED args /\ res' = res
      /\ DownBits \subseteq Bit /\ Walked(DownBits) /\ k \in Nat
      /\ Cardinality(list) =< k
      /\ k' = k /\ nodes' = nodes /\ id' = id
  BY WalkedUp DEF WalkInv, Down, ArgsOK, args
<1>2. CASE bit \notin IdXor
  <2>1. /\ list' \subseteq nodes
        /\ Cardinality(list') \in Nat /\ Cardinality(list') =< k
        /\ Cardinality(list') < k => list' = Seen(DownBits \cup {bit})
        /\ Cardinality(list') >= k => AreNearest(list', nodes, k)
    BY <1>1, <1>2, LoopBits, WalkedUp, TakeOne DEF Down
  <2>2. CASE Cardinality(list') >= k \/ bit = 0
    <3>1. pc' = "found" /\ bit' = bit  BY <1>2, <2>2 DEF Down
    <3>2. ASSUME Cardinality(list') < k  PROVE AreNearest(list', nodes, k)
      <4>1. list' = Seen(Bit)
        <5>1. bit = 0 /\ list' = Seen(DownBits \cup {bit})  BY <1>1, <2>1, <2>2, <3>2
        <5>2. Bit = DownBits \cup {bit}  BY <1>1, <5>1, LoopBits
        <5>. QED  BY <5>1, <5>2
      <4>2. Walked(Bit)  BY <1>1, WalkedUp
      <4>. QED  BY <1>1, <2>1, <4>1, <4>2, SeenAreNearest
    <3>3. AreNearest(list', nodes, k)  BY <1>1, <2>1, <3>2
    <3>4. ArgsOK'  BY <1>1, <2>1, <3>1 DEF ArgsOK
    <3>5. AreNearest(list, nodes, k)'
      BY <1>1, <3>3 DEF AreNearest, Nearer
    <3>. QED  BY <3>1, <3>4, <3>5 DEF WalkInv
  <2>3. CASE ~(Cardinality(list') >= k \/ bit = 0)
    <3>1. pc' = "down" /\ bit' = bit - 1  BY <1>2, <2>3 DEF Down
    <3>2. list' = Seen(DownBits \cup {bit})  BY <1>1, <2>1, <2>3
    <3>3. DownBits' = DownBits \cup {bit}  BY <1>1, <1>2, <3>1, NextBits
    <3>4. ArgsOK'  BY <1>1, <2>1, <2>3, <3>1, LoopBits DEF ArgsOK
    <3>5. list' = Seen(DownBits)'  BY <1>1, <3>2, <3>3 DEF Seen, InBucket
    <3>. QED  BY <3>1, <3>4, <3>5 DEF WalkInv
  <2>. QED  BY <2>2, <2>3
<1>3. CASE bit \in IdXor
  <2>1. list' = list  BY <1>3 DEF Down
  <2>2. CASE bit = 0
    <3>1. pc' = "found" /\ bit' = bit  BY <2>2 DEF Down
    <3>2. Bit = DownBits  BY <1>1, <1>3, <2>2, LoopBits DEF DownBits
    <3>3. AreNearest(list, nodes, k)  BY <1>1, <3>2, SeenAreNearest
    <3>4. ArgsOK'  BY <1>1, <2>1, <3>1 DEF ArgsOK
    <3>5. AreNearest(list, nodes, k)'
      BY <1>1, <2>1, <3>3 DEF AreNearest, Nearer
    <3>. QED  BY <3>1, <3>4, <3>5 DEF WalkInv
  <2>3. CASE bit # 0
    <3>1. pc' = "down" /\ bit' = bit - 1  BY <1>3, <2>3 DEF Down, WalkInv
    <3>2. DownBits' = DownBits  BY <1>1, <1>3, <3>1, NextBits
    <3>3. ArgsOK'  BY <1>1, <2>1, <2>3, <3>1, LoopBits DEF ArgsOK
    <3>4. list' = Seen(DownBits)'  BY <1>1, <2>1, <3>2 DEF Seen, InBucket
    <3>. QED  BY <3>1, <3>3, <3>4 DEF WalkInv
  <2>. QED  BY <2>2, <2>3
<1>. QED  BY <1>2, <1>3

\* The loop of distance.
LEMMA CountInv == ASSUME WalkInv, Count PROVE WalkInv'
<1>1. /\ ArgsOK /\ res = Least(Cardinality(Seen(UpBits)), MaxValue)
      /\ id \in Key /\ bit \in Bit /\ nodes \subseteq Key
      /\ UNCHANGED args /\ list' = list /\ MaxValue \in Nat /\ res \in Nat
      /\ UpBits \subseteq Bit /\ bit \notin UpBits /\ IdXor \subseteq Bit
      /\ k' = k /\ nodes' = nodes /\ id' = id
  BY WalkedUp, LoopBits, SlotsAssumption DEF WalkInv, Count, ArgsOK, args, MaxValue
<1>2. ASSUME NEW S, Seen(S) \subseteq nodes
      PROVE  IsFiniteSet(Seen(S)) /\ Cardinality(Seen(S)) \in Nat
  BY <1>1, <1>2, FiniteSets
<1>3. \A S : Seen(S) \subseteq nodes  BY DEF Seen
<1>4. DEFINE next == IF bit \in IdXor THEN UpBits \cup {bit} ELSE UpBits
<1>5. res' = Least(Cardinality(Seen(next)), MaxValue)
  <2>1. CASE bit \in IdXor
    <3>1. /\ Seen(UpBits \cup {bit}) = Seen(UpBits) \cup BucketAt(bit)
          /\ Seen(UpBits) \cap BucketAt(bit) = {} /\ BucketAt(bit) \subseteq nodes
      BY <1>1, SeenSets
    <3>2. /\ IsFiniteSet(Seen(UpBits)) /\ Cardinality(Seen(UpBits)) \in Nat
          /\ IsFiniteSet(BucketAt(bit)) /\ Cardinality(BucketAt(bit)) \in Nat
      BY <1>1, <1>2, <1>3, <3>1, FiniteSets
    <3>3. Cardinality(Seen(UpBits) \cap BucketAt(bit)) = 0  BY <3>1, FS_EmptySet
    <3>4. Cardinality(Seen(UpBits) \cup BucketAt(bit))
            = Cardinality(Seen(UpBits)) + Cardinality(BucketAt(bit))
              - Cardinality(Seen(UpBits) \cap BucketAt(bit))
      BY <3>2, FS_Union
    <3>5. res' = Least(res + Cardinality(BucketAt(bit)), MaxValue)
      BY <2>1 DEF Count
    <3>6. \A c, d, m \in Nat : Least(Least(c, m) + d, m) = Least(c + d, m)
      BY DEF Least
    <3>7. Cardinality(Seen(next)) = Cardinality(Seen(UpBits)) + Cardinality(BucketAt(bit))
      <4>1. next = UpBits \cup {bit}  BY <2>1
      <4>. HIDE DEF next
      <4>2. Seen(next) = Seen(UpBits) \cup BucketAt(bit)  BY <3>1, <4>1
      <4>3. Cardinality(Seen(next)) = Cardinality(Seen(UpBits) \cup BucketAt(bit))
        BY <4>2
      <4>. QED  BY <3>2, <3>3, <3>4, <4>3
    <3>. HIDE DEF next
    <3>. QED  BY <1>1, <3>2, <3>5, <3>6, <3>7
  <2>2. CASE bit \notin IdXor
    BY <1>1, <2>2 DEF Count
  <2>. QED  BY <2>1, <2>2
<1>6. res' \in Nat
  BY <1>1, <1>2, <1>3, <1>5 DEF Least
<1>7. next \subseteq IdXor /\ (bit = Bits - 1 => next = IdXor)
  BY <1>1, LoopBits DEF UpBits
<1>. HIDE DEF next
<1>8. CASE (bit \in IdXor /\ res' = MaxValue) \/ bit = Bits - 1
  <2>1. pc' = "counted" /\ bit' = bit  BY <1>8 DEF Count
  <2>2. res' = Least(Cardinality(Seen(IdXor)), MaxValue)
    <3>1. CASE bit = Bits - 1  BY <1>5, <1>7, <3>1
    <3>2. CASE res' = MaxValue
      <4>1. Seen(next) \subseteq Seen(IdXor)  BY <1>7 DEF Seen
      <4>2. Cardinality(Seen(next)) =< Cardinality(Seen(IdXor))
        BY <1>2, <1>3, <4>1, FS_Subset
      <4>. QED  BY <1>1, <1>2, <1>3, <1>5, <3>2, <4>2 DEF Least
    <3>. QED  BY <1>8, <3>1, <3>2
  <2>3. ArgsOK'  BY <1>1, <1>6, <2>1 DEF ArgsOK
  <2>4. Seen(IdXor)' = Seen(IdXor) /\ MaxValue' = MaxValue
    BY <1>1, Unchanging DEF Seen, InBucket
  <2>. QED  BY <2>1, <2>2, <2>3, <2>4 DEF WalkInv, Least
<1>9. CASE ~((bit \in IdXor /\ res' = MaxValue) \/ bit = Bits - 1)
  <2>1. pc' = "count" /\ bit' = bit + 1  BY <1>9 DEF Count
  <2>2. UpBits' = next  BY <1>1, <2>1, NextBits DEF next
  <2>3. Seen(UpBits)' = Seen(next) /\ MaxValue' = MaxValue
    BY <1>1, <2>2, Unchanging DEF Seen, InBucket
  <2>4. ArgsOK'  BY <1>1, <1>6, <1>9, <2>1, LoopBits DEF ArgsOK
  <2>. QED  BY <1>5, <2>1, <2>3, <2>4 DEF WalkInv, Least
<1>. QED  BY <1>8, <1>9

\* The nodes of the first loop's buckets are those nearer than this node.
LEMMA SeenAreNearer ==
  ASSUME ArgsOK
  PROVE  Seen(IdXor) = {n \in nodes : Nearer(n, Self)}
<1>1. ASSUME NEW n \in nodes, NEW b \in Bit, InBucket(n, b)
      PROVE  Nearer(n, Self) <=> b \in IdXor
  <2>1. /\ n \in Key /\ id \in Key /\ b \in Int /\ b >= 0 /\ IdXor \subseteq Int
    BY SelfAssumption, BitsAssumption DEF ArgsOK, Bit, Key, IdXor, Xor
  <2>2. /\ \A j \in 0..b - 1 : j \in Xor(n, id) <=> j \in IdXor
        /\ b \in Xor(n, id) <=> b \notin IdXor
    BY <1>1, <2>1, BucketDistance
  <2>3. Xor(Self, id) = IdXor /\ \A i \in IdXor : i >= 0
    BY <2>1, SelfAssumption, BitsAssumption DEF Xor, IdXor, Key, Bit
  <2>4. CASE b \in IdXor
    BY <2>1, <2>2, <2>3, <2>4 DEF Nearer, Less
  <2>5. ASSUME b \notin IdXor, NEW i \in IdXor \ Xor(n, id),
               \A j \in 0..i - 1 : j \in Xor(n, id) <=> j \in IdXor
        PROVE  FALSE
    <3>1. ~(i < b)  BY <2>1, <2>2, <2>3, <2>5
    <3>2. ~(b < i)  BY <2>1, <2>2, <2>5
    <3>. QED  BY <2>1, <2>5, <3>1, <3>2
  <2>. QED  BY <2>3, <2>4, <2>5 DEF Nearer, Less
<1>2. \A n \in nodes : \E b \in Bit : InBucket(n, b)
  BY BucketExists DEF ArgsOK
<1>3. IdXor \subseteq Bit
  BY SelfAssumption, BitsAssumption DEF ArgsOK, IdXor, Xor, Key, Bit
<1>. QED  BY <1>1, <1>2, <1>3 DEF Seen

\* Every step of the walks preserves the invariant.
LEMMA WalkStepInv == ASSUME WalkInv, [WalkNext]_walkVars PROVE WalkInv'
<1>1. CASE UNCHANGED walkVars
  <2>1. UNCHANGED args /\ bit' = bit /\ pc' = pc /\ list' = list /\ res' = res
    BY <1>1 DEF walkVars
  <2>2. /\ \A S : Seen(S)' = Seen(S)
        /\ IdXor' = IdXor /\ MaxValue' = MaxValue
        /\ \A T, S, s : AreNearest(T, S, s)' <=> AreNearest(T, S, s)
    BY <2>1, Unchanging
  <2>3. ArgsOK'  BY <2>1 DEF WalkInv, ArgsOK, args
  <2>4. UpBits' = UpBits /\ DownBits' = DownBits  BY <2>1, <2>2 DEF UpBits, DownBits
  <2>. QED  BY <2>1, <2>3, <2>4 DEF WalkInv, Seen, InBucket, AreNearest, Nearer, args,
                                     Least, MaxValue, IdXor
<1>. QED  BY <1>1, UpInv, TurnInv, DownInv, CountInv DEF WalkNext

\* The inductive invariant holds throughout.
THEOREM RoutingInvariant == WalkSpec => []WalkInv
BY WalkInitInv, WalkStepInv, PTL DEF WalkSpec

\* Types, and the second CHECK: never more than k nodes are returned.
THEOREM RoutingTypes == WalkSpec => []WalkTypes
<1>1. WalkInv => WalkTypes  BY DEF WalkInv, ArgsOK, WalkTypes
<1>. QED  BY <1>1, RoutingInvariant, PTL

\* get_nearest_nodes returns the nearest nodes, for keys of any length.
THEOREM NearestAlwaysFound == WalkSpec => []NearestFound
<1>1. WalkInv => NearestFound  BY DEF WalkInv, NearestFound
<1>. QED  BY <1>1, RoutingInvariant, PTL

\* The first CHECK of get_nearest_nodes holds.
THEOREM FirstAlwaysNearer == WalkSpec => []FirstAreNearer
<1>1. WalkInv => FirstAreNearer
  BY SeenAreNearer DEF WalkInv, FirstAreNearer
<1>. QED  BY <1>1, RoutingInvariant, PTL

\* distance counts the nearer nodes, up to its maximum.
THEOREM DistanceAlwaysCounts == WalkSpec => []DistanceCounts
<1>1. WalkInv => DistanceCounts
  BY SeenAreNearer DEF WalkInv, DistanceCounts
<1>. QED  BY <1>1, RoutingInvariant, PTL
=============================================================================
