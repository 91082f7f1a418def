------------------------- MODULE DhtPublishedProofs --------------------------
(***************************************************************************)
(* The values a node keeps, of others and of its own, for any number of    *)
(* keys and any times.  Two arguments make up the invariant of the former: *)
(* a key that is not held was dropped when all that was accepted for it    *)
(* had expired (Remembered), and the keys the sweep has come to since it   *)
(* came to k lie on the way from k to where it is (OnTheWay).  The second  *)
(* is also that of the republication (TurnsOnTheWay).                      *)
(***************************************************************************)
EXTENDS DhtValues, DhtOwnValues, OverlayNodes, ClosestProofs

\* What was accepted for a key is held, has expired, or is forgotten.
Remembered ==
  \A k \in Key : Rule[k] # "anybody" =>
    IF k \in Held THEN values[k] = best[k] ELSE best[k] = 0 \/ best[k] < now

\* The keys after k up to last, in the cyclic order.
Way(k, last) ==
  IF last >= k THEN {j \in Key : k < j /\ j =< last}
               ELSE {j \in Key : k < j \/ j =< last}

OnTheWay == \A k \in Held : passed[k] \subseteq Way(k, lastCheck)

Inv == TypeOK /\ Remembered /\ OnTheWay

\* Keys are naturals, and so are times.
LEMMA Numbers ==
  /\ \A k \in Key : k \in Nat /\ k # 0
  /\ TypeOK => /\ now \in Nat /\ lastCheck \in Nat
               /\ \A k \in Held : k \in Key /\ values[k] \in Ttl /\ values[k] \in Nat
               /\ \A k \in Key : best[k] \in Nat
<1>1. \A k \in Key : k \in Nat /\ k # 0  BY KeyAssumption
<1>2. ASSUME TypeOK
      PROVE  /\ now \in Nat /\ lastCheck \in Nat
             /\ \A k \in Held : k \in Key /\ values[k] \in Ttl /\ values[k] \in Nat
             /\ \A k \in Key : best[k] \in Nat
  <2>1. now \in Nat /\ lastCheck \in Nat
    BY <1>1, <1>2, TimeAssumption DEF TypeOK
  <2>2. \A k \in Held : k \in Key /\ values[k] \in Ttl /\ values[k] \in Nat
    BY <1>2, TimeAssumption DEF TypeOK
  <2>3. \A k \in Key : best[k] \in Nat
    <3>1. Ttl \cup {0} \subseteq Nat  BY TimeAssumption
    <3>2. best \in [Key -> Ttl \cup {0}]  BY <1>2 DEF TypeOK
    <3>. QED  BY <3>1, <3>2
  <2>. QED  BY <2>1, <2>2, <2>3
<1>. QED  BY <1>1, <1>2

\* The cyclic successor of a key: the least one after it, or the least of all.
LEMMA SuccessorIsNext ==
  ASSUME NEW S \in SUBSET Nat, S # {}, NEW last \in Nat
  PROVE  /\ Successor(S, last) \in S
         /\ IF \E j \in S : j > last
            THEN /\ Successor(S, last) > last
                 /\ \A j \in S : j > last => Successor(S, last) =< j
            ELSE \A j \in S : Successor(S, last) =< j
<1>. DEFINE T == {j \in S : j > last}
<1>1. CASE T # {}
  <2>1. PICK k \in T : \A j \in T : k =< j  BY <1>1, LeastElement
  <2>2. k \in S /\ k > last /\ \A j \in S : j > last => k =< j  BY <2>1
  <2>3. \E j \in S : j > last  BY <2>2
  <2>. HIDE DEF T
  <2>. QED  BY <2>2, <2>3 DEF Successor
<1>2. CASE T = {}
  <2>1. PICK k \in S : \A j \in S : k =< j  BY LeastElement
  <2>2. ~ \E j \in S : j > last  BY <1>2
  <2>. HIDE DEF T
  <2>. QED  BY <2>1, <2>2 DEF Successor
<1>. QED  BY <1>1, <1>2

\* The step from last to its successor among the keys of S passes no key of S, and
\* the way from such a key gets longer by the successor, which was not on it.
LEMMA WayGrows ==
  ASSUME NEW S \in SUBSET Key, NEW last \in Nat, NEW k \in S, Successor(S, last) # k
  PROVE  /\ Successor(S, last) \in S /\ Successor(S, last) \notin Way(k, last)
         /\ Way(k, last) \cup {Successor(S, last)} \subseteq Way(k, Successor(S, last))
<1>1. S \in SUBSET Nat /\ S # {} /\ Key \subseteq Nat /\ k \in Nat
  BY Numbers
<1>2. PICK n \in Nat : n = Successor(S, last)
  BY <1>1, SuccessorIsNext
<1>3. /\ n \in S /\ n \in Key /\ n # k
      /\ IF \E j \in S : j > last
         THEN n > last /\ \A j \in S : j > last => n =< j
         ELSE \A j \in S : n =< j
  BY <1>1, <1>2, SuccessorIsNext
<1>. DEFINE Between(j, l) == IF l >= k THEN k < j /\ j =< l ELSE k < j \/ j =< l
<1>0. \A j, l : j \in Way(k, l) <=> j \in Key /\ Between(j, l)
  BY DEF Way
<1>4. CASE last >= k
  <2>1. n > last \/ n < k
    BY <1>1, <1>3
  <2>2. \A j \in Key : Between(j, last) \/ j = n => Between(j, n)
    BY <1>1, <1>3, <1>4, <2>1
  <2>3. ~Between(n, last)
    BY <1>1, <1>3, <1>4, <2>1
  <2>. HIDE DEF Between
  <2>. QED  BY <1>0, <1>2, <1>3, <2>2, <2>3
<1>5. CASE k > last
  <2>1. n > last /\ n =< k
    BY <1>1, <1>3, <1>5
  <2>2. \A j \in Key : Between(j, last) \/ j = n => Between(j, n)
    BY <1>1, <1>3, <1>5, <2>1
  <2>3. ~Between(n, last)
    BY <1>1, <1>3, <1>5, <2>1
  <2>. HIDE DEF Between
  <2>. QED  BY <1>0, <1>2, <1>3, <2>2, <2>3
<1>. QED  BY <1>1, <1>4, <1>5

\* The invariant holds when the member is created.
LEMMA InitInv == Init => Inv
<1>. SUFFICES ASSUME Init PROVE Inv  OBVIOUS
<1>1. Held = {}  BY DEF Init, Held
<1>2. TypeOK  BY <1>1, TimeAssumption DEF Init, TypeOK
<1>. QED  BY <1>1, <1>2 DEF Init, Inv, Remembered, OnTheWay

\* A value that is accepted: if the key is new, all before it have expired.
LEMMA StoreInInv == ASSUME Inv, NEW k \in Key, NEW t \in Ttl, StoreIn(k, t) PROVE Inv'
<1>1. /\ Held' = Held \cup {k} /\ t \in Nat /\ ~(t < now)
      /\ values'[k] = IF k \in Held THEN Merged(k, t) ELSE t
      /\ \A j \in Held : j # k => values'[j] = values[j]
      /\ UNCHANGED <<now, lastCheck, dist, sent>>
  BY TimeAssumption DEF StoreIn, Held, Expired
<1>2. /\ best' = [best EXCEPT ![k] = Greatest(best[k], t)]
      /\ passed' = [passed EXCEPT ![k] = IF k \in Held THEN passed[k] ELSE {}]
  BY DEF StoreIn
<1>3. TypeOK'
  <2>1. Greatest(best[k], t) \in Ttl \cup {0}  BY DEF Inv, TypeOK, Greatest
  <2>2. values'[k] \in Ttl  BY <1>1 DEF Inv, TypeOK, Merged, Greatest
  <2>3. values' \in [Held' -> Ttl]
    <3>1. values' = [j \in Held' |-> values'[j]]  BY <1>1 DEF StoreIn
    <3>2. \A j \in Held' : values'[j] \in Ttl  BY <1>1, <2>2 DEF Inv, TypeOK
    <3>. QED  BY <3>1, <3>2
  <2>. QED  BY <1>1, <1>2, <2>1, <2>3 DEF Inv, TypeOK
<1>4. Remembered'
  <2>. SUFFICES ASSUME NEW j \in Key, Rule[j] # "anybody"
                PROVE  IF j \in Held' THEN values'[j] = best'[j]
                       ELSE best'[j] = 0 \/ best'[j] < now'
    BY DEF Remembered
  <2>1. IF j \in Held THEN values[j] = best[j] ELSE best[j] = 0 \/ best[j] < now
    BY DEF Inv, Remembered
  <2>2. best[j] \in Nat /\ now \in Nat  BY Numbers DEF Inv
  <2>3. CASE j # k
    <3>1. best'[j] = best[j]  BY <1>2, <2>3 DEF Inv, TypeOK
    <3>. QED  BY <1>1, <2>1, <2>3, <3>1
  <2>4. CASE j = k
    <3>1. best'[j] = Greatest(best[j], t)  BY <1>2, <2>4 DEF Inv, TypeOK
    <3>. QED  BY <1>1, <2>1, <2>2, <2>4, <3>1 DEF Merged, Greatest
  <2>. QED  BY <2>3, <2>4
<1>5. OnTheWay'
  BY <1>1, <1>2 DEF Inv, TypeOK, OnTheWay, Way
<1>. QED  BY <1>3, <1>4, <1>5 DEF Inv

\* A key that leaves because its value has expired, or is forgotten for being
\* far away, is remembered as either.
LEMMA Dropped ==
  ASSUME Inv, NEW k \in Held, values' = Without(k), UNCHANGED now,
         best' = [best EXCEPT ![k] = IF Expired(values[k]) THEN best[k] ELSE 0]
  PROVE  /\ Held' = Held \ {k} /\ values' \in [Held' -> Ttl]
         /\ best' \in [Key -> Ttl \cup {0}]
         /\ Remembered'
<1>1. Held' = Held \ {k} /\ \A j \in Held' : values'[j] = values[j]
  BY DEF Held, Without
<1>2. values' \in [Held' -> Ttl] /\ best' \in [Key -> Ttl \cup {0}]
  BY <1>1 DEF Without, Inv, TypeOK
<1>3. Remembered'
  <2>. SUFFICES ASSUME NEW j \in Key, Rule[j] # "anybody"
                PROVE  IF j \in Held' THEN values'[j] = best'[j]
                       ELSE best'[j] = 0 \/ best'[j] < now'
    BY DEF Remembered
  <2>1. IF j \in Held THEN values[j] = best[j] ELSE best[j] = 0 \/ best[j] < now
    BY DEF Inv, Remembered
  <2>2. best'[j] = IF j = k /\ ~Expired(values[k]) THEN 0 ELSE best[j]
    BY DEF Inv, TypeOK
  <2>. QED  BY <1>1, <2>1, <2>2 DEF Expired
<1>. QED  BY <1>1, <1>2, <1>3

\* The sweep comes to the next key, drops it or keeps it.
LEMMA SweepInv == ASSUME Inv, Sweep PROVE Inv'
<1>. DEFINE n == NextKey
<1>1. Held # {} /\ TypeOK  BY DEF Sweep, Inv
<1>2. n \in Held /\ n \in Key /\ n \in Nat
  <2>1. Held \in SUBSET Nat /\ lastCheck \in Nat  BY <1>1, Numbers
  <2>2. n \in Held  BY <1>1, <2>1, SuccessorIsNext DEF NextKey
  <2>. QED  BY <1>1, <2>2, Numbers
<1>3. /\ lastCheck' = n /\ UNCHANGED <<now, dist>>
      /\ values' = IF Drop(n) THEN Without(n) ELSE values
      /\ sent' = IF Republish(n) THEN Sent(sent, n, values[n]) ELSE sent
      /\ best' = [best EXCEPT ![n] = IF Drop(n) /\ ~Expired(values[n]) THEN 0 ELSE best[n]]
      /\ passed' = [j \in Key |-> IF j = n THEN {} ELSE passed[j] \cup {n}]
  BY DEF Sweep
<1>. HIDE DEF n
<1>4. /\ Held' \subseteq Held /\ values' \in [Held' -> Ttl]
      /\ best' \in [Key -> Ttl \cup {0}] /\ Remembered'
  <2>1. CASE Drop(n)
    <3>1. best' = [best EXCEPT ![n] = IF Expired(values[n]) THEN best[n] ELSE 0]
      BY <1>3, <2>1
    <3>. QED  BY <1>2, <1>3, <2>1, <3>1, Dropped
  <2>2. CASE ~Drop(n)
    <3>1. best' = best  BY <1>1, <1>3, <2>2 DEF TypeOK
    <3>2. values' = values /\ Held' = Held  BY <1>3, <2>2 DEF Held
    <3>. QED  BY <1>1, <1>3, <3>1, <3>2 DEF Inv, Remembered, TypeOK
  <2>. QED  BY <2>1, <2>2
<1>5. sent' \subseteq Key \X Ttl
  BY <1>1, <1>2, <1>3 DEF TypeOK, Sent
<1>6. passed' \in [Key -> SUBSET Key]
  BY <1>1, <1>2, <1>3 DEF TypeOK
<1>7. TypeOK'
  BY <1>1, <1>2, <1>3, <1>4, <1>5, <1>6 DEF TypeOK
<1>8. OnTheWay'
  <2>. SUFFICES ASSUME NEW k \in Held'  PROVE passed'[k] \subseteq Way(k, lastCheck')
    BY DEF OnTheWay
  <2>1. k \in Held /\ k \in Key  BY <1>1, <1>4 DEF TypeOK
  <2>2. CASE k = n
    <3>1. passed'[k] = {}  BY <1>3, <2>1, <2>2
    <3>. QED  BY <3>1
  <2>3. CASE k # n
    <3>1. passed'[k] = passed[k] \cup {n}  BY <1>3, <2>1, <2>3
    <3>2. passed[k] \subseteq Way(k, lastCheck)  BY <2>1 DEF Inv, OnTheWay
    <3>3. Way(k, lastCheck) \cup {n} \subseteq Way(k, n)
      BY <1>1, <2>1, <2>3, Numbers, WayGrows DEF n, NextKey, TypeOK
    <3>. QED  BY <1>3, <3>1, <3>2, <3>3
  <2>. QED  BY <2>2, <2>3
<1>. QED  BY <1>4, <1>7, <1>8 DEF Inv

\* Every step preserves the invariant.
LEMMA StepInv == ASSUME Inv, [Next]_vars PROVE Inv'
<1>1. CASE UNCHANGED vars
  BY <1>1 DEF vars, Inv, TypeOK, Remembered, OnTheWay, Held, Way
<1>2. ASSUME NEW k \in Key, FindValue(k)  PROVE Inv'
  <2>1. /\ k \in Held /\ Expired(values[k]) /\ values' = Without(k)
        /\ UNCHANGED <<now, lastCheck, dist, sent, best, passed>>
    BY <1>2 DEF FindValue
  <2>2. best' = [best EXCEPT ![k] = IF Expired(values[k]) THEN best[k] ELSE 0]
    BY <2>1 DEF Inv, TypeOK
  <2>3. Held' = Held \ {k} /\ values' \in [Held' -> Ttl] /\ Remembered'
    BY <2>1, <2>2, Dropped
  <2>4. TypeOK'  BY <2>1, <2>3 DEF Inv, TypeOK
  <2>5. OnTheWay'  BY <2>1, <2>3 DEF Inv, OnTheWay, Way
  <2>. QED  BY <2>3, <2>4, <2>5 DEF Inv
<1>3. CASE Tick
  <2>1. /\ now' = now + 1 /\ now' \in 0..MaxTime /\ Held' = Held
        /\ UNCHANGED <<values, lastCheck, dist, sent, best, passed>>
    BY <1>3, TimeAssumption DEF Tick, Inv, TypeOK, Held
  <2>2. Remembered'
    BY <2>1, Numbers DEF Inv, Remembered
  <2>. QED  BY <2>1, <2>2 DEF Inv, TypeOK, OnTheWay, Way
<1>4. ASSUME NEW k \in Key, Move(k)  PROVE Inv'
  BY <1>4 DEF Move, Inv, TypeOK, Remembered, OnTheWay, Held, Way
<1>. QED  BY <1>1, <1>2, <1>3, <1>4, SweepInv, StoreInInv DEF Next

\* The inductive invariant holds throughout.
THEOREM ValuesInvariant == Spec => []Inv
BY InitInv, StepInv, PTL DEF Spec

\* Types, for any keys, rules and expiry times.
THEOREM ValuesTypes == Spec => []TypeOK
<1>1. Inv => TypeOK  BY DEF Inv
<1>. QED  BY <1>1, ValuesInvariant, PTL

\* Whoever asks for a signed or merged value gets the one that lasts longest of
\* all that were accepted: store_in and DhtValue::update keep it so for every
\* order of stores, sweeps, queries and minutes.
THEOREM ValuesNeverOlder == Spec => []NeverOlder
<1>1. Inv => NeverOlder  BY DEF Inv, TypeOK, Remembered, NeverOlder
<1>. QED  BY <1>1, ValuesInvariant, PTL

\* The sweep of check comes to no value twice while another one waits.
THEOREM SweepStaysFair == Spec => SweepIsFair
<1>1. ASSUME Inv, [Next]_vars, lastCheck' # lastCheck,
             NEW k \in Held \ {lastCheck'}
      PROVE  lastCheck' \notin passed[k]
  <2>1. CASE Sweep
    <3>1. lastCheck' = Successor(Held, lastCheck)  BY <2>1 DEF Sweep, NextKey
    <3>2. Held \in SUBSET Key /\ lastCheck \in Nat /\ k \in Held
      BY <1>1, Numbers DEF Inv, TypeOK
    <3>3. lastCheck' \notin Way(k, lastCheck)
      BY <1>1, <3>1, <3>2, WayGrows
    <3>. QED  BY <1>1, <3>2, <3>3 DEF Inv, OnTheWay
  <2>2. CASE ~Sweep
    <3>1. UNCHANGED lastCheck
      BY <1>1, <2>2 DEF Next, vars, Tick, FindValue, Move, StoreIn
    <3>. QED  BY <1>1, <3>1
  <2>. QED  BY <2>1, <2>2
<1>2. Inv /\ [Next]_vars =>
        [lastCheck' # lastCheck =>
           \A k \in Held \ {lastCheck'} : lastCheck' \notin passed[k]]_vars
  BY <1>1
<1>. QED  BY <1>2, ValuesInvariant, PTL DEF Spec, SweepIsFair
-----------------------------------------------------------------------------
\* The keys that have had a turn since k's lie on the way from k to where the
\* republication is, and have had one turn each.
TurnsOnTheWay ==
  \A k \in Owned, j \in Key :
    turns[k][j] = 0 \/ (turns[k][j] = 1 /\ j \in Way(k, lastRepublish))

OwnInv == OwnTypes /\ TurnsOnTheWay

\* Keys are naturals.
LEMMA OwnNumbers ==
  OwnTypes => Owned \in SUBSET Key /\ Owned \in SUBSET Nat /\ lastRepublish \in Nat
BY Numbers DEF OwnTypes

\* The invariant holds when the member is created.
LEMMA OwnInitInv == OwnInit => OwnInv
<1>. SUFFICES ASSUME OwnInit PROVE OwnInv  OBVIOUS
<1>1. Owned = {}  BY DEF OwnInit, Owned
<1>. QED  BY <1>1, OwnTimeAssumption DEF OwnInit, OwnInv, OwnTypes, TurnsOnTheWay

\* A value that is set anew has seen no turn of another.
LEMMA SetValueInv ==
  ASSUME OwnInv, NEW k \in Key, NEW t \in OwnTtl, SetValue(k, t) PROVE OwnInv'
<1>1. /\ UNCHANGED <<time, lastRepublish>>
      /\ own' = IF k \in Owned THEN own ELSE With(own, k, t)
      /\ sentOwn' = Sent(sentOwn, k, t)
      /\ turns' = IF k \in Owned THEN turns ELSE [turns EXCEPT ![k] = [j \in Key |-> 0]]
  BY DEF SetValue, Emplaced, SendStore
<1>2. Owned' = Owned \cup {k}
  BY <1>1 DEF Owned, With
<1>3. own' \in [Owned' -> OwnTtl]
  <2>1. CASE k \in Owned  BY <1>1, <1>2, <2>1 DEF OwnInv, OwnTypes
  <2>2. CASE k \notin Owned
    <3>1. own' = [j \in Owned' |-> IF j = k THEN t ELSE own[j]]
      BY <1>1, <1>2, <2>2 DEF With, Owned
    <3>. QED  BY <1>2, <3>1 DEF OwnInv, OwnTypes
  <2>. QED  BY <2>1, <2>2
<1>4. turns' \in [Key -> [Key -> 0..2]]
  BY <1>1 DEF OwnInv, OwnTypes
<1>5. OwnTypes'
  BY <1>1, <1>2, <1>3, <1>4 DEF OwnInv, OwnTypes, Sent
<1>6. TurnsOnTheWay'
  BY <1>1, <1>2 DEF OwnInv, OwnTypes, TurnsOnTheWay, Way
<1>. QED  BY <1>5, <1>6 DEF OwnInv

\* The next value has its turn, the first since any other's last.
LEMMA RepublishOwnInv == ASSUME OwnInv, RepublishOwn PROVE OwnInv'
<1>. DEFINE n == NextOwn
<1>1. /\ Owned \in SUBSET Key /\ Owned \in SUBSET Nat /\ lastRepublish \in Nat /\ Owned # {}
      /\ turns \in [Key -> [Key -> 0..2]]
  BY OwnNumbers DEF OwnInv, OwnTypes, RepublishOwn
<1>2. n \in Owned
  BY <1>1, SuccessorIsNext DEF NextOwn
<1>3. /\ lastRepublish' = n /\ UNCHANGED <<time, own>>
      /\ sentOwn' = Sent(sentOwn, n, own[n]) \/ UNCHANGED sentOwn
      /\ turns' = [j \in Key |->
                     IF j = n THEN [i \in Key |-> 0]
                     ELSE [turns[j] EXCEPT ![n] = Least(turns[j][n] + 1, 2)]]
  BY DEF RepublishOwn, PassTurn, SendStore
<1>4. \A k \in Owned : k # n =>
        /\ n \notin Way(k, lastRepublish)
        /\ Way(k, lastRepublish) \cup {n} \subseteq Way(k, n)
  BY <1>1, WayGrows DEF NextOwn
<1>. HIDE DEF n
<1>5. \A j \in Key : Least(turns[j][n] + 1, 2) \in 0..2
  BY <1>1, <1>2 DEF Least
<1>6. Owned' = Owned  BY <1>3 DEF Owned
<1>7. OwnTypes'
  <2>1. turns' \in [Key -> [Key -> 0..2]]
    BY <1>1, <1>2, <1>3, <1>5
  <2>2. sentOwn' \subseteq Key \X OwnTtl
    BY <1>1, <1>2, <1>3 DEF OwnInv, OwnTypes, Sent
  <2>. QED  BY <1>2, <1>3, <1>6, <2>1, <2>2 DEF OwnInv, OwnTypes
<1>8. TurnsOnTheWay'
  <2>. SUFFICES ASSUME NEW k \in Owned, NEW j \in Key
                PROVE  turns'[k][j] = 0 \/ (turns'[k][j] = 1 /\ j \in Way(k, n))
    BY <1>3, <1>6 DEF TurnsOnTheWay, Way
  <2>0. k \in Key  BY <1>1
  <2>1. turns[k][j] = 0 \/ (turns[k][j] = 1 /\ j \in Way(k, lastRepublish))
    BY DEF OwnInv, TurnsOnTheWay
  <2>2. CASE k = n
    BY <1>3, <2>0, <2>2
  <2>3. CASE k # n /\ j # n
    <3>1. turns'[k][j] = turns[k][j]  BY <1>1, <1>3, <2>0, <2>3
    <3>. QED  BY <1>4, <2>1, <2>3, <3>1
  <2>4. CASE k # n /\ j = n
    <3>1. turns[k][n] = 0  BY <1>4, <2>1, <2>4
    <3>2. turns'[k][n] = 1  BY <1>1, <1>2, <1>3, <2>0, <2>4, <3>1 DEF Least
    <3>. QED  BY <1>4, <2>4, <3>2
  <2>. QED  BY <2>2, <2>3, <2>4
<1>. QED  BY <1>7, <1>8 DEF OwnInv

\* Every step preserves the invariant.
LEMMA OwnStepInv == ASSUME OwnInv, [OwnNext]_ownVars PROVE OwnInv'
<1>1. CASE UNCHANGED ownVars
  BY <1>1 DEF ownVars, OwnInv, OwnTypes, TurnsOnTheWay, Owned, Way
<1>2. CASE OwnTick
  <2>1. time' \in 0..LastMinute
    BY <1>2, OwnTimeAssumption DEF OwnTick, OwnInv, OwnTypes
  <2>. QED  BY <1>2, <2>1 DEF OwnTick, OwnInv, OwnTypes, TurnsOnTheWay, Owned, Way
<1>. QED  BY <1>1, <1>2, SetValueInv, RepublishOwnInv DEF OwnNext

\* The republication gives no value two turns while another waits for one, for any
\* number of values and whatever is set meanwhile.
THEOREM OwnTurnsStayFair == OwnSpec => []TurnsAreFair
<1>1. OwnInit => OwnInv  BY OwnInitInv
<1>2. OwnInv /\ [OwnNext]_ownVars => OwnInv'  BY OwnStepInv
<1>3. OwnInv => TurnsAreFair  BY DEF OwnInv, TurnsOnTheWay, TurnsAreFair
<1>. QED  BY <1>1, <1>2, <1>3, PTL DEF OwnSpec
-----------------------------------------------------------------------------
(***************************************************************************)
(* What a value of an overlay lists after any number of updates, for any   *)
(* number of nodes, versions and entries that fit.                         *)
(***************************************************************************)

\* No entry of E is later than what was sent, and for each node one is the latest.
Latest(E) ==
  /\ \A e \in E : e.version =< latest[e.node]
  /\ \A n \in Ids(E) : \E e \in E : e.node = n /\ e.version = latest[n]

OnePerNode(E) == \A d, e \in E : d.node = e.node => d = e

\* Of the nodes ever sent, those in E are as many as fit.
AsFit(E) == /\ Ids(E) \subseteq ever
            /\ Least(Fit, Cardinality(Ids(E))) = Least(Fit, Cardinality(ever))

\* The inductive invariant: what the loops have and have still to look at is
\* together as the merged value is to be.
OverlayInv ==
  /\ OverlayTypes
  /\ merge = "none" => DOMAIN latest = {}
  /\ merge = "stored" =>
       DOMAIN latest = Ids(entries) /\ Latest(entries) /\ ever = Ids(entries)
  /\ merge = "merged" =>
       /\ DOMAIN latest = Ids(entries) /\ AsFit(entries)
       /\ \A e \in entries : e.version = latest[e.node]
       /\ Cardinality(Ids(entries)) =< Fit
  /\ merge = "merging" =>
       /\ DOMAIN latest = Ids(res \cup todo) /\ AsFit(res \cup todo)
       /\ Latest(res \cup todo) /\ OnePerNode(res)

\* Sets of nodes are finite.
LEMMA IdsFinite ==
  ASSUME NEW S \in SUBSET OverlayNode
  PROVE  IsFiniteSet(S) /\ Cardinality(S) \in Nat
BY OverlayNodeAssumption, FS_Subset, FS_CardinalityType

\* The nodes of entries.
LEMMA IdsSets ==
  /\ Ids({}) = {}
  /\ \A S, T : Ids(S \cup T) = Ids(S) \cup Ids(T)
  /\ \A S \in SUBSET Entry : Ids(S) \in SUBSET OverlayNode
BY DEF Ids, Entry

\* Of versions there is a newest.
LEMMA NewestExists ==
  ASSUME NEW V \in SUBSET Version, V # {}
  PROVE  Newest(V) \in V /\ \A w \in V : w =< Newest(V)
<1>1. V \in SUBSET Nat /\ IsFiniteSet(V)  BY VersionAssumption, FS_Subset
<1>2. \E v \in V : \A w \in V : w =< v  BY <1>1, FarthestExists
<1>. QED  BY <1>2 DEF Newest

\* What is heard of a node that is listed, or that L has.
LEMMA HeardLatest ==
  ASSUME OverlayTypes, NEW L \in SUBSET Entry, NEW n \in DOMAIN latest \cup Ids(L)
  PROVE  LET h == Heard(DOMAIN latest, L)[n] IN
         /\ h \in Version
         /\ \A e \in L : e.node = n => e.version =< h
         /\ n \in DOMAIN latest => latest[n] =< h
         /\ (n \in DOMAIN latest /\ h = latest[n])
              \/ \E e \in L : e.node = n /\ e.version = h
<1>. DEFINE V == VersionsOf(n, L) \cup (IF n \in DOMAIN latest THEN {latest[n]} ELSE {})
            h == Newest(V)
<1>1. Heard(DOMAIN latest, L)[n] = h  BY DEF Heard
<1>2. V \in SUBSET Version
  BY DEF VersionsOf, Entry, OverlayTypes
<1>3. V # {}  BY DEF VersionsOf, Ids
<1>4. h \in V /\ \A w \in V : w =< h
  <2>. HIDE DEF V
  <2>. QED  BY <1>2, <1>3, NewestExists
<1>. HIDE DEF h
<1>5. h \in Version /\ (n \in DOMAIN latest => latest[n] =< h)
  BY <1>2, <1>4
<1>6. \A e \in L : e.node = n => e.version =< h
  BY <1>4 DEF VersionsOf
<1>7. (n \in DOMAIN latest /\ h = latest[n]) \/ h \in VersionsOf(n, L)
  BY <1>4
<1>. QED  BY <1>1, <1>5, <1>6, <1>7 DEF VersionsOf

\* There is no value at first.
LEMMA OverlayInitInv == OverlayInit => OverlayInv
BY IdsSets DEF OverlayInit, OverlayInv, OverlayTypes

\* The first value is as it came.
LEMMA StoreInv ==
  ASSUME OverlayInv, NEW L \in Fitting, StoreNodes(L)
  PROVE  OverlayInv'
<1>1. /\ L \in SUBSET Entry /\ DOMAIN latest = {} /\ OverlayTypes
      /\ entries' = L /\ merge' = "stored" /\ latest' = Heard({}, L)
      /\ ever' = Ids(L) /\ todo' = todo /\ res' = res
  BY DEF OverlayInv, StoreNodes, Fitting
<1>2. /\ DOMAIN Heard({}, L) = Ids(L)
      /\ \A n \in Ids(L) :
           /\ Heard({}, L)[n] \in Version
           /\ \A e \in L : e.node = n => e.version =< Heard({}, L)[n]
           /\ \E e \in L : e.node = n /\ Heard({}, L)[n] = e.version
  <2>1. DOMAIN Heard({}, L) = Ids(L)  BY DEF Heard
  <2>2. ASSUME NEW n \in Ids(L)
        PROVE  /\ Heard({}, L)[n] \in Version
               /\ \A e \in L : e.node = n => e.version =< Heard({}, L)[n]
               /\ \E e \in L : e.node = n /\ Heard({}, L)[n] = e.version
    <3>1. n \in DOMAIN latest \cup Ids(L) /\ n \notin DOMAIN latest  BY <1>1
    <3>. QED  BY <1>1, <3>1, HeardLatest
  <2>. QED  BY <2>1, <2>2
<1>3. \A e \in L : e.node \in Ids(L)  BY DEF Ids
<1>4. Ids(L) \in SUBSET OverlayNode  BY <1>1, IdsSets
<1>5. OverlayTypes'  BY <1>1, <1>2, <1>4 DEF OverlayTypes
<1>6. Latest(entries)'
  BY <1>1, <1>2, <1>3 DEF Latest, Ids
<1>7. (DOMAIN latest = Ids(entries) /\ ever = Ids(entries))'
  BY <1>1, <1>2 DEF Ids
<1>. QED  BY <1>1, <1>5, <1>6, <1>7 DEF OverlayInv

\* An update brings what it sends to what there is.
LEMMA UpdateInv ==
  ASSUME OverlayInv, NEW L \in Fitting, UpdateNodes(L)
  PROVE  OverlayInv'
<1>. DEFINE S == Ids(entries)
<1>1. /\ L \in SUBSET Entry /\ DOMAIN latest = S /\ OverlayTypes
      /\ merge' = "merging" /\ latest' = Heard(S, L) /\ ever' = ever \cup Ids(L)
      /\ todo' = entries \cup L /\ res' = {} /\ entries' = entries
      /\ entries \in SUBSET Entry
  BY DEF OverlayInv, UpdateNodes, Fitting, OverlayTypes
<1>2. Latest(entries) /\ AsFit(entries)
  <2>1. CASE merge = "stored"  BY <2>1 DEF OverlayInv, AsFit
  <2>2. CASE merge = "merged"
    <3>1. AsFit(entries) /\ \A e \in entries : e.version = latest[e.node]
      BY <2>2 DEF OverlayInv
    <3>2. \A e \in entries : e.version \in Nat
      BY <1>1, VersionAssumption DEF Entry
    <3>. QED  BY <3>1, <3>2 DEF Latest, Ids
  <2>. QED  BY <2>1, <2>2 DEF UpdateNodes
<1>3. /\ S \in SUBSET OverlayNode /\ Ids(L) \in SUBSET OverlayNode
      /\ Ids(entries \cup L) = S \cup Ids(L)
  BY <1>1, IdsSets
<1>4. res' \cup todo' = entries \cup L  BY <1>1
<1>5. DOMAIN latest' = S \cup Ids(L)  BY <1>1 DEF Heard
<1>6. OverlayTypes'
  <2>1. \A n \in DOMAIN latest' : latest'[n] \in Version
    BY <1>1, <1>5, HeardLatest
  <2>2. ever' \in SUBSET OverlayNode  BY <1>1, <1>3 DEF OverlayTypes
  <2>. QED  BY <1>1, <1>3, <1>5, <2>1, <2>2 DEF OverlayTypes
<1>7. Latest(entries \cup L)'
  <2>1. ASSUME NEW e \in entries \cup L  PROVE e.version =< Heard(S, L)[e.node]
    <3>1. CASE e \in L
      <4>1. e.node \in DOMAIN latest \cup Ids(L)  BY <3>1 DEF Ids
      <4>. QED  BY <4>1, <3>1, <1>1, HeardLatest
    <3>2. CASE e \in entries
      <4>1. e.node \in S  BY <3>2 DEF Ids
      <4>2. latest[e.node] =< Heard(S, L)[e.node]  BY <4>1, <1>1, HeardLatest
      <4>3. e.version =< latest[e.node]  BY <3>2, <1>2 DEF Latest
      <4>4. e.version \in Nat /\ latest[e.node] \in Nat /\ Heard(S, L)[e.node] \in Nat
        <5>1. Heard(S, L)[e.node] \in Version  BY <4>1, <1>1, HeardLatest
        <5>. QED  BY <5>1, <4>1, <1>1, <3>2, VersionAssumption DEF OverlayTypes, Entry
      <4>. QED  BY <4>2, <4>3, <4>4
    <3>. QED  BY <2>1, <3>1, <3>2
  <2>2. ASSUME NEW n \in S \cup Ids(L)
        PROVE  \E e \in entries \cup L : e.node = n /\ e.version = Heard(S, L)[n]
    <3>1. CASE n \in S /\ Heard(S, L)[n] = latest[n]
      BY <3>1, <1>2 DEF Latest
    <3>2. CASE \E e \in L : e.node = n /\ Heard(S, L)[n] = e.version
      BY <3>2
    <3>3. \/ n \in S /\ Heard(S, L)[n] = latest[n]
          \/ \E e \in L : e.node = n /\ Heard(S, L)[n] = e.version
      BY <1>1, <2>2, HeardLatest
    <3>. QED  BY <3>1, <3>2, <3>3
  <2>. QED  BY <2>1, <2>2, <1>1, <1>3 DEF Latest
<1>8. AsFit(entries \cup L)'
  <2>. DEFINE M == S \cup Ids(L)  F == ever \cup Ids(L)
  <2>1. S \subseteq ever /\ ever \in SUBSET OverlayNode
    BY <1>1, <1>2 DEF AsFit, OverlayTypes
  <2>2. M \subseteq F /\ F \in SUBSET OverlayNode /\ S \subseteq M /\ ever \subseteq F
        /\ M \in SUBSET OverlayNode
    BY <2>1, <1>3
  <2>3. /\ Cardinality(S) \in Nat /\ Cardinality(ever) \in Nat
        /\ Cardinality(M) \in Nat /\ Cardinality(F) \in Nat
        /\ Cardinality(S) =< Cardinality(M) /\ Cardinality(M) =< Cardinality(F)
        /\ Cardinality(S) =< Cardinality(ever)
        /\ (Cardinality(S) = Cardinality(ever) => S = ever)
    <3>. HIDE DEF M, F, S
    <3>. QED  BY <2>1, <2>2, <1>3, IdsFinite, FS_Subset
  <2>4. Least(Fit, Cardinality(S)) = Least(Fit, Cardinality(ever))
    BY <1>2 DEF AsFit
  <2>5. Least(Fit, Cardinality(M)) = Least(Fit, Cardinality(F))
    <3>1. CASE Cardinality(S) = Cardinality(ever)
      BY <3>1, <2>3
    <3>2. CASE Cardinality(S) # Cardinality(ever)
      <4>. HIDE DEF M, F, S
      <4>1. Cardinality(S) >= Fit
        BY <3>2, <2>3, <2>4, FitAssumption DEF Least
      <4>. QED  BY <4>1, <2>3, FitAssumption DEF Least
    <3>. QED  BY <3>1, <3>2
  <2>. QED  BY <2>2, <2>5, <1>1, <1>3 DEF AsFit
<1>9. OnePerNode(res)'  BY <1>1 DEF OnePerNode
<1>10. Latest(res \cup todo)' /\ AsFit(res \cup todo)'
  BY <1>1, <1>4, <1>7, <1>8 DEF Latest, AsFit, Ids
<1>11. DOMAIN latest' = Ids(res' \cup todo')  BY <1>3, <1>4, <1>5
<1>. QED  BY <1>1, <1>6, <1>9, <1>10, <1>11 DEF OverlayInv

\* An iteration takes an entry over, or takes it for an older one.
LEMMA TakeInv ==
  ASSUME OverlayInv, NEW e \in Entry, TakeEntry(e)
  PROVE  OverlayInv'
<1>1. /\ merge = "merging" /\ e \in todo /\ todo' = todo \ {e}
      /\ entries' = entries /\ merge' = merge /\ latest' = latest /\ ever' = ever
      /\ OverlayTypes /\ res \in SUBSET Entry /\ todo \in SUBSET Entry
      /\ DOMAIN latest = Ids(res \cup todo) /\ AsFit(res \cup todo)
      /\ Latest(res \cup todo) /\ OnePerNode(res)
  BY DEF OverlayInv, TakeEntry, OverlayTypes
<1>2. SUFFICES /\ res' \in SUBSET Entry /\ OnePerNode(res')
               /\ Ids(res' \cup todo') = Ids(res \cup todo)
               /\ Latest(res' \cup todo')
  <2>1. OverlayTypes'  BY <1>1, <1>2 DEF OverlayTypes
  <2>2. Latest(res \cup todo)' /\ OnePerNode(res)' /\ AsFit(res \cup todo)'
    BY <1>1, <1>2 DEF Latest, OnePerNode, AsFit, Ids
  <2>3. DOMAIN latest' = Ids(res' \cup todo')  BY <1>1, <1>2
  <2>. QED  BY <1>1, <2>1, <2>2, <2>3 DEF OverlayInv
<1>3. CASE e.node \notin Ids(res)
  <2>1. res' = res \cup {e}  BY <1>3 DEF TakeEntry
  <2>2. res' \cup todo' = res \cup todo  BY <1>1, <2>1
  <2>3. OnePerNode(res')  BY <1>1, <1>3, <2>1 DEF OnePerNode, Ids
  <2>. QED  BY <1>1, <2>1, <2>2, <2>3
<1>4. CASE e.node \in Ids(res)
  <2>1. res' = {Renewed(m, e) : m \in res}  BY <1>4 DEF TakeEntry
  <2>2. \A m \in res : /\ Renewed(m, e) \in {m, e} /\ Renewed(m, e) \in res'
                       /\ Renewed(m, e).node = m.node
                       /\ m.node # e.node => Renewed(m, e) = m
    BY <2>1 DEF Renewed
  <2>3. res' \in SUBSET Entry /\ res' \subseteq res \cup {e}  BY <1>1, <2>1, <2>2
  <2>4. OnePerNode(res')
    <3>1. \A d \in res' : \E m \in res : d = Renewed(m, e) /\ d.node = m.node
      BY <2>1, <2>2
    <3>. QED  BY <3>1, <1>1 DEF OnePerNode
  <2>5. Ids(res' \cup todo') = Ids(res \cup todo)
    <3>1. \A m \in res : m.node \in Ids(res')  BY <2>2 DEF Ids
    <3>2. Ids(res') = Ids(res)  BY <3>1, <2>1, <2>2 DEF Ids
    <3>3. Ids(todo) = Ids(todo') \cup {e.node}  BY <1>1 DEF Ids
    <3>4. /\ Ids(res' \cup todo') = Ids(res') \cup Ids(todo')
          /\ Ids(res \cup todo) = Ids(res) \cup Ids(todo)
      BY IdsSets
    <3>. QED  BY <3>2, <3>3, <3>4, <1>4
  <2>6. \A d \in res' \cup todo' : d.version =< latest[d.node]
    BY <1>1, <2>3 DEF Latest
  <2>7. ASSUME NEW n \in Ids(res \cup todo)
        PROVE  \E d \in res' \cup todo' : d.node = n /\ d.version = latest[n]
    <3>1. PICK d \in res \cup todo : d.node = n /\ d.version = latest[n]
      BY <2>7, <1>1 DEF Latest
    <3>2. CASE d \in todo'  BY <3>1, <3>2
    <3>3. CASE d \in res
      <4>1. d.version \in Nat /\ e.version \in Nat
        BY <1>1, <3>3, VersionAssumption DEF Entry
      <4>2. d.node = e.node => e.version =< d.version
        BY <3>1, <1>1 DEF Latest
      <4>3. Renewed(d, e) = d  BY <4>1, <4>2 DEF Renewed
      <4>. QED  BY <4>3, <3>1, <3>3, <2>2
    <3>4. CASE d = e
      <4>1. PICK m \in res : m.node = e.node  BY <1>4 DEF Ids
      <4>2. m.version =< latest[n]  BY <4>1, <3>1, <3>4, <1>1 DEF Latest
      <4>3. m.version \in Nat /\ e.version \in Nat
        BY <1>1, <4>1, VersionAssumption DEF Entry
      <4>4. Renewed(m, e).node = n /\ Renewed(m, e).version = latest[n]
        BY <4>1, <4>2, <4>3, <3>1, <3>4 DEF Renewed
      <4>. QED  BY <4>1, <4>4, <2>2
    <3>. QED  BY <3>1, <3>2, <3>3, <3>4, <1>1
  <2>. QED  BY <2>3, <2>4, <2>5, <2>6, <2>7 DEF Latest
<1>. QED  BY <1>3, <1>4

\* The value lists what fits of what the loops made of it.
LEMMA CutInv ==
  ASSUME OverlayInv, CutNodes
  PROVE  OverlayInv'
<1>1. /\ merge = "merging" /\ todo = {} /\ merge' = "merged"
      /\ todo' = todo /\ res' = res /\ ever' = ever
      /\ OverlayTypes /\ res \in SUBSET Entry
      /\ DOMAIN latest = Ids(res) /\ AsFit(res) /\ Latest(res) /\ OnePerNode(res)
  BY DEF OverlayInv, CutNodes, OverlayTypes
<1>2. PICK S \in SUBSET Ids(res) :
        /\ Cardinality(S) = Least(Fit, Cardinality(Ids(res)))
        /\ entries' = {m \in res : m.node \in S}
        /\ latest' = [n \in S |-> latest[n]]
  BY DEF CutNodes
<1>3. Ids(entries') = S  BY <1>2 DEF Ids
<1>4. \A m \in entries' : m.version = latest'[m.node]
  <2>. TAKE m \in entries'
  <2>1. m \in res /\ m.node \in S  BY <1>2
  <2>2. PICK d \in res : d.node = m.node /\ d.version = latest[m.node]
    BY <1>1, <1>2, <2>1 DEF Latest
  <2>3. d = m  BY <2>1, <2>2, <1>1 DEF OnePerNode
  <2>. QED  BY <1>2, <2>1, <2>2, <2>3
<1>5. Ids(res) \in SUBSET OverlayNode  BY <1>1, IdsSets
<1>6. Cardinality(S) =< Fit /\ Least(Fit, Cardinality(S)) = Least(Fit, Cardinality(ever))
  <2>1. Cardinality(Ids(res)) \in Nat  BY <1>5, IdsFinite
  <2>2. \A c \in Nat : Least(Fit, c) =< Fit /\ Least(Fit, Least(Fit, c)) = Least(Fit, c)
    BY FitAssumption DEF Least
  <2>3. Least(Fit, Cardinality(Ids(res))) = Least(Fit, Cardinality(ever))
    BY <1>1 DEF AsFit
  <2>. QED  BY <1>2, <2>1, <2>2, <2>3
<1>7. AsFit(entries)'  BY <1>1, <1>2, <1>3, <1>6 DEF AsFit, Ids
<1>8. OverlayTypes'
  BY <1>1, <1>2, <1>5 DEF OverlayTypes
<1>9. DOMAIN latest' = Ids(entries') /\ Cardinality(Ids(entries')) =< Fit
  BY <1>2, <1>3, <1>6
<1>. QED  BY <1>1, <1>4, <1>7, <1>8, <1>9 DEF OverlayInv, Ids

\* Every step preserves the invariant.
LEMMA OverlayStepInv == ASSUME OverlayInv, [OverlayNext]_overlayVars PROVE OverlayInv'
<1>1. CASE UNCHANGED overlayVars
  BY <1>1 DEF overlayVars, OverlayInv, OverlayTypes, Latest, AsFit, OnePerNode, Ids
<1>2. CASE RemoveNodes
  BY <1>2, IdsSets DEF RemoveNodes, OverlayInv, OverlayTypes
<1>. QED
  BY <1>1, <1>2, StoreInv, UpdateInv, TakeInv, CutInv DEF OverlayNext

\* A value that was merged lists as many of the nodes it was sent as fit, and
\* the latest version that came of each.
THEOREM LatestAlwaysKept == OverlaySpec => []LatestNodesKept
<1>1. OverlayInv => LatestNodesKept
  <2>. SUFFICES ASSUME OverlayInv, merge = "merged"
                PROVE  Cardinality(Ids(entries)) = Least(Fit, Cardinality(ever))
    BY DEF OverlayInv, LatestNodesKept
  <2>1. Cardinality(Ids(entries)) \in Nat
    BY IdsSets, IdsFinite DEF OverlayInv, OverlayTypes
  <2>. QED  BY <2>1, FitAssumption DEF OverlayInv, AsFit, Least
<1>. QED  BY <1>1, OverlayInitInv, OverlayStepInv, PTL DEF OverlaySpec
=============================================================================
