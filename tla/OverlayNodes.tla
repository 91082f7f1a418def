---------------------------- MODULE OverlayNodes ----------------------------
(***************************************************************************)
(* A stored value whose update rule is DhtUpdateRuleOverlayNodes           *)
(* (dht/dht-types.cpp): the nodes of an overlay, which updates merge,      *)
(* entry by entry, as far as max_value_size allows.                        *)
(*                                                                         *)
(* An entry is a node and the version of its description; entries have the *)
(* same size.  The loops of update_value go over the value's entries and   *)
(* then over the new ones; here they take them in any order.               *)
(***************************************************************************)
EXTENDS Minimum, FiniteSets

CONSTANTS OverlayNode,  \* the nodes of the overlay
          Version,      \* the versions of their descriptions
          Fit           \* the entries that max_value_size has room for

ASSUME OverlayNodeAssumption == IsFiniteSet(OverlayNode)
ASSUME VersionAssumption == Version \in SUBSET Nat /\ IsFiniteSet(Version)
ASSUME FitAssumption == Fit \in Nat

VARIABLES entries,  \* the entries of the value
          merge,    \* "none": there is no value; "stored": it is as it came;
                    \* "merging": update_value is at it; "merged": it was
          todo,     \* what the loops still have to look at
          res,      \* res
          latest,   \* history: the latest version sent of a listed node
          ever      \* history: the nodes sent since there is a value

overlayVars == <<entries, merge, todo, res, latest, ever>>

Entry  == [node : OverlayNode, version : Version]
Ids(S) == {e.node : e \in S}

\* What check_value admits.
Fitting == {L \in SUBSET Entry : Cardinality(L) =< Fit}

\* Versions of n among the entries of S, and the greatest of some numbers.
VersionsOf(n, S) == {e.version : e \in {m \in S : m.node = n}}
Newest(V) == CHOOSE v \in V : \A w \in V : w =< v

OverlayInit ==
  /\ entries = {} /\ merge = "none" /\ todo = {} /\ res = {}
  /\ latest = [n \in {} |-> 0] /\ ever = {}

\* The versions sent of the nodes in S, by an update with L.
Heard(S, L) ==
  [n \in S \cup Ids(L) |->
     Newest(VersionsOf(n, L)
              \cup (IF n \in DOMAIN latest THEN {latest[n]} ELSE {}))]

\* store_in without a value for the key: it is taken as it is.
StoreNodes(L) ==
  /\ merge = "none"
  /\ entries' = L /\ merge' = "stored"
  /\ latest' = Heard({}, L) /\ ever' = Ids(L)
  /\ UNCHANGED <<todo, res>>

\* store_in with one: update_value begins.
UpdateNodes(L) ==
  /\ merge \in {"stored", "merged"}
  /\ merge' = "merging"
  /\ todo' = entries \cup L /\ res' = {}
  /\ latest' = Heard(Ids(entries), L) /\ ever' = ever \cup Ids(L)
  /\ UNCHANGED entries

\* Mutant: the entry that comes last stays.
Replaced(m, e) == IF m.node = e.node THEN e ELSE m

\* An entry gives way to a later version of its node.
Renewed(m, e) == IF m.node = e.node /\ m.version < e.version THEN e ELSE m

\* An iteration of either loop.
TakeEntry(e) ==
  /\ merge = "merging" /\ e \in todo
  /\ todo' = todo \ {e}
  /\ res' = IF e.node \in Ids(res)
            THEN {Renewed(m, e) : m \in res}
            ELSE res \cup {e}
  /\ UNCHANGED <<entries, merge, latest, ever>>

\* What does not fit goes, chosen at random; the rest is the value now.
CutNodes ==
  /\ merge = "merging" /\ todo = {}
  /\ \E S \in SUBSET Ids(res) :
       /\ Cardinality(S) = Least(Fit, Cardinality(Ids(res)))
       /\ entries' = {m \in res : m.node \in S}
       /\ latest' = [n \in S |-> latest[n]]
  /\ merge' = "merged"
  /\ UNCHANGED <<todo, res, ever>>

\* The value expires, or its key becomes too far away, and is removed.
RemoveNodes ==
  /\ merge \in {"stored", "merged"}
  /\ entries' = {} /\ merge' = "none"
  /\ latest' = [n \in {} |-> 0] /\ ever' = {}
  /\ UNCHANGED <<todo, res>>

OverlayNext ==
  \/ \E L \in Fitting : StoreNodes(L) \/ UpdateNodes(L)
  \/ \E e \in Entry : TakeEntry(e)
  \/ CutNodes \/ RemoveNodes

OverlaySpec == OverlayInit /\ [][OverlayNext]_overlayVars
-----------------------------------------------------------------------------
\* Types of the state.
OverlayTypes ==
  /\ entries \in SUBSET Entry /\ todo \in SUBSET Entry /\ res \in SUBSET Entry
  /\ merge \in {"none", "stored", "merging", "merged"}
  /\ DOMAIN latest \subseteq OverlayNode
  /\ \A n \in DOMAIN latest : latest[n] \in Version
  /\ ever \in SUBSET OverlayNode

\* After any number of updates, in any order and with any repetitions, the value
\* lists as many of the nodes it was ever sent as fit, each once, and none with
\* an older version than was sent for it since it is listed.
LatestNodesKept ==
  merge = "merged" =>
    /\ \A e \in entries : e.version = latest[e.node]
    /\ Cardinality(Ids(entries)) = Least(Fit, Cardinality(ever))
=============================================================================
