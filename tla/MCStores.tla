------------------------------ MODULE MCStores ------------------------------
(***************************************************************************)
(* A store whose lookup is answered by a settled network (DhtNetwork),     *)
(* or one on its own whose lookup is answered in any way at all.  Only one *)
(* of the two is at work in a behaviour; the other one's variables rest in *)
(* an initial state.                                                       *)
(***************************************************************************)
EXTENDS DhtQueryStore, DhtNetwork

VARIABLE alone  \* it is the store on its own that is at work

\* Keys of four bits, and six members so spread that the four of one half are more
\* than a bucket of the others holds, and that the second nearest is found only by
\* those that ask on.  The store on its own is at distance 6, so it can be closer
\* than, among, or farther than the nodes found.
Members == {0, 4, 6, 7, 9, 11}
Weights == [b \in 0..4 |-> 2 ^ b]

allVars == <<alone, actorVars, netVars>>

StoresInit ==
  /\ alone \in BOOLEAN
  /\ StoreInit /\ NetInit
  /\ IF alone THEN writer = 0 /\ reader = 0 ELSE offered = {}

\* A step of the store on its own.
OfAlone(Step) == alone /\ Step /\ UNCHANGED <<alone, netVars>>

StoresNext == \/ ~alone /\ NetNext /\ UNCHANGED <<alone, actorVars>>
              \/ OfAlone(StoreNext)

StoresFairness ==
  /\ WF_allVars(OfAlone(FindStep))
  /\ WF_allVars(OfAlone(SendStores))
  /\ \A n \in Node : WF_allVars(OfAlone(StoreReady(n)))

StoresSpec == StoresInit /\ [][StoresNext]_allVars /\ StoresFairness
=============================================================================
