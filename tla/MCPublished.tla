---------------------------- MODULE MCPublished ----------------------------
(***************************************************************************)
(* The values a node keeps for the network (MCDhtValues), those its own    *)
(* application publishes (DhtOwnValues), and the nodes that a value of an  *)
(* overlay lists (OverlayNodes).  Only one of the three is at work in a    *)
(* behaviour; the variables of the others rest in an initial state.        *)
(***************************************************************************)
EXTENDS MCDhtValues, DhtOwnValues, OverlayNodes

VARIABLE part

allVars == <<part, vars, ownVars, overlayVars>>

PublishedInit ==
  /\ part \in {"peers", "ours", "overlay"}
  /\ Init /\ OwnInit /\ OverlayInit
  /\ part # "peers" => dist = [k \in Key |-> "far"]

OfPeers(Step) == part = "peers" /\ Step /\ UNCHANGED <<part, ownVars, overlayVars>>
OfOurs(Step)  == part = "ours" /\ Step /\ UNCHANGED <<part, vars, overlayVars>>

PublishedNext ==
  \/ OfPeers(Next) \/ OfOurs(OwnNext)
  \/ part = "overlay" /\ OverlayNext /\ UNCHANGED <<part, vars, ownVars>>

\* DhtValues' and DhtOwnValues'.
PublishedFairness ==
  /\ WF_allVars(OfPeers(Sweep)) /\ WF_allVars(OfOurs(RepublishOwn))

PublishedSpec == PublishedInit /\ [][PublishedNext]_allVars /\ PublishedFairness
=============================================================================
