------------------------- MODULE TransitionContract -------------------------
(***************************************************************************)
(* What two-phase transition processing promises, without the token cache: *)
(* a primary request may leave an offer; a secondary request works on an   *)
(* offer only while it stands; the secondary request that does not ask for *)
(* `next` is the last one the offer ever serves.  A newer offer under the  *)
(* same token supersedes the older one.                                    *)
(***************************************************************************)
CONSTANTS Req,      \* requests, primary and secondary
          None      \* no offer

VARIABLES offer,    \* offer[p]: what became of the offer primary p made
          work      \* work[s]: the offer s got hold of, and whether s is its last user

contractVars == <<offer, work>>

ContractInit ==
    /\ offer = [p \in Req |-> "none"]
    /\ work = [s \in Req |-> None]

(* A primary request is answered with a pending secondary action.          *)
MakeOffer(p) ==
    /\ offer[p] = "none"
    /\ \/ offer' = [offer EXCEPT ![p] = "open"]
       \/ \E old \in Req \ {p} :
             /\ offer[old] = "open"
             /\ offer' = [offer EXCEPT ![p] = "open", ![old] = "closed"]
    /\ UNCHANGED work

(* A secondary request with `next` uses the offer and leaves it open.      *)
UseOffer(s, p) ==
    /\ offer[p] = "open"
    /\ work[s] = None
    /\ work' = [work EXCEPT ![s] = [offer |-> p, last |-> FALSE]]
    /\ UNCHANGED offer

(* A secondary request without `next` gets the offer and closes it, even   *)
(* when it then fails to match.                                            *)
CloseOffer(s, p) ==
    /\ offer[p] = "open"
    /\ work[s] = None
    /\ offer' = [offer EXCEPT ![p] = "closed"]
    /\ work' = [work EXCEPT ![s] = [offer |-> p, last |-> TRUE]]

ContractNext ==
    \/ \E p \in Req : MakeOffer(p)
    \/ \E s, p \in Req : UseOffer(s, p) \/ CloseOffer(s, p)

ContractSpec == ContractInit /\ [][ContractNext]_contractVars
=============================================================================
