----------------------------- MODULE SessionPair -----------------------------
(***************************************************************************)
(* What the three-pass authentication of DesfireAuth promises, with the    *)
(* exchanges left out: two ends that each hold a session key or none, and  *)
(* that never hold two different ones.                                     *)
(***************************************************************************)
CONSTANTS SessionKeys, None

VARIABLES hostKey, cardKey

pair == <<hostKey, cardKey>>

PairInit == hostKey = None /\ cardKey = None

(* Both ends have proved that they know the key. *)
Establish == \E k \in SessionKeys : hostKey' = k /\ cardKey' = k

(* The card has seen the host's proof, the host not the card's. *)
HalfOpen == /\ hostKey = None
            /\ \E k \in SessionKeys : cardKey' = k
            /\ UNCHANGED hostKey

(* The host gives its session up, the card with it or not. *)
HostDrops == hostKey' = None /\ cardKey' \in {cardKey, None}

CardDrops == cardKey' = None /\ UNCHANGED hostKey

PairNext == Establish \/ HalfOpen \/ HostDrops \/ CardDrops

PairSpec == PairInit /\ [][PairNext]_pair

(* Two ends that both hold a session key hold the same one: what the       *)
(* authentication of DesfireAuth.h is for.                                 *)
Agreement == hostKey # None /\ cardKey # None => hostKey = cardKey
=============================================================================
