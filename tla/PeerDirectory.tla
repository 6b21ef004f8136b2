--------------------------- MODULE PeerDirectory ---------------------------
(***************************************************************************)
(* What the peer link controller promises its neighbours (SwitchCore and   *)
(* the link-layer drivers): a directory of peers per link in which a live  *)
(* peer keeps one link-layer address and one switch label, no two peers of *)
(* a link share an address, no two peers share a label, and a label only   *)
(* passes from one peer to another when the old peer leaves in the same    *)
(* step (relocation). A closed link never gains a peer again.              *)
(***************************************************************************)
EXTENDS FiniteSets

CONSTANTS Links, PeerIds, LLAddrs, Labels, Nil

VARIABLES
    opened,   \* links added to the controller
    closed,   \* links whose interface has been torn down
    members,  \* members[l]: the live peers of link l
    addrOf,   \* link-layer address of each live peer, Nil otherwise
    labelOf   \* switch label of each live peer, Nil otherwise

dirVars == <<opened, closed, members, addrOf, labelOf>>

Live == UNION {members[l] : l \in Links}

Init ==
    /\ opened = {}
    /\ closed = {}
    /\ members = [l \in Links |-> {}]
    /\ addrOf = [p \in PeerIds |-> Nil]
    /\ labelOf = [p \in PeerIds |-> Nil]

Open(l) ==
    /\ l \notin opened
    /\ opened' = opened \cup {l}
    /\ UNCHANGED <<closed, members, addrOf, labelOf>>

Join(l, p, a, b) ==
    /\ l \in opened \ closed
    /\ p \notin Live
    /\ \A q \in members[l] : addrOf[q] # a
    /\ \A q \in Live : labelOf[q] # b
    /\ members' = [members EXCEPT ![l] = @ \cup {p}]
    /\ addrOf' = [addrOf EXCEPT ![p] = a]
    /\ labelOf' = [labelOf EXCEPT ![p] = b]
    /\ UNCHANGED <<opened, closed>>

Leave(p) ==
    /\ p \in Live
    /\ members' = [l \in Links |-> members[l] \ {p}]
    /\ addrOf' = [addrOf EXCEPT ![p] = Nil]
    /\ labelOf' = [labelOf EXCEPT ![p] = Nil]
    /\ UNCHANGED <<opened, closed>>

(* p takes over the label of old, a peer of the same link, which leaves.   *)
Transplant(p, old) ==
    /\ \E l \in Links : {p, old} \subseteq members[l]
    /\ p # old
    /\ members' = [l \in Links |-> members[l] \ {old}]
    /\ addrOf' = [addrOf EXCEPT ![old] = Nil]
    /\ labelOf' = [labelOf EXCEPT ![p] = labelOf[old], ![old] = Nil]
    /\ UNCHANGED <<opened, closed>>

Close(l) ==
    /\ l \in opened \ closed
    /\ closed' = closed \cup {l}
    /\ members' = [members EXCEPT ![l] = {}]
    /\ addrOf' = [p \in PeerIds |-> IF p \in members[l] THEN Nil ELSE addrOf[p]]
    /\ labelOf' = [p \in PeerIds |-> IF p \in members[l] THEN Nil ELSE labelOf[p]]
    /\ UNCHANGED opened

Next ==
    \/ \E l \in Links : Open(l) \/ Close(l)
    \/ \E l \in Links, p \in PeerIds, a \in LLAddrs, b \in Labels :
          Join(l, p, a, b)
    \/ \E p \in PeerIds : Leave(p)
    \/ \E p, old \in PeerIds : Transplant(p, old)

Spec == Init /\ [][Next]_dirVars

=============================================================================
