---------------------------- MODULE IfController ----------------------------
(***************************************************************************)
(* The peer link controller of src/net/IfController.c: link interfaces     *)
(* (ici), their peer maps keyed by link-layer address, the per-peer state  *)
(* machine driven by decrypted frames, the ping tick, beacons, bootstrap,  *)
(* disconnect, the switch slots the peers hold and the PEER / PEER_GONE    *)
(* events the pathfinder sees.                                             *)
(*                                                                         *)
(* Everything runs on one event loop, so every handler is one atomic       *)
(* action, except the ping tick, whose scan over a peer map is modelled    *)
(* one loop iteration per step (the map can shrink under the scan).        *)
(*                                                                         *)
(* Time is kept as ages in whole ping intervals. Frames, responses and     *)
(* calls happen between two ticks, never at one, so at a tick the elapsed  *)
(* time since such an event lies strictly between age and age + 1         *)
(* intervals, where age counts the ticks completed since the event. Hence *)
(* now < t + P iff age < P and now > t + U iff age >= U. Ages advance at   *)
(* the end of each tick and are capped at the largest threshold.          *)
(***************************************************************************)
EXTENDS Integers, Sequences, FiniteSets, SequencesExt, Functions

CONSTANTS
    Links,          \* link interfaces that may be registered (newIface)
    PeerIds,        \* Peer structures (allocations) available
    Keys,           \* valid remote public keys (address starts with 0xfc)
    MyKey,          \* the local public key (ca->publicKey)
    BadKey,         \* a public key whose address is not a mesh address
    LLAddrs,        \* link-layer addresses of remote nodes
    Labels,         \* switch slots (path labels) SwitchCore can hand out
    Nil,            \* absent link / lladdr / key / path / peer
    PingAfter,      \* PING_AFTER_MILLISECONDS, in ping intervals
    UnresponsiveAfter, \* UNRESPONSIVE_AFTER_MILLISECONDS, in ping intervals
    ForgetAfter,    \* FORGET_AFTER_MILLISECONDS, in ping intervals
    PingSlots,      \* concurrent pings SwitchPinger accepts
    BeaconModes,    \* beacon states an operator may set (subset of 0..2)
    SessionStates,  \* CryptoAuth states a decrypted frame may leave (1..4)
    PingResults     \* SwitchPinger outcomes: timeout, compat, incompat

ASSUME /\ 0 < PingAfter /\ PingAfter + 1 <= UnresponsiveAfter
       /\ UnresponsiveAfter < ForgetAfter
       /\ BeaconModes \subseteq 0..2
       /\ SessionStates \subseteq 1..4 /\ 4 \in SessionStates
       /\ PingResults \subseteq {"timeout", "compat", "incompat"}

VARIABLES
    icis,        \* ic->icis: registered links in ifNum order
    beaconState, \* ici->beaconState
    peerMap,     \* ici->peerMap: the peers of a link in map order
    allocated,   \* peers whose allocator is live
    ep,          \* the Peer structure of each allocated peer
    slot,        \* SwitchCore: which peer's switchIf sits in each slot
    pings,       \* outstanding SwitchPinger pings, per peer
    pfView,      \* nodes the pathfinder holds as direct peers (event sink)
    scopeJob,    \* peers with a freeAlloc job on the bootstrap caller's scope
    danglingFree, \* a freeAlloc job ran on an allocator already freed
    freedLinks,  \* links whose allocator (ici->alloc) the owner has freed
    tick         \* progress of the running pingCallback

vars == <<icis, beaconState, peerMap, allocated, ep, slot, pings, pfView,
          scopeJob, danglingFree, freedLinks, tick>>

-----------------------------------------------------------------------------
(* IfController_PeerState, with the values of the C enum: UNRESPONSIVE and  *)
(* UNAUTHENTICATED are negative, so both compare below ESTABLISHED.         *)
UNAUTHENTICATED == -2
UNRESPONSIVE == -1
STATE_NEW == 0   \* NEW is a TLA+ keyword
ESTABLISHED == 4
PeerStates == -2..4

Versions == {"unknown", "compat", "incompat"}

(* A pathfinder event carries the node's key, path and version.            *)
Node == [key : Keys, path : Labels, version : Versions]

AgeCap == ForgetAfter
Ages == 0..AgeCap
(* pingCount is only read as pingCount % 8 and (pingCount + 1) % 7.        *)
PingCountMod == 56

PeerRec == [link : Links, lladdr : LLAddrs, key : Keys \cup {Nil},
            herKey : Keys \cup {Nil}, path : Labels, state : PeerStates,
            version : Versions, msgAge : Ages, pingAge : 0..PingAfter,
            pingCount : 0..(PingCountMod - 1), incoming : BOOLEAN,
            wasEst : BOOLEAN]   \* history: has been ESTABLISHED since allocated

NullPeer == [link |-> Nil, lladdr |-> Nil, key |-> Nil, herKey |-> Nil,
             path |-> Nil, state |-> STATE_NEW, version |-> "unknown", msgAge |-> 0,
             pingAge |-> 0, pingCount |-> 0, incoming |-> FALSE, wasEst |-> FALSE]

Idle == [phase |-> "idle", ifx |-> 0, i |-> 0, cnt |-> 0]

-----------------------------------------------------------------------------
(* The controller state a handler reads and writes, as one record, so that *)
(* the steps of a handler compose as functions.                            *)
Ctl == [ep |-> ep, map |-> peerMap, alloc |-> allocated, slot |-> slot,
        pings |-> pings, view |-> pfView]

SetCtl(s) == /\ ep' = s.ep /\ peerMap' = s.map /\ allocated' = s.alloc
             /\ slot' = s.slot /\ pings' = s.pings /\ pfView' = s.view

Registered == Range(icis)

(* Links whose ici is still allocated: only these receive frames and API  *)
(* calls; icis itself keeps every link ever added.                         *)
LiveLinks == Registered \ freedLinks

(* Mutant: the lladdr comparison of the map never matches.                *)
MapAddrsNoMatch(s, l) == {}

MapAddrs(s, l) == {s.ep[q].lladdr : q \in Range(s.map[l])}

FreeLabels(s) == {b \in Labels : s.slot[b] = Nil}

TotalPings(s) == FoldFunction(+, 0, s.pings)

(* Map_EndpointsBySockaddr_remove: the last entry moves into the hole.     *)
MapRemove(m, p) ==
    LET i == SelectInSeq(m, LAMBDA q : q = p)
    IN  SubSeq([m EXCEPT ![i] = m[Len(m)]], 1, Len(m) - 1)

(* sendPeer(): PEER makes the pathfinder (re)learn the node, PEER_GONE     *)
(* makes it drop the node with that key and path.                         *)
ViewGone(v, key, path) == {n \in v : ~(n.key = key /\ n.path = path)}

PublishPeer(s, p) ==
    [s EXCEPT !.view = ViewGone(s.view, s.ep[p].key, s.ep[p].path)
                       \cup {[key |-> s.ep[p].key, path |-> s.ep[p].path,
                              version |-> s.ep[p].version]}]

PublishGone(s, p) ==
    [s EXCEPT !.view = ViewGone(s.view, s.ep[p].key, s.ep[p].path)]

(* Mutant: closeInterface() without the PEER_GONE event.                   *)
FreePeerNoGone(s, p) ==
    [s EXCEPT !.map[s.ep[p].link] = MapRemove(s.map[s.ep[p].link], p),
              !.alloc = s.alloc \ {p},
              !.slot = [b \in Labels |-> IF s.slot[b] = p THEN Nil
                                         ELSE s.slot[b]],
              !.pings[p] = 0,
              !.ep[p] = NullPeer]

(* closeInterface(), run when a peer's allocator is freed: PEER_GONE, out  *)
(* of the map; the switch drops its interface and SwitchPinger its pings.  *)
FreePeer(s, p) ==
    LET g == PublishGone(s, p)
    IN  [g EXCEPT !.map[s.ep[p].link] = MapRemove(s.map[s.ep[p].link], p),
                  !.alloc = s.alloc \ {p},
                  !.slot = [b \in Labels |-> IF s.slot[b] = p THEN Nil
                                             ELSE s.slot[b]],
                  !.pings[p] = 0,
                  !.ep[p] = NullPeer]

(* Mutant: a ping is counted as outstanding even when SwitchPinger_newPing *)
(* returned NULL.                                                          *)
SendPingNoSlotCheck(s, p) ==
    [s EXCEPT !.ep[p].pingCount = (@ + 1) % PingCountMod,
              !.pings[p] = @ + 1]

(* sendPing(): pingCount always counts; the ping itself needs a slot.     *)
SendPing(s, p) ==
    [s EXCEPT !.ep[p].pingCount = (@ + 1) % PingCountMod,
              !.pings[p] = IF TotalPings(s) < PingSlots THEN @ + 1 ELSE @]

(* Map_put and SwitchCore_addInterface for a new peer holding slot b.      *)
AddPeer(s, p, l, b, rec) ==
    [s EXCEPT !.map[l] = Append(@, p), !.alloc = @ \cup {p},
              !.slot[b] = p, !.ep[p] = rec]

(* A fresh peer: timeOfLastMessage = now - pingAfter - 1, so it is lazy;  *)
(* timeOfLastPing = 0 from calloc, older than any threshold.              *)
NewPeer(l, a, key, herKey, b, state, version, incoming) ==
    [link |-> l, lladdr |-> a, key |-> key, herKey |-> herKey, path |-> b,
     state |-> state, version |-> version, msgAge |-> PingAfter,
     pingAge |-> PingAfter, pingCount |-> 0, incoming |-> incoming,
     wasEst |-> FALSE]

(* A Peer structure that may be allocated now: not live, and not named by *)
(* a pending freeAlloc job.                                               *)
Spare == PeerIds \ (allocated \cup scopeJob)

-----------------------------------------------------------------------------
Init ==
    /\ icis = <<>>
    /\ beaconState = [l \in Links |-> 0]
    /\ peerMap = [l \in Links |-> <<>>]
    /\ allocated = {}
    /\ ep = [p \in PeerIds |-> NullPeer]
    /\ slot = [b \in Labels |-> Nil]
    /\ pings = [p \in PeerIds |-> 0]
    /\ pfView = {}
    /\ scopeJob = {}
    /\ danglingFree = FALSE
    /\ freedLinks = {}
    /\ tick = Idle

TypeOK ==
    /\ icis \in Seq(Links) /\ IsInjective(icis)
    /\ beaconState \in [Links -> 0..2]
    /\ peerMap \in [Links -> Seq(PeerIds)]
    /\ allocated \subseteq PeerIds
    /\ \A p \in PeerIds : ep[p] \in IF p \in allocated THEN PeerRec
                                   ELSE {NullPeer}
    /\ slot \in [Labels -> PeerIds \cup {Nil}]
    /\ pings \in [PeerIds -> 0..PingSlots]
    /\ pfView \subseteq Node
    /\ scopeJob \subseteq PeerIds
    /\ danglingFree \in BOOLEAN
    /\ freedLinks \subseteq Registered
    /\ tick.phase \in {"idle", "link", "scan"}


-----------------------------------------------------------------------------
(* Mutant: relocation swaps the switch interfaces but leaves addr.path.   *)
MoveEndpointNoPathCopy(s, p) ==
    LET m == s.map[s.ep[p].link]
        j == SelectInSeq(m, LAMBDA q : q # p /\ s.ep[q].key = s.ep[p].key)
        old == m[j]
    IN  IF j = 0 THEN s
        ELSE FreePeer([s EXCEPT !.slot[s.ep[old].path] = p,
                                !.slot[s.ep[p].path] = old], old)

(* moveEndpointIfNeeded(): the first other peer of the link (map order)    *)
(* with the same key hands its switch slot to p and is freed.              *)
MoveEndpointIfNeeded(s, p) ==
    LET m == s.map[s.ep[p].link]
        j == SelectInSeq(m, LAMBDA q : q # p /\ s.ep[q].key = s.ep[p].key)
        old == m[j]
    IN  IF j = 0 THEN s
        ELSE FreePeer([s EXCEPT !.ep[p].path = s.ep[old].path,
                                !.slot[s.ep[old].path] = p,
                                !.slot[s.ep[p].path] = old], old)

(* receivedAfterCryptoAuth(): a frame the session of p decrypted; cs is    *)
(* the session state after it, toMe that byte 7 of its switch header is 1. *)
(* Result: the new state and whether the frame went on to the switch.      *)
(* UNRESPONSIVE (-1) is below ESTABLISHED, so a recovering peer takes the  *)
(* first branch; the UNRESPONSIVE-and-ESTABLISHED branch (436-439) is dead. *)
ReceivedAfterCryptoAuth(s, p, cs, toMe) ==
    LET e == s.ep[p]
        tracked == [s EXCEPT !.ep[p].state = cs, !.ep[p].key = e.herKey,
                             !.ep[p].wasEst = @ \/ cs = ESTABLISHED]
    IN  CASE e.state < ESTABLISHED /\ cs = ESTABLISHED ->
               [s |-> PublishPeer(MoveEndpointIfNeeded(tracked, p), p),
                fwd |-> TRUE]
          [] e.state < ESTABLISHED /\ ~toMe ->
               [s |-> tracked, fwd |-> FALSE]
          [] e.state < ESTABLISHED ->
               [s |-> IF (e.pingCount + 1) % 7 # 0 THEN SendPing(tracked, p)
                      ELSE tracked,
                fwd |-> TRUE]
          [] OTHER ->
               [s |-> [s EXCEPT !.ep[p].msgAge = 0], fwd |-> TRUE]

-----------------------------------------------------------------------------
(* Handlers. None runs while pingCallback is running.                      *)

IfController_newIface(l) ==
    /\ tick = Idle
    /\ l \notin Registered
    /\ icis' = Append(icis, l)
    /\ UNCHANGED <<beaconState, freedLinks, peerMap, allocated, ep, slot, pings, pfView,
                   scopeJob, danglingFree, tick>>

IfController_beaconState(l, mode) ==
    /\ tick = Idle
    /\ l \in LiveLinks
    /\ beaconState' = [beaconState EXCEPT ![l] = mode]
    /\ UNCHANGED <<icis, freedLinks, peerMap, allocated, ep, slot, pings, pfView,
                   scopeJob, danglingFree, tick>>

(* bootstrapPeer() with a valid key on a registered link. The freeAlloc   *)
(* job goes on the caller's scope before SwitchCore_addInterface, and      *)
(* stays there when that fails (OUT_OF_SPACE) and the peer is freed.       *)
IfController_bootstrapPeer(l, k, a, p) ==
    /\ tick = Idle
    /\ l \in LiveLinks
    /\ k \in Keys
    /\ a \notin MapAddrs(Ctl, l)
    /\ p \in Spare
    /\ scopeJob' = scopeJob \cup {p}
    /\ \/ \E b \in FreeLabels(Ctl) :
            SetCtl(SendPing(AddPeer(Ctl, p, l, b,
                     NewPeer(l, a, k, k, b, STATE_NEW, "unknown", FALSE)), p))
       \/ /\ FreeLabels(Ctl) = {}
          /\ UNCHANGED <<peerMap, allocated, ep, slot, pings, pfView>>
    /\ UNCHANGED <<icis, beaconState, freedLinks, danglingFree, tick>>

(* handleBeacon() of a beacon that passes every check from a sender with  *)
(* no peer yet: the new peer is announced to the pathfinder at once.      *)
(* A sender already in the map only gets CryptoAuth_setAuth.              *)
HandleBeacon(l, a, k, p) ==
    /\ tick = Idle
    /\ l \in LiveLinks
    /\ beaconState[l] # 0
    /\ k \in Keys
    /\ a \notin MapAddrs(Ctl, l)
    /\ p \in Spare
    /\ \E b \in FreeLabels(Ctl) :
          SetCtl(PublishPeer(AddPeer(Ctl, p, l, b,
                   NewPeer(l, a, k, k, b, STATE_NEW, "compat", TRUE)), p))
    /\ UNCHANGED <<icis, beaconState, freedLinks, scopeJob, danglingFree, tick>>

(* handleUnexpectedIncoming(): a peer for an unknown sender, with an       *)
(* inbound session, fed the first frame. A frame the session rejects, or   *)
(* the switch refuses, frees the peer again. A first frame (a hello) never *)
(* leaves a new inbound session ESTABLISHED.                               *)
HandleUnexpectedIncoming(l, a, p, cs, hk, toMe, switchOk) ==
    /\ tick = Idle
    /\ l \in LiveLinks
    /\ a \notin MapAddrs(Ctl, l)
    /\ p \in Spare
    /\ cs < ESTABLISHED
    /\ \E b \in FreeLabels(Ctl) :
         LET s1 == AddPeer(Ctl, p, l, b, NewPeer(l, a, Nil, hk, b,
                                UNAUTHENTICATED, "unknown", TRUE))
             r == ReceivedAfterCryptoAuth(s1, p, cs, toMe)
         IN  /\ r.fwd \/ switchOk
             /\ SetCtl(IF r.fwd /\ ~switchOk THEN FreePeer(r.s, p) ELSE r.s)
    /\ UNCHANGED <<icis, beaconState, freedLinks, scopeJob, danglingFree, tick>>

(* handleIncomingFromWire() for a known sender whose session decrypts the  *)
(* frame; an inbound session learns the remote key hk on its first frame.  *)
HandleIncomingFromWire(l, p, cs, hk, toMe) ==
    /\ tick = Idle
    /\ l \in LiveLinks
    /\ p \in Range(peerMap[l])
    /\ hk \in IF ep[p].herKey = Nil THEN Keys ELSE {ep[p].herKey}
    /\ SetCtl(ReceivedAfterCryptoAuth([Ctl EXCEPT !.ep[p].herKey = hk],
                                      p, cs, toMe).s)
    /\ UNCHANGED <<icis, beaconState, freedLinks, scopeJob, danglingFree, tick>>

(* onPingResponse() for an outstanding ping of p. The version is stored   *)
(* before it is checked for compatibility.                                *)
OnPingResponse(p, res) ==
    /\ tick = Idle
    /\ pings[p] > 0
    /\ LET s1 == [Ctl EXCEPT !.pings[p] = @ - 1]
           s2 == [s1 EXCEPT !.ep[p].version = res]
       IN  CASE res = "timeout" -> SetCtl(s1)
             [] res = "incompat" -> SetCtl(s2)
             [] OTHER ->
                  SetCtl([(IF ep[p].state = ESTABLISHED THEN PublishPeer(s2, p)
                           ELSE s2) EXCEPT !.ep[p].pingAge = 0])
    /\ UNCHANGED <<icis, beaconState, freedLinks, scopeJob, danglingFree, tick>>

(* disconnectPeer(): the first peer, in link then map order, whose session *)
(* has key k.                                                              *)
IfController_disconnectPeer(k) ==
    LET order == FlattenSeq([j \in 1..Len(icis) |-> peerMap[icis[j]]])
        j == SelectInSeq(order, LAMBDA q : ep[q].herKey = k)
    IN  /\ tick = Idle
        /\ j # 0
        /\ SetCtl(FreePeer(Ctl, order[j]))
        /\ UNCHANGED <<icis, beaconState, freedLinks, scopeJob, danglingFree, tick>>

(* The bootstrap caller frees its scope: freeAlloc() frees the peer's      *)
(* allocator, whether or not it is still live.                            *)
FreeBootstrapScope(p) ==
    /\ tick = Idle
    /\ p \in scopeJob
    /\ scopeJob' = scopeJob \ {p}
    /\ IF p \in allocated
       THEN SetCtl(FreePeer(Ctl, p)) /\ UNCHANGED danglingFree
       ELSE /\ danglingFree' = TRUE
            /\ UNCHANGED <<peerMap, allocated, ep, slot, pings, pfView>>
    /\ UNCHANGED <<icis, beaconState, freedLinks, tick>>

(* The owner frees the allocator it passed to newIface(). Every peer's     *)
(* allocator is a child of it, so closeInterface() runs for each peer of   *)
(* the link; the ici goes with it, but ic->icis keeps pointing at it.      *)
IfaceAllocFreed(l) ==
    /\ tick = Idle
    /\ l \in LiveLinks
    /\ SetCtl(FoldSeq(LAMBDA q, acc : FreePeer(acc, q), Ctl, peerMap[l]))
    /\ freedLinks' = freedLinks \cup {l}
    /\ UNCHANGED <<icis, beaconState, scopeJob, danglingFree, tick>>

(* incomingFromEventEmitterIf(): PFChan_Pathfinder_PEERS replays a PEER    *)
(* event for every ESTABLISHED peer.                                      *)
NodeOf(p) == [key |-> ep[p].key, path |-> ep[p].path, version |-> ep[p].version]

IncomingFromEventEmitterIf ==
    LET est == {p \in allocated : ep[p].state = ESTABLISHED}
    IN  /\ tick = Idle
        /\ pfView' = {n \in pfView : \A p \in est :
                         ~(n.key = ep[p].key /\ n.path = ep[p].path)}
                     \cup {NodeOf(p) : p \in est}
        /\ UNCHANGED <<icis, beaconState, freedLinks, peerMap, allocated, ep, slot,
                       pings, scopeJob, danglingFree, tick>>

-----------------------------------------------------------------------------
(* pingCallback(), every PING_INTERVAL_MILLISECONDS: iciPing() runs on    *)
(* each registered link in ifNum order; when it is done, one more interval *)
(* has been completed for every live peer's ages.                         *)
PingCallback ==
    /\ tick = Idle
    /\ tick' = [Idle EXCEPT !.phase = "link", !.ifx = 1]
    /\ UNCHANGED <<icis, beaconState, freedLinks, peerMap, allocated, ep, slot, pings,
                   pfView, scopeJob, danglingFree>>

NextLink == [Idle EXCEPT !.phase = "link", !.ifx = tick.ifx + 1]

PingCallbackDone ==
    /\ tick.phase = "link"
    /\ tick.ifx > Len(icis)
    /\ ep' = [p \in PeerIds |->
                IF p \in allocated
                THEN [ep[p] EXCEPT !.msgAge = Min({@ + 1, AgeCap}),
                                   !.pingAge = Min({@ + 1, PingAfter})]
                ELSE ep[p]]
    /\ tick' = Idle
    /\ UNCHANGED <<icis, beaconState, freedLinks, peerMap, allocated, slot, pings,
                   pfView, scopeJob, danglingFree>>

(* Mutant: the scan always starts at the same index, not a random one.   *)
IciPingStartFixed ==
    /\ tick.phase = "link"
    /\ tick.ifx <= Len(icis)
    /\ LET n == Len(peerMap[icis[tick.ifx]])
       IN  \/ n = 0 /\ tick' = NextLink
           \/ n > 0 /\ tick' = [phase |-> "scan", ifx |-> tick.ifx, i |-> 0,
                                cnt |-> 0]
    /\ UNCHANGED <<icis, beaconState, freedLinks, peerMap, allocated, ep, slot, pings,
                   pfView, scopeJob, danglingFree>>

(* iciPing() entry: nothing to do on an empty map, else the scan starts    *)
(* at Random_uint32() % count.                                            *)
IciPingStart ==
    /\ tick.phase = "link"
    /\ tick.ifx <= Len(icis)
    /\ LET n == Len(peerMap[icis[tick.ifx]])   \* emptied if the ici is freed
       IN  \/ n = 0 /\ tick' = NextLink
           \/ \E startAt \in 0..(n - 1) :
                 tick' = [phase |-> "scan", ifx |-> tick.ifx, i |-> startAt,
                          cnt |-> 0]
    /\ UNCHANGED <<icis, beaconState, freedLinks, peerMap, allocated, ep, slot, pings,
                   pfView, scopeJob, danglingFree>>

(* The loop condition count < peerMap.count is read afresh on every pass. *)
IciScanEnd ==
    /\ tick.phase = "scan"
    /\ tick.cnt >= Len(peerMap[icis[tick.ifx]])
    /\ tick' = NextLink
    /\ UNCHANGED <<icis, beaconState, freedLinks, peerMap, allocated, ep, slot, pings,
                   pfView, scopeJob, danglingFree>>

Silent(e) == ~(e.msgAge < PingAfter /\ e.pingAge < PingAfter)
Forgotten(e) == e.incoming /\ e.msgAge >= ForgetAfter
Unresponsive(e) == e.msgAge >= UnresponsiveAfter

(* Heard from recently and pinged recently: continue.                      *)
IciSkip(p, next) ==
    /\ ~Silent(ep[p])
    /\ tick' = next
    /\ UNCHANGED <<peerMap, allocated, ep, slot, pings, pfView>>

(* An incoming peer silent past forgetAfter: PEER_GONE, freed, continue.   *)
IciForget(p, next) ==
    /\ Silent(ep[p]) /\ Forgotten(ep[p])
    /\ SetCtl(FreePeer(PublishGone(Ctl, p), p))
    /\ tick' = next

(* Unresponsive: PEER_GONE; 7 of 8 visits only count and continue.         *)
IciThrottle(p, next) ==
    /\ Silent(ep[p]) /\ ~Forgotten(ep[p]) /\ Unresponsive(ep[p])
    /\ ep[p].pingCount % 8 # 0
    /\ SetCtl([PublishGone(Ctl, p) EXCEPT
                 !.ep[p].pingCount = (@ + 1) % PingCountMod])
    /\ tick' = next

(* Unresponsive on the eighth visit: PEER_GONE, UNRESPONSIVE, ping, return. *)
IciPingUnresponsive(p, next) ==
    /\ Silent(ep[p]) /\ ~Forgotten(ep[p]) /\ Unresponsive(ep[p])
    /\ ep[p].pingCount % 8 = 0
    /\ SetCtl(SendPing([PublishGone(Ctl, p) EXCEPT
                          !.ep[p].state = UNRESPONSIVE], p))
    /\ tick' = NextLink

(* Lazy: ping and return.                                                  *)
IciPingLazy(p, next) ==
    /\ Silent(ep[p]) /\ ~Forgotten(ep[p]) /\ ~Unresponsive(ep[p])
    /\ SetCtl(SendPing(Ctl, p))
    /\ tick' = NextLink

(* The peer the next pass of the loop looks at: index (i + 1) % count.     *)
Visited ==
    LET m == peerMap[icis[tick.ifx]]
    IN  m[((tick.i + 1) % Len(m)) + 1]

(* One pass of the loop: the peer at the next index, and what iciPing()   *)
(* does with it. Continue moves on; a ping ends the scan of this link.     *)
IciVisit ==
    /\ tick.phase = "scan"
    /\ LET m == peerMap[icis[tick.ifx]]
           i == (tick.i + 1) % Len(m)
           p == Visited
           next == [tick EXCEPT !.i = i, !.cnt = @ + 1]
       IN  /\ tick.cnt < Len(m)
           /\ \/ IciSkip(p, next)
              \/ IciForget(p, next)
              \/ IciThrottle(p, next)
              \/ IciPingUnresponsive(p, next)
              \/ IciPingLazy(p, next)
    /\ UNCHANGED <<icis, beaconState, freedLinks, scopeJob, danglingFree>>

-----------------------------------------------------------------------------
Next ==
    \/ \E l \in Links : IfController_newIface(l)
    \/ \E l \in Links, mode \in BeaconModes : IfController_beaconState(l, mode)
    \/ \E l \in Links, k \in Keys, a \in LLAddrs, p \in PeerIds :
          IfController_bootstrapPeer(l, k, a, p)
    \/ \E l \in Links, a \in LLAddrs, k \in Keys, p \in PeerIds :
          HandleBeacon(l, a, k, p)
    \/ \E l \in Links, a \in LLAddrs, p \in PeerIds, cs \in SessionStates,
          hk \in Keys, toMe, ok \in BOOLEAN :
          HandleUnexpectedIncoming(l, a, p, cs, hk, toMe, ok)
    \/ \E l \in Links, p \in PeerIds, cs \in SessionStates, hk \in Keys,
          toMe \in BOOLEAN :
          HandleIncomingFromWire(l, p, cs, hk, toMe)
    \/ \E p \in PeerIds, res \in PingResults :
          OnPingResponse(p, res)
    \/ \E k \in Keys : IfController_disconnectPeer(k)
    \/ \E p \in PeerIds : FreeBootstrapScope(p)
    \/ \E l \in Links : IfaceAllocFreed(l)
    \/ IncomingFromEventEmitterIf
    \/ PingCallback
    \/ PingCallbackDone
    \/ IciPingStart
    \/ IciScanEnd
    \/ IciVisit

Spec == Init /\ [][Next]_vars

(* A scan that starts at offset k: startAt = Random_uint32() % count = k.  *)
IciStartOffset(k) ==
    /\ IciPingStart
    /\ tick'.phase = "scan"
    /\ tick'.i = k

(* The ping timer re-arms itself forever and the loop of iciPing always    *)
(* runs to its end, so every step of the tick is weakly fair. The start    *)
(* offset is Random_uint32() % count: an offset that is possible on        *)
(* infinitely many scans is eventually drawn. Which peer an offset reaches *)
(* depends on the map order, which swap-removes change between ticks.      *)
Fairness ==
    /\ WF_vars(PingCallback)
    /\ WF_vars(IciPingStart)
    /\ WF_vars(IciVisit)
    /\ WF_vars(IciScanEnd)
    /\ WF_vars(PingCallbackDone)
    /\ \A k \in 0..(Cardinality(PeerIds) - 1) : SF_vars(IciStartOffset(k))

FairSpec == Spec /\ Fairness

-----------------------------------------------------------------------------
(* Properties.                                                             *)

(* Relocation and every free keep peers and switch slots in one-to-one     *)
(* correspondence: each live peer's switchIf sits in exactly the slot its  *)
(* addr.path names, and no slot holds a freed peer's interface. This is   *)
(* what moveEndpointIfNeeded's path copy, SwitchCore_swapInterfaces and   *)
(* the free of the old peer must keep together.                           *)
SwitchBinding ==
    /\ \A p \in allocated : slot[ep[p].path] = p
    /\ \A b \in Labels : slot[b] # Nil => slot[b] \in allocated
                                          /\ ep[slot[b]].path = b

(* Every node the pathfinder holds as a direct peer (after PEER events     *)
(* and before the matching PEER_GONE) is a live peer with that key,       *)
(* holding that switch slot: the pathfinder never routes over a slot no   *)
(* peer holds. handleBeacon's comment relies on this when it announces a   *)
(* peer before its session is established.                                *)
ViewSound ==
    \A n \in pfView : \E p \in allocated : ep[p].key = n.key
                                           /\ ep[p].path = n.path

(* At most one ESTABLISHED peer per link and remote key (spec section 3):  *)
(* relocation retires the older session of a key when a new one is        *)
(* established.                                                            *)
EstablishedKeyUnique ==
    \A l \in Links : \A p, q \in Range(peerMap[l]) :
        (p # q /\ ep[p].state = ESTABLISHED /\ ep[q].state = ESTABLISHED)
            => ep[p].key # ep[q].key

(* No PEER event announces a version the switch ping found incompatible.  *)
NoIncompatibleAnnounced ==
    \A n \in pfView : n.version # "incompat"

(* A bootstrap caller's scope never frees a peer allocator twice.          *)
NoDoubleFree == ~danglingFree

(* The ping tick only visits links whose ici is still allocated: iciPing() *)
(* dereferences ici->peerMap for every entry of ic->icis.                  *)
NoFreedLinkRead ==
    tick.phase = "link" /\ tick.ifx <= Len(icis) => icis[tick.ifx] \notin freedLinks

(* Spec section 9: a frame that brings back a peer that was ESTABLISHED and *)
(* went UNRESPONSIVE, its session still ESTABLISHED, only restores the     *)
(* state; it does not re-announce the peer (the UNRESPONSIVE branch of     *)
(* receivedAfterCryptoAuth).                                               *)
NoRepublishOnRecovery ==
    [][\A p \in allocated :
          (ep[p].wasEst /\ ep[p].state = UNRESPONSIVE
                        /\ ep'[p].state = ESTABLISHED)
              => UNCHANGED pfView]_vars

(* Every silent peer is eventually looked at by iciPing (pinged, counted  *)
(* toward its next ping, or forgotten) unless it stops being silent or is *)
(* freed first; ticks hold off every handler, so the next pass of the     *)
(* loop then looks at it. Each tick pings one peer per link and returns,  *)
(* so a peer kept lazy by its frames can take every tick's ping. The other *)
(* peers are reached only through the random start offset, and which peer *)
(* an offset reaches moves as swap-removes reorder the map between ticks. *)
SilentPeerVisited ==
    LET silent(p) == p \in allocated /\ Silent(ep[p])
        visitedNext(p) == /\ tick.phase = "scan"
                          /\ tick.cnt < Len(peerMap[icis[tick.ifx]])
                          /\ Visited = p
    IN  \A p \in PeerIds : silent(p) ~> (~silent(p) \/ visitedNext(p))

(* The peer directory the controller maintains, seen through its maps:     *)
(* members are the map entries, addresses and labels those of live peers.  *)
Dir == INSTANCE PeerDirectory WITH
           opened <- Registered,
           closed <- freedLinks,
           members <- [l \in Links |-> Range(peerMap[l])],
           addrOf <- [p \in PeerIds |-> ep[p].lladdr],
           labelOf <- [p \in PeerIds |-> ep[p].path]

(* Every step of the controller, whatever handler or tick step it is, is a *)
(* step of the directory: a peer joins with a fresh address and a free     *)
(* label, leaves, hands its label over in a relocation, or its link is    *)
(* torn down, and nothing else ever happens to addresses and labels.       *)
DirectoryRefinement == Dir!Spec

=============================================================================
