----------------------------- MODULE PeerTimers -----------------------------
(***************************************************************************)
(* The timers of one peer of src/net/IfController.c, in milliseconds (in  *)
(* units of a fixed number of ms), where IfController.tla counts whole     *)
(* ping intervals. Time advances one unit per Advance step; the ping timer *)
(* fires at every multiple of PingInterval, and frames, pongs, API calls   *)
(* and switch sends may happen at any unit, before or after the timer of   *)
(* that same millisecond. This is what the strict comparisons of iciPing() *)
(* and sendFromSwitch() need to be checked at their boundaries.           *)
(*                                                                         *)
(* Times are kept as ages (now - timeOfLastMessage, now - timeOfLastPing,  *)
(* the age of each outstanding switch ping), saturated above every        *)
(* threshold they are compared with. One peer on one link, so the random  *)
(* scan start and relocation play no part.                                 *)
(***************************************************************************)
EXTENDS Integers, FiniteSets

CONSTANTS
    PingInterval,      \* PING_INTERVAL_MILLISECONDS
    PingAfter,         \* PING_AFTER_MILLISECONDS
    UnresponsiveAfter, \* UNRESPONSIVE_AFTER_MILLISECONDS
    ForgetAfter,       \* FORGET_AFTER_MILLISECONDS
    Timeout,           \* TIMEOUT_MILLISECONDS, the switch ping timeout
    MsgAgeCap,         \* saturation of now - timeOfLastMessage
    SessionStates      \* CryptoAuth states a decrypted frame may leave

ASSUME /\ PingInterval > 0 /\ PingAfter > 0
       /\ PingAfter < UnresponsiveAfter /\ UnresponsiveAfter < ForgetAfter
       /\ MsgAgeCap > ForgetAfter + PingInterval
       /\ MsgAgeCap > UnresponsiveAfter + PingInterval
       /\ SessionStates \subseteq 1..4

UNAUTHENTICATED == -2
UNRESPONSIVE == -1
STATE_NEW == 0
ESTABLISHED == 4
PingCountMod == 56   \* pingCount is only read % 8 and (+ 1) % 7

VARIABLES
    phase,      \* now % PingInterval
    tickDue,    \* the ping timer of this millisecond has not fired yet
    alive,      \* the peer's allocator is live
    incoming,   \* ep->isIncomingConnection
    state,      \* ep->state
    msgAge,     \* now - ep->timeOfLastMessage, saturated at MsgAgeCap
    pingAge,    \* now - ep->timeOfLastPing, saturated at PingAfter
    pingCount,  \* ep->pingCount mod PingCountMod
    pingOut,    \* ages of the SwitchPinger pings outstanding for the peer
    advertised, \* the pathfinder holds the node (PEER, then no PEER_GONE)
    gones       \* history: PEER_GONE events the last step published

vars == <<phase, tickDue, alive, incoming, state, msgAge, pingAge, pingCount,
          pingOut, advertised, gones>>

peerVars == <<incoming, state, msgAge, pingAge, pingCount, pingOut>>

Sat(x, cap) == IF x > cap THEN cap ELSE x

TypeOK ==
    /\ phase \in 0..(PingInterval - 1)
    /\ tickDue \in BOOLEAN /\ alive \in BOOLEAN /\ incoming \in BOOLEAN
    /\ state \in UNAUTHENTICATED..ESTABLISHED
    /\ msgAge \in 0..MsgAgeCap
    /\ pingAge \in 0..PingAfter
    /\ pingCount \in 0..(PingCountMod - 1)
    /\ pingOut \subseteq 0..(Timeout - 1)
    /\ advertised \in BOOLEAN
    /\ gones \in 0..2

-----------------------------------------------------------------------------
(* Mutant: a switch ping whose timeout never fires.                        *)
ExpireNever(out) == out

(* SwitchPinger_newPing(..., ic->timeoutMilliseconds, onPingResponse, ...): *)
(* a ping still unanswered at its timeout ends with a non-OK result, which  *)
(* onPingResponse ignores.                                                 *)
Expire(out) == {a \in out : a < Timeout}

(* sendPing(): pingCount counts every attempt; the ping goes out.          *)
SendPing ==
    /\ pingCount' = (pingCount + 1) % PingCountMod
    /\ pingOut' = pingOut \cup {0}

(* sendFromSwitch(): the switch is told UNDELIVERABLE once the peer has    *)
(* been silent past unresponsiveAfter (now - timeOfLastMessage > ...).     *)
Undeliverable == msgAge > UnresponsiveAfter

(* A peer just created: timeOfLastMessage = now - pingAfter - 1 (lazy),    *)
(* timeOfLastPing = 0 from calloc (older than any threshold).              *)
Fresh(inc, st) ==
    /\ alive' = TRUE /\ incoming' = inc /\ state' = st
    /\ msgAge' = PingAfter + 1 /\ pingAge' = PingAfter

Init ==
    /\ phase \in 0..(PingInterval - 1)
    /\ tickDue = FALSE
    /\ alive = FALSE /\ incoming = FALSE /\ state = STATE_NEW
    /\ msgAge = 0 /\ pingAge = 0 /\ pingCount = 0 /\ pingOut = {}
    /\ advertised = FALSE
    /\ gones = 0

-----------------------------------------------------------------------------
(* One millisecond (unit) passes; at a multiple of the interval the ping   *)
(* timer becomes due, and no time passes until it has fired.              *)
Advance ==
    /\ ~tickDue
    /\ phase' = (phase + 1) % PingInterval
    /\ tickDue' = (phase' = 0)
    /\ msgAge' = Sat(msgAge + 1, MsgAgeCap)
    /\ pingAge' = Sat(pingAge + 1, PingAfter)
    /\ pingOut' = Expire({a + 1 : a \in pingOut})
    /\ gones' = 0
    /\ UNCHANGED <<alive, incoming, state, pingCount, advertised>>

(* IfController_bootstrapPeer(): an outbound peer, pinged at once.         *)
BootstrapPeer ==
    /\ ~alive
    /\ Fresh(FALSE, STATE_NEW)
    /\ pingCount' = 1 /\ pingOut' = {0}
    /\ gones' = 0
    /\ UNCHANGED <<phase, tickDue, advertised>>

(* handleBeacon() from a new sender: an incoming peer, announced at once.  *)
HandleBeacon ==
    /\ ~alive
    /\ Fresh(TRUE, STATE_NEW)
    /\ pingCount' = 0 /\ pingOut' = {}
    /\ advertised' = TRUE
    /\ gones' = 0
    /\ UNCHANGED <<phase, tickDue>>

(* closeInterface(), whichever free runs it (disconnectPeer, the scope of *)
(* a bootstrap caller, the link's allocator, a dud first frame): one      *)
(* PEER_GONE and the peer is gone.                                        *)
ClosePeer ==
    /\ alive' = FALSE /\ advertised' = FALSE
    /\ incoming' = FALSE /\ state' = STATE_NEW /\ msgAge' = 0 /\ pingAge' = 0
    /\ pingCount' = 0 /\ pingOut' = {}

FreePeer ==
    /\ alive
    /\ ClosePeer /\ gones' = 1
    /\ UNCHANGED <<phase, tickDue>>

(* receivedAfterCryptoAuth() for a frame the session decrypted, leaving it *)
(* in cs; toMe: byte 7 of the switch header is 1. Below ESTABLISHED,       *)
(* UNRESPONSIVE included, the state is copied and timeOfLastMessage left   *)
(* alone; only an ESTABLISHED peer's frames refresh it.                    *)
ReceivedAfterCryptoAuth(cs, toMe) ==
    /\ alive
    /\ gones' = 0
    /\ IF state < ESTABLISHED
       THEN /\ state' = cs
            /\ IF cs = ESTABLISHED
               THEN advertised' = TRUE /\ UNCHANGED <<pingCount, pingOut>>
               ELSE /\ IF toMe /\ (pingCount + 1) % 7 # 0
                          THEN SendPing ELSE UNCHANGED <<pingCount, pingOut>>
                    /\ UNCHANGED advertised
            /\ UNCHANGED msgAge
       ELSE /\ msgAge' = 0
            /\ UNCHANGED <<state, pingCount, pingOut, advertised>>
    /\ UNCHANGED <<phase, tickDue, alive, incoming, pingAge>>

(* handleUnexpectedIncoming(): an UNAUTHENTICATED incoming peer fed its    *)
(* first frame (a hello, never ESTABLISHED); a dud frame frees it again.   *)
HandleUnexpectedIncoming(cs, toMe, dud) ==
    /\ ~alive
    /\ cs < ESTABLISHED
    /\ alive' = ~dud /\ incoming' = ~dud
    /\ state' = IF dud THEN STATE_NEW ELSE cs
    /\ msgAge' = IF dud THEN 0 ELSE PingAfter + 1
    /\ pingAge' = IF dud THEN 0 ELSE PingAfter
    /\ pingCount' = IF ~dud /\ toMe THEN 1 ELSE 0
    /\ pingOut' = IF ~dud /\ toMe THEN {0} ELSE {}
    /\ gones' = IF dud THEN 1 ELSE 0
    /\ UNCHANGED <<phase, tickDue, advertised>>

(* onPingResponse() for an outstanding ping: a compatible pong stamps     *)
(* timeOfLastPing and republishes an ESTABLISHED peer; an incompatible     *)
(* one stops after storing the version.                                    *)
OnPingResponse(a, compatible) ==
    /\ alive /\ a \in pingOut
    /\ pingOut' = pingOut \ {a}
    /\ pingAge' = IF compatible THEN 0 ELSE pingAge
    /\ advertised' = (advertised \/ (compatible /\ state = ESTABLISHED))
    /\ gones' = 0
    /\ UNCHANGED <<phase, tickDue, alive, incoming, state, msgAge, pingCount>>

(* incomingFromEventEmitterIf(): PEERS replays PEER for an ESTABLISHED peer. *)
PeersReplay ==
    /\ alive /\ state = ESTABLISHED
    /\ advertised' = TRUE
    /\ gones' = 0
    /\ UNCHANGED <<phase, tickDue, alive, peerVars>>

-----------------------------------------------------------------------------
(* The ping timer fires: iciPing() over a map holding at most this peer.   *)
(* now < t + X is age < X, now > t + X is age > X.                        *)

RecentlyHeard(m, g) == m < PingAfter /\ g < PingAfter

TickEmpty ==
    /\ ~alive
    /\ gones' = 0
    /\ UNCHANGED <<alive, peerVars, advertised>>

TickSkip ==
    /\ alive /\ RecentlyHeard(msgAge, pingAge)
    /\ gones' = 0
    /\ UNCHANGED <<alive, peerVars, advertised>>

(* Incoming and silent past forgetAfter: PEER_GONE, then the free, whose  *)
(* closeInterface() publishes PEER_GONE again.                            *)
TickForget ==
    /\ alive /\ ~RecentlyHeard(msgAge, pingAge)
    /\ incoming /\ msgAge > ForgetAfter
    /\ ClosePeer /\ gones' = 2

(* Mutant: the throttle skips the ping without counting the visit.         *)
TickThrottleNoCount ==
    /\ alive /\ ~RecentlyHeard(msgAge, pingAge)
    /\ ~(incoming /\ msgAge > ForgetAfter) /\ msgAge > UnresponsiveAfter
    /\ pingCount % 8 # 0
    /\ advertised' = FALSE /\ gones' = 1
    /\ UNCHANGED <<alive, peerVars>>

(* Unresponsive: PEER_GONE; 7 visits of 8 only count the visit.            *)
TickThrottle ==
    /\ alive /\ ~RecentlyHeard(msgAge, pingAge)
    /\ ~(incoming /\ msgAge > ForgetAfter) /\ msgAge > UnresponsiveAfter
    /\ pingCount % 8 # 0
    /\ pingCount' = (pingCount + 1) % PingCountMod
    /\ advertised' = FALSE /\ gones' = 1
    /\ UNCHANGED <<alive, incoming, state, msgAge, pingAge, pingOut>>

(* Unresponsive on the eighth visit: PEER_GONE, UNRESPONSIVE, ping.        *)
TickPingUnresponsive ==
    /\ alive /\ ~RecentlyHeard(msgAge, pingAge)
    /\ ~(incoming /\ msgAge > ForgetAfter) /\ msgAge > UnresponsiveAfter
    /\ pingCount % 8 = 0
    /\ state' = UNRESPONSIVE /\ SendPing
    /\ advertised' = FALSE /\ gones' = 1
    /\ UNCHANGED <<alive, incoming, msgAge, pingAge>>

(* Lazy: ping.                                                             *)
TickPingLazy ==
    /\ alive /\ ~RecentlyHeard(msgAge, pingAge)
    /\ ~(incoming /\ msgAge > ForgetAfter) /\ msgAge <= UnresponsiveAfter
    /\ SendPing
    /\ gones' = 0
    /\ UNCHANGED <<alive, incoming, state, msgAge, pingAge, advertised>>

PingCallback ==
    /\ tickDue
    /\ tickDue' = FALSE
    /\ \/ TickEmpty \/ TickSkip \/ TickForget \/ TickThrottle
       \/ TickPingUnresponsive \/ TickPingLazy
    /\ UNCHANGED phase

-----------------------------------------------------------------------------
Next ==
    \/ Advance
    \/ PingCallback
    \/ BootstrapPeer
    \/ HandleBeacon
    \/ \E cs \in SessionStates, toMe, dud \in BOOLEAN :
          HandleUnexpectedIncoming(cs, toMe, dud)
    \/ \E cs \in SessionStates, toMe \in BOOLEAN : ReceivedAfterCryptoAuth(cs, toMe)
    \/ \E a \in 0..(Timeout - 1), c \in BOOLEAN : OnPingResponse(a, c)
    \/ PeersReplay
    \/ FreePeer

Spec == Init /\ [][Next]_vars

(* The clock runs and Timeout_setInterval fires the ping timer when due.   *)
Fairness == WF_vars(Advance) /\ WF_vars(PingCallback)

FairSpec == Spec /\ Fairness

-----------------------------------------------------------------------------
(* Properties.                                                             *)

(* A peer sendFromSwitch() already reports UNDELIVERABLE, still counted    *)
(* ESTABLISHED (so pongs and PEERS replays keep re-announcing it), is      *)
(* eventually marked UNRESPONSIVE by the 1-in-8 throttle of iciPing, or    *)
(* freed, or heard from.                                                   *)
UndeliverableMarked ==
    (alive /\ state = ESTABLISHED /\ Undeliverable)
        ~> (~alive \/ state # ESTABLISHED \/ ~Undeliverable)

(* Spec section 8: PEER_GONE is published exactly once on destruction and  *)
(* exactly once on each ESTABLISHED -> UNRESPONSIVE transition, and never  *)
(* otherwise while the peer lives (iciPing, closeInterface).              *)
GoneOncePerTransition ==
    [][gones' > 0 =>
         /\ gones' = 1
         /\ alive' => state = ESTABLISHED /\ state' = UNRESPONSIVE]_vars

(* Spec section 8 (boundary behaviours, scenario 4): a silent incoming     *)
(* peer is dropped by the tick at exactly forgetAfter after its last       *)
(* message.                                                                *)
ForgetAtForgetAfter ==
    [][(PingCallback /\ alive /\ incoming /\ msgAge = ForgetAfter) => ~alive']_vars

=============================================================================
