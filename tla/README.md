# TLA+ model of the cjdns peer link controller

These modules model `src/net/IfController.c` (and the peer-state enum of
`src/net/IfController.h`). This is the component that owns the link-layer
interfaces of a cjdns node, the peers reachable through them, their switch
slots, the ping tick that separates lazy, unresponsive and dead peers, and
the PEER / PEER_GONE events that tell the pathfinder which direct peers
exist.

## 1. Inventory

### Parts and how they interact

| Part | Code | Interacts with |
|---|---|---|
| Link interfaces (`ici`) | `IfController_newIface` 740, `IfController_beaconState` 808, `struct IfController_Iface_pvt` 87 | Each link has a peer map keyed by lladdr (`Map_EndpointsBySockaddr`, swap-with-last removal). |
| Peers | `struct Peer` 99 | Each peer holds a CryptoAuth session, one SwitchCore slot (`addr.path`), two timestamps, `pingCount` and `state`. |
| Inbound demux | `handleIncomingFromWire` 705 | Routes each frame to beacon handling, unknown-sender admission, or the peer's session. |
| Peer state machine | `receivedAfterCryptoAuth` 391, `moveEndpointIfNeeded` 373 | Copies the session state into the peer. On establishment it relocates (takes over the slot of an older peer with the same key and frees it) and publishes PEER. |
| Beacons | `handleBeacon` 529, `sendBeacon`/`beaconInterval` 767-806 | A new beacon sender becomes a peer that is announced at once. |
| Unknown senders | `handleUnexpectedIncoming` 645 | Creates an inbound peer, feeds it the first frame, and frees it if the session or the switch refuses. |
| Bootstrap | `IfController_bootstrapPeer` 835, `freeAlloc` 760 | Creates an outbound peer, pings it, and registers a free job on the caller's allocator. |
| Ping tick | `pingCallback` 363, `iciPing` 294, `sendPing` 265 | On each link, scans the map from a random start. It forgets silent incoming peers, publishes PEER_GONE for unresponsive ones (a ping 1 time in 8), and pings lazy ones. It pings at most one peer per link per tick. |
| Ping responses | `onPingResponse` 220 | Stores the version, republishes an ESTABLISHED peer, and stamps `timeOfLastPing`. |
| Peer teardown | `closeInterface` 491 | Runs when a peer's allocator is freed: publishes PEER_GONE and swap-removes the peer from its map. SwitchCore and SwitchPinger drop what sits on that allocator. |
| Disconnect | `IfController_disconnectPeer` 974 | Frees the first peer whose session has the key. |
| Event bus | `sendPeer` 200, `incomingFromEventEmitterIf` 993 | PEERS replays PEER for every ESTABLISHED peer. |
| Outbound data | `sendFromSwitch` 450, `sendAfterCryptoAuth` 504 | Byte counters, and UNDELIVERABLE to the switch once the peer is silent past unresponsiveAfter (the verdict is modelled in PeerTimers). |
| Statistics | `IfController_getPeerStats` 927 | Read-only (not modelled). |

### State
- `icis`: the registered links.
- Per link: `beaconState` and the peer map.
- Per peer: the link, lladdr, key, the session's key (`herKey`), path/slot, state, protocol version, `timeOfLastMessage`, `timeOfLastPing`, `pingCount` and `isIncomingConnection`.
- Outside the controller but changed by it:
  - SwitchCore's slot table;
  - SwitchPinger's outstanding pings (a bounded pool);
  - the pathfinder's set of direct peers, as fed by the events;
  - the free jobs on bootstrap callers' allocators.

### Hard behaviours
- The ping scan frees peers while it iterates over the map it is removing them from.
- Relocation swaps slots and frees a peer in the middle of a frame handler.
- Allocator free jobs run `closeInterface` from whichever handler frees the peer.
- The random start of the scan.
- The 1-in-8 and 6-in-7 throttles on one counter.
- The free job that outlives its peer.

## 2. Modules

`IfController.tla` is the whole controller at the granularity of ping intervals, because its parts share one state: the map, the slots and the events.

- **Event loop.** Everything runs on one libuv event loop, so every handler is one atomic action.
- **Ping tick.** This is the exception. `pingCallback` is split into `PingCallback` (start), `IciPingStart` (the random start offset, chosen with `\E`), one `IciVisit` step per loop iteration (its disjuncts are the branches `IciSkip`, `IciForget`, `IciThrottle`, `IciPingUnresponsive`, `IciPingLazy`), `IciScanEnd`, and `PingCallbackDone`. These steps run atomically too: the handlers are guarded by `tick = Idle`. The split exists so that the loop's reread of `peerMap.count` after a free is modelled as the code does it.
- **Handler composition.** The helpers (`FreePeer` = closeInterface, `SendPing`, `PublishPeer`/`PublishGone` = sendPeer, `MoveEndpointIfNeeded`, `ReceivedAfterCryptoAuth`, `MapRemove`) are functions on the record `Ctl` of the controller state. A handler composes them in the order the code calls them, and `SetCtl` writes the result.

- **Teardown.** `IfaceAllocFreed(l)` is the owner freeing the allocator it gave to `newIface`. Its child allocators close every peer of the link (`FreePeer` for each, in an order the model leaves open: the allocator's child order is not under `src/`, and every order ends in the same state), and the link goes into `freedLinks`. `ic->icis` keeps the entry (753). Handlers reach a link only through `LiveLinks`, except the ping tick, which walks `icis` as the code does. Reading freed memory is undefined behaviour. The model takes the outcome of a build that leaves the memory as it was: the map is empty, so the scan visits nothing.
- **History.** The peer record carries `wasEst`, which is TRUE once the peer has been ESTABLISHED since its allocation. It is used only by `NoRepublishOnRecovery` and is written where the state is copied (`ReceivedAfterCryptoAuth`).

`PeerDirectory.tla` is the abstract specification of what the controller promises its neighbours:
- a directory of live peers per link, each with one lladdr and one switch label;
- addresses unique on a link, and labels unique overall;
- a label passes to another peer only when its holder leaves in the same step (`Transplant`, that is, relocation);
- a closed link never gains a peer.

`IfController` refines it through `Dir == INSTANCE PeerDirectory WITH`, which maps:
- opened to `Registered` and closed to `freedLinks`;
- members to the range of each peer map;
- addrOf and labelOf to the peers' `lladdr` and `path`.

The mapping hides slots in use by nobody, session states, ages, pingCount and map order.

`PeerTimers.tla` models the timers of one peer at sub-interval resolution. The unit is half a ping interval. Ticks fire at every multiple of `PingInterval`, and frames, pongs, API calls and switch sends can happen at any unit, before or after the tick of that same instant. This is what the strict comparisons `now > t + X` of `iciPing` (320, 329) and `sendFromSwitch` (458, 479) need at their boundaries. `IfController.tla` cannot check them, because there events always fall strictly between ticks.
- **State.** Times are ages: `msgAge` is `now - timeOfLastMessage`, `pingAge` is `now - timeOfLastPing`, and `pingOut` holds the ages of the outstanding switch pings. Each is saturated above every threshold it is compared with.
- **Tick branches.** `PingCallback` runs `iciPing`'s branches for the single map entry.
- **Ping timeout.** `Expire` ends a ping at its timeout. Its non-OK response is ignored by `onPingResponse`.
- **Switch verdict.** `Undeliverable` is `sendFromSwitch`'s verdict to the switch.
- **History.** `gones` counts the PEER_GONE events the last step published. It is used only by `GoneOncePerTransition`.
- **Scope.** With one peer there is no relocation and no scan order.

`MCIfController.tla` gives model values, the small sets, the symmetry set, the `PingCountBound` state constraint and `MCPingCountMod8`, the pingCount modulus for runs in which only `% 8` is read.

`Visited` is the peer the next pass of `iciPing`'s loop looks at, index `(i + 1) % count` (300-305). `IciVisit` acts on it, and `SilentPeerVisited` names it.

### Abstractions
- **Time.** Time is kept as whole ping intervals.
  - Frames, pongs and calls happen between ticks, so at a tick the time since such an event lies strictly between `age` and `age+1` intervals, where `age` counts completed ticks.
  - `now < t + pingAfter` is therefore `age < PingAfter`, and `now > t + X` is `age >= X`.
  - Ages advance at the end of each tick, are capped at `ForgetAfter`, and are reset by the assignments in the code.
  - A new peer's `timeOfLastMessage = now - pingAfter - 1` gives `msgAge = PingAfter` (lazy). `timeOfLastPing = 0` from calloc gives the capped age.
- **pingCount.** It is read only as `% 8` and `(x+1) % 7`, so it is kept mod 56. The uint32 wrap at 2^32 is not a multiple of 56, but it is unreachable in practice.
- **CryptoAuth.** A decrypted frame leaves the session in a state chosen from `SessionStates`. Frames that fail to decrypt change nothing. An inbound session learns its remote key once. The first frame of an unknown sender (a hello) never leaves the session ESTABLISHED.
- **SwitchCore.** A free slot from `Labels`, or OUT_OF_SPACE when none is free. The switch's verdict on a forwarded frame is a free boolean.
- **SwitchPinger.** `PingSlots` outstanding pings in total. A pong is `timeout` (any non-OK result), `compat` or `incompat`. Pings die with their peer.
- **Map.** `Map_EndpointsBySockaddr_remove` moves the last entry into the hole. This is the order `moveEndpointIfNeeded`, `disconnectPeer` and the scan see.
- **Pathfinder.** `pfView` is the set of (key, path, version) the pathfinder holds. PEER replaces the entry for its key and path, and PEER_GONE removes it.

### Exclusions
- A `bootstrapPeer` for an lladdr that is already in the map is excluded, because `Map_put`'s behaviour on a duplicate key is external.
- `bootstrapPeer` (848-852), `beaconState` (813) and the frame handlers take a link only from `LiveLinks`, although the code checks only that the index exists in `ic->icis`. These calls on a freed link would read freed memory, the same undefined read that `NoFreedLinkRead` reports for the ping tick. The model leaves them out, so that run's counterexample comes from the tick alone.

## 3. Runs

The `IfController` runs use `PingAfter=1`, `UnresponsiveAfter=2`, `ForgetAfter=3` (the code's ratio is 3:20:256 intervals; only their order matters to the branch structure) and one link. Symmetry over peers, lladdrs and labels is sound, because no definition distinguishes two of them. Keys are not symmetric in the violation runs that name one key.

| Run | Expect | Checks | Bounds | Shows |
|---|---|---|---|---|
| `core` | pass | TypeOK, SwitchBinding | 3 peers, 3 lladdrs, 2 slots, 1 key, all beacon modes, sessions {3,4}, all pong results, pingCount <= 1 | Slots, maps and live peers stay consistent through relocation, OUT_OF_SPACE (3 peers for 2 slots), forgetting in mid-scan, disconnect and scope frees. |
| `view_nobeacon` | pass | ViewSound, DirectoryRefinement | 2 peers, 2 slots, 1 key, no beacons, pingCount <= 2 | Without beacons, every node the pathfinder holds is backed by a live peer. Every step, relocation and link teardown included, is a step of `PeerDirectory`: no address clash on a link, no shared label, no peer on a closed link. This run also fires the throttle branch. |
| `view_beacon` | violation | ViewSound | 2 peers, beacons on | A beacon peer announced before its handshake and then relocated leaves a node on a slot nobody holds (`handleBeacon` 635-637). |
| `key_unique` | violation | EstablishedKeyUnique | 3 peers of one key | `moveEndpointIfNeeded` retires only the first same-key peer, so two ESTABLISHED peers of one key remain. |
| `incompat_announced` | violation | NoIncompatibleAnnounced | 2 peers | The version is stored before the compatibility check (228) and announced on establishment. |
| `scope_double_free` | violation | NoDoubleFree | 2 peers | bootstrapPeer's `freeAlloc` job (879) frees an allocator that disconnect, relocation, link teardown or OUT_OF_SPACE already freed. A bootstrapped peer is never incoming, so it is never forgotten. |
| `liveness` | pass | SilentPeerVisited | 2 peers, 2 lladdrs, 2 slots, 1 ping slot, sessions {4}, no pong ever, pingCount mod 8 with no constraint, `FairSpec` | Every silent peer is eventually visited by `iciPing` (pinged, counted toward its next ping, or forgotten), or stops being silent or is freed first. Each tick pings only one peer per link (313, 344), so this needs the random scan start (300). |
| `freed_link_read` | violation | NoFreedLinkRead | 2 peers, 2 slots, no beacons, sessions {4} | After the owner frees a link, the next `pingCallback` reads the freed ici through `ic->icis` (753, 366). `disconnectPeer` (981), the PEERS replay (1001) and `beaconInterval` (799) make the same read. |
| `timers` (PeerTimers) | pass | TypeOK, UndeliverableMarked | 1 peer; interval 2 units; pingAfter 4, unresponsiveAfter 8, forgetAfter 12, timeout 4 units; sessions {3,4}; `FairSpec` | Without a frame, a peer that `sendFromSwitch` reports UNDELIVERABLE but still counts ESTABLISHED (and so is re-announced by pongs and PEERS replays) is eventually marked UNRESPONSIVE by the 1-in-8 throttle. |
| `gone_once` (PeerTimers) | violation | GoneOncePerTransition | as `timers`, no fairness | PEER_GONE goes out on every tick that finds the peer silent past unresponsiveAfter (332), not once per ESTABLISHED→UNRESPONSIVE transition (spec §8). The counterexample is a bootstrapped peer that never answered, so it was never ESTABLISHED or announced. Forgetting an incoming peer publishes PEER_GONE twice (324 and closeInterface 496). |
| `forget_boundary` (PeerTimers) | violation | ForgetAtForgetAfter | as `gone_once` | The tick at exactly forgetAfter keeps a silent incoming peer (`>` at 320). Spec §8 (boundary behaviours, scenario 4) says it is dropped. The unresponsive test at 329 has the same `>` against scenario 3. |
| `recovery_republish` | violation | NoRepublishOnRecovery | 2 peers, 2 slots, no beacons, sessions {3,4} | A peer that was ESTABLISHED and is UNRESPONSIVE hears a frame. The dead branch at 436 leaves it to the first branch (402-413), which re-announces it and runs relocation again, against spec §9. |

The bounds are enough for these cases:
- Two slots with three peers make OUT_OF_SPACE reachable.
- Three lladdrs and one key make a relocation happen while a third peer sits in the map, so that a swap-remove reorders it.
- `pingCount <= 1` in `core` still reaches the eighth-visit branch (pingCount 0) and the first throttle step. `view_nobeacon` raises it to 2, so the throttle also produces new states.

The liveness run has no `PingCountBound` constraint. A constraint would cut off every behaviour in which a tick keeps counting pings, and the property would hold vacuously. With sessions {4}, the `(pingCount + 1) % 7` branch of `receivedAfterCryptoAuth` (431) cannot be reached, so the code reads pingCount only as `pingCount % 8`. The run therefore replaces `PingCountMod` (56) by `MCPingCountMod8`, which loses nothing. No ping is ever answered, so the ping slot stays taken after the first ping. A pong would only make its peer non-silent, which helps the property. The run thus checks the case in which a peer kept lazy by its frames takes every tick's ping. Two peers are the smallest instance in which the strong fairness on start offsets matters. The run takes about two minutes and reaches 331,634 states.

Between them, the passing runs fire every action and every disjunct. Each property of a passing run has a mutant that TLC kills:

| Mutant | Property it breaks |
|---|---|
| sendPing counting a ping without a slot | TypeOK |
| relocation without the path copy | SwitchBinding |
| closeInterface without PEER_GONE | ViewSound |
| the map's lladdr comparison never matching (a sender already in the map gets a second peer) | DirectoryRefinement |
| iciPing starting every scan at the same index instead of `Random_uint32() % count` (spec §9 warns against it) | SilentPeerVisited |
| a switch ping whose timeout never fires | TypeOK (PeerTimers) |
| the throttle branch not counting the visit (no `pingCount++`) | UndeliverableMarked |

## 4. Fairness

`FairSpec` adds the following to `Spec`:
- **Weak fairness on the tick steps:** `PingCallback`, `IciPingStart`, `IciVisit`, `IciScanEnd` and `PingCallbackDone`.
  - `IfController_new` arms `pingCallback` with `Timeout_setInterval` (1036), so the timer keeps firing while the controller lives.
  - A started tick is one synchronous loop, and it always finishes.
  - This assumes a SwitchPinger is given, which is what cjdns does. Without one, no timer is armed.
- **Strong fairness per start offset on `IciStartOffset(k)`:** an `IciPingStart` that draws `startAt = k` (300).
  - `Random_uint32() % count` keeps producing every offset that is possible infinitely often.
  - The fairness names offsets, not peers. Which peer an offset reaches depends on the map order, and swap-removes change that order between ticks. `SilentPeerVisited` therefore follows only from an argument over map positions: a peer's index never grows while it lives.
  - Each tick pings one peer per link and returns. With a fixed start (the `IciPingStartFixed` mutant), or with only weak fairness on the offsets, TLC finds a silent peer that is never visited.

`PeerTimers.FairSpec` assumes weak fairness on `Advance` (the clock runs) and on `PingCallback` (the interval timer fires when due).

The handlers get no fairness: frames, calls and pongs may never come.

## 5. Not modelled
- Beacon sending (`sendBeacon`, `beaconInterval`, 767-806): these only build a message and call `Iface_send` on every registered link, then re-arm their own timeout. They change no controller state. Their one hazard, walking `ic->icis` after a link is freed, is the read that `NoFreedLinkRead` reports for `pingCallback`.
- The outbound data path beyond the UNDELIVERABLE verdict: byte counters, the message clone, and `sendAfterCryptoAuth` pushing the lladdr.
- `IfController_getPeerStats` (927-972): it copies counters out of the peer maps into a fresh array and changes nothing. Handlers run one at a time, so its `Assert_true(xcount == count)` holds because the counting loop and the copying loop walk the same maps with nothing in between.
- Parsing and rejection paths that change no state: runts, bad beacons, self-beacons, bad keys, decrypt failures.
- Logging and address formatting.
- The internals of CryptoAuth, SwitchCore, SwitchPinger, Map and Allocator (outside `src/`).

## 6. Open questions
1. `disconnectPeer` frees only the first peer with the key (984). It becomes a property once the spec says whether disconnect covers every peer of a key.
2. `bootstrapPeer` on an lladdr already in the map (869). This needs the behaviour of `Map_put` on a duplicate key, which is outside the repository.
3. A refinement from `PeerTimers` to a one-peer instance of `IfController`: ticks as the interval steps, and millisecond ages mapped to interval ages.
