# A TLA+ model of redscarf_proxy

redscarf_proxy lets a World of Warcraft 3.4.3 client (build 54261) play on a 3.3.5a
realm. It is a protocol translator with state: the client's protocol is asynchronous and
names every request by an ID, the realm's protocol is older, names things by spell, item
or GUID, and answers in its own order. The hard part of the proxy is the state it keeps to
pair the two, and that state is shared by several goroutines. This directory models
that part, checks it with TLC and proves the properties that matter with TLAPS.

## The system

### Goroutines and state

One `proxySession` (`src/internal/proxy/server.go:81-205`) holds what the proxy knows of one
client. Its goroutines are

| goroutine | code | reads from | changes |
|---|---|---|---|
| realm connection | `handleRealmWorld` | the client's first socket | login, character list, and every play packet |
| instance connection | `handleInstanceWorld` | the client's second socket | every play packet |
| relay | `relayLegacyWorld` | the realm's socket | everything the realm reports |
| timers | `scheduleLegacyReadyCheckFinish` | - | the ready-check generation |

They share the session under `worldMu`. The pattern everywhere is: take the lock, read and
change state, copy out what is to be sent, unlock, write. *The writes are therefore not atomic
with the state change*, and two goroutines' writes interleave in any order. The server adds three
maps (`sessions`, `worldSessions`, `instanceSessions`) under `sessionsMu` and the party orders
under `partyOrdersMu`.

### Inventory

| component | state | operations | what makes it hard | what makes it correct | module |
|---|---|---|---|---|---|
| Cast queue (`spell_queue.go`, `spell_cast_matching.go`) | `pendingCasts`, `spellQueue` (active attempt, held cast, retired and stale spell), `completedCastIDs` | cast, item use, pet cast, cancel, START, GO, CAST_FAILED, PET_CAST_FAILED, logout | answers name a spell only; the same spell is asked for many times; two goroutines; retries and fuses | every cast ID is answered once and in order; one request per spell; a held cast is released once | SpellQueue |
| Spell relay for other units | `pendingObjectSpells` | START/GO before the unit's create, flush after it | order of spells and creates, a cap of 128 | a unit's spells are shown in order, after its create, on its map | WorldObjects |
| World objects | GUID maps, visible set, boss frames, field caches | UPDATE_OBJECT, destroy, encounter events | units and frames come and go in any order | boss frames are those of the engaged units in sight | WorldObjects (identities and frames; not the fields) |
| World transfer | `waitingForNewWorld`, `waitingForWorldPortAck`, `currentMapID` | TRANSFER_PENDING, NEW_WORLD, TRANSFER_ABORTED, port response | repeated and crossing transfers | each transfer is acknowledged; client, proxy and realm end on one map | WorldObjects |
| World entry | `instanceKey`, `instanceSessions`, `instanceWorld`, `pendingInstance`, the completed-quest flags, the relay's deferred and replayed packets | PLAYER_LOGIN, instance connection, quest response, LOGOUT_COMPLETE | two sockets of one client attach in any order; login packets are held back | the client sees the realm's packets of its login once, in order, and its quests before its player | WorldEntry |
| Realm login | `sessions`, `worldSessions`, `hasRealm`, join secret | REST login, BNet RPCs, realm join, AUTH_SESSION | three connections present tickets of one another | a world connection belongs to the client that joined, on the realm it joined | RealmLogin |
| Party | `partyGUID`, members, sequence, `partyOrders` | GROUP_LIST, logout | many viewers, delayed snapshots | one member order for all viewers | Party |
| Ready check | `readyCheckGeneration`, timers | check, its 30 s timer, FINISHED, logout | timers race checks and each other | a timer ends only its own check, and a check ends | ReadyCheck |
| Chat and names | `playerNames`, `pendingPlayerNameQueries`, `pendingNamedChats`, `playerIdentities` | name query and response, chat, group list | deduplication, caps | a whisper is shown once, in order, and none is forgotten | NameQueries (whispers) |
| Loot rolls | `lootRolls`, `completedLootRolls` | roll start, vote, result | answers that leave the GUID out | the client's dialogs are the realm's rolls | LootRolls |
| Loot window | `lootLegacyGUID`, `lootObjModern`, `masterLootCandidates` and what was sent of them | loot, release, gift; candidate list, response, notice, release of the realm | corpse and object are remembered at different times | a gift is of the window's corpse, a window has its list | LootWindow (master loot) |
| Character list | `pendingCreateName`, `awaitingCreateEnum` | list, create, delete and their answers | the relay asks for a list of its own, and a flag tells it from the client's | one answer to each request | CharacterList |
| Taxi | `currentTaxiNode`, `usableTaxiNodes`, `taxiReplyPending`, `taxiLoginGraceUntil`, the table of paths | menu, request, reply, splines, login | the proxy finds the route; the reply is held for a spline | the route is the cheapest; a flight is started once | Taxi |
| Inventory (`inventory.go`, `active_player.go`) | `objectFields`, `questItemSyncPending` | requests that name an item by its place, field updates | two numberings of the places in two files, a dozen parsers; a count that waits for an update | a request acts on what the client showed; the count follows | Inventory |
| Layout profiles (`cuf_profiles.go`) | one file per account and realm | save, load | a crash during a save | a reader sees a complete profile | ProfileStore |
| Trade | trade IDs and counters | trade status | mostly translation of data | - | - |
| Packet codecs (`modernworld`) | none | encode, decode | volume | - | - |
| World connections (`modernworld/world.go`, `legacyworld`) | cipher state and counters, framing | handshake, read, write | switch to encryption between two packets | both ends agree on the counter | - |
| Legacy authentication | none | SRP6, realm list | arithmetic | - | - |
| Server lifecycle, launcher | listeners, processes | start, stop | operating system | - | - |

The modelled state is by far the smaller part of the code by lines; most of the 52,000 lines
of Go are stateless codecs.

### Modules

| module | composed in | abstract specification | proofs | runs |
|---|---|---|---|---|
| SpellQueue | MCSpellQueue | CastLifecycle | SpellQueueProofs | `spell_core`, `spell_dismiss`, `spell_evict`, `spell_live`, `spell_lost`, `spell_orphan` |
| WorldEntry | MCWorldEntry | LoginStream | WorldEntryProofs, WorldStreamProofs | `entry_once`, `entry_again` |
| WorldObjects | MCWorldObjects | - | WorldObjectsProofs | `world`, `world_gone` |
| Party | MCServer | - | PartyProofs, ServerProofs | `server` |
| RealmLogin | MCServer | - | RealmLoginProofs, ServerProofs | `server` |
| ProfileStore, NameQueries, LootRolls, CharacterList, Taxi | MCServer | - | ServerProofs | `server` |
| ReadyCheck | MCServer | - | ServerProofs (types) | `server` |
| LootWindow | MCServer, and alone | - | ServerProofs | `server`, `loot_list` |
| Inventory | MCServer | - | InventoryProofs, ServerProofs | `server` |

MCServer puts together components that share *no* state, so that one run checks each of them: a
behaviour chooses one of them in its first state (`focus`) and the others rest. Nothing is claimed about their
interleaving, which could add nothing. Variables of two components with one name are renamed there. The constants of an instanced module are assumed in the MC module that instances it.

## Plan

Done: the cast queue with both goroutines and its refinement; world entry with its refinement; the objects of a map,
what waits for them, and transfers; the group order, realm login and profile file, which belong to the server; names, ready
checks, loot rolls, the loot window, the character list, flights and the inventory, which belong to a session.

Left, in this order:

1. the joint behaviour of WorldEntry and WorldObjects (a login while a transfer of the last one is under way);
2. the corpse's location after a second death and pet names: small states of a session that are read by a later packet;
3. the cipher counters of the two world handshakes.

Every invariant and every action property of the passing runs is a theorem, under the hypotheses named with it; what is left to TLC is liveness.

Twelve runs are used, and forty properties are checked by the passing ones.

## SpellQueue

### State

Casts are numbered in the order the client sends them, so `pending` is a set whose order gives
the slice `pendingCasts`. `spell`, `owner` and `serverSpell` are fields of `PendingCast`;
`active` and `attempt` are `spellQueue.active` (a `SpellQueueAttempt`), whose sequence numbers and
times are reduced to the comparisons the code makes of them: `settled` is
`SettledSeq >= RetrySeq`, `retried` is `RetrySeq > 1`, `expired` is "RetryDeadline passed" and
`fresh` is "LastRetryAt is less than 50 ms ago". `held`, `retired`, `stale`
and `completed` are the other fields. `outbox[t]` holds what goroutine `t` has still to write: it is
how "change under the lock, write after the unlock" is modelled. A goroutine's next locked
section needs an empty outbox of its own and nothing else, so the two goroutines interleave at every
write. `view`, `answered`, `sent` and `dismissed` are history variables for the properties.

### Actions

| action | code |
|---|---|
| `CastSpell`, `UseItem`, `PetCastSpell` | CMSG_CAST_SPELL, CMSG_USE_ITEM, CMSG_PET_CAST_SPELL in `handleModernPlayPacket`, with `trimPendingCastsLocked`, `enqueuePlayerCastLocked`, `takeAbandonedCastPacketsLocked` |
| `CancelCast`, `CancelSpell` | CMSG_CANCEL_CAST, with `cancelSpellQueueLocked` |
| `ResetCharacter` | PLAYER_LOGIN on the client's side, `resetCharacterSessionLocked` on the relay's |
| `SpellStart`, `SpellGo` | `forwardLegacySpell` with `resolveSpellCastLocked`, `markSpellQueueStartedLocked`, `completeSpellQueueCastLocked` and `promoteHeldLocked` |
| `CastFailed` | SMSG_CAST_FAILED, with `swallowCastFailedLocked` (`SwallowFailure`, `RetryCast`) and `failSpellQueueLocked` (`DeliverFailure`) |
| `PetCastFailed` | SMSG_PET_CAST_FAILED |
| `Write` | one `sendInstance` or `WritePacket` after the unlock |
| `DeadlinePasses`, `FuseBurns` | the clock |
| `RealmFails` ... `RealmInterrupts` | the realm (external): it handles the casts it was sent in order, fails, starts, finishes or interrupts them, and answers in order |

Operators whose comment begins with "Mutant:" are wrong variants of the operator below them. No
action uses them; each run's properties are tested by putting one of them in.

### The abstract specification

`CastLifecycle` says what the client is promised of one cast ID: asked, prepared (SPELL_PREPARE binds the
ID), begun, then one verdict, done or failed; a failure after `done` is an interrupt shown
under the last cast (`Blame`). `LifecycleHonoured` is the refinement, with `phase <- view`.

### Runs

| run | bounds | shows |
|---|---|---|
| `spell_core` | 4 casts, 2 spells, player only, both clock readings apart | types, the active and held casts are tracked, the held body is unsent. Four casts give an active, a held, a replaced and a retired cast at once |
| `spell_dismiss` | 3 casts, 2 spells, cancels by ID and by spell, logouts from both goroutines | nothing is forgotten, a held cast always waits behind an active one, and the lifecycle is honoured, whichever cancel or logout comes between any two steps |
| `spell_evict` | 3 casts, limit 2, one downrank pair, player, item and pet | an evicted cast is still answered |
| `spell_live` | 4 casts of one spell, `FairSpec` | one request of a spell at the realm, every cast answered in the end |
| `spell_lost` | 3 casts of two spells, `FairSpec` | a violation: a cast ID that is never answered |
| `spell_orphan` | 3 casts, limit 2 | a violation: a held cast without an active one |

The bounds keep the interesting cases: `PendingLimit = 8` with four casts is out of reach on purpose (no
eviction), `PendingLimit = 2` with three casts evicts the active, the held and a started cast. Spell IDs are model values;
where no ranks tell them apart, symmetry is used (safety runs only). Deadlock is not checked: the client may
stop casting, and then the system rests.

**Fairness.** Both goroutines keep writing (`WF(Write(t))`: Go schedules a runnable goroutine), the realm
answers a request and ends a started cast, and the retry deadline passes. The client owes nothing. Fuses are not
fair: whether an answer falls within 50 ms is left open.

**What fails, and where.** These are the findings:

* `spell_lost`. Cast s, t, s. The START of the first s is bound to the *active*, third cast; the realm then
  answers NOT_READY for the second request of s, which `swallowCastFailedLocked` takes for a late answer to a started
  cast (`spell_queue.go:298`). The first cast ID stays in `pendingCasts` unanswered until an eviction or logout.
* `spell_orphan`. Evicting the active cast clears `active` but not `held`; nothing releases the held
  cast (`spell_queue.go:194`). It is still in `pendingCasts`, so a later cast replaces or evicts it.

Three more limits show in what is *not* claimed. `LifecycleHonoured` is checked where the limit is out of
reach: with evictions the client goroutine can write CAST_FAILED of a cast whose PREPARE the relay has yet to write.
`HeldTracked` is false with downranks or evictions (a held cast may be begun or gone), which is harmless, since `promoteHeldLocked` looks
it up again; the proved part is that it is a player's cast, not the active one, and unsent. `EveryCastAnswered` needs `ClockEdge = FALSE`: if
the deadline passes between the two clock readings of one handler the failure is swallowed and the retry refused.

### Proofs

`SpellQueueProofs` proves, for every `MaxCasts`, `PendingLimit`, set of spells, rank table, owners and
dismissals: `TypeCorrect`, `QueueInvariant`, `ActiveIsTracked`, `HeldIsUnsent`, `PendingIsBounded` and
`NothingIsForgotten`. The inductive invariant is `IInv == TypeOK /\ QueueInv`. `QueueInv` is needed because neither
`ActiveTracked` nor `HeldUnsent` is inductive: a new cast must be fresh (nothing in a queue, an outbox or at the realm names a
cast above `asked`), and a promoted cast must be a player's and not the active one. Each action first gets a lemma on the *shape* of what it does
to the queue (`QueueShape`: which casts leave `pending`, what the active and held casts become) and to the outbox (`OutboxShape`:
which packets are left). The invariants then follow from the shapes, not from the actions. The assumptions are
those of SpellQueue: `CastBounds`, `SpellRanks`, `CastOwners`, `ClockEdgeType`.

Four more theorems are about the held cast, what the client is told, and what the realm is sent. The code does not keep them without a hypothesis:

| theorem | hypothesis | what happens without it |
|---|---|---|
| `HeldIsBehindActive` | `OthersFit`: a pet's cast or an item's finds fewer than `PendingLimit` casts pending | `spell_orphan`: the active cast is evicted, and nothing releases the held one |
| `HeldIsTracked` | `OthersFit`, and `LowerRank = {}` | TLC, four casts of the player and an item: a START under a lower rank's ID is given to the active cast, and the failure of the active cast then to the held one, so that `held` names a cast that was answered |
| `LifecycleImplemented` | `AllFit` (every cast finds room), and `LowerRank = {}` | a started cast is evicted, and its CAST_FAILED overtakes the START the relay has yet to write (`server.go:5879`) |
| `OneRequestHeld` | `RepeatsOneSpell`: one spell, without ranks, by the player only, nothing given up, `PendingLimit > 2` | casts of s, t and s are all requested, as in `spell_lost`; a cast after a cancel is requested beside the cancelled one |

The hypotheses are stated of each step, `[][OthersFit]_vars` and `[][AllFit]_vars`: they exclude the step that evicts, no state. The
limit of `trimPendingCastsLocked` is 8. A player's cast is not restricted by `OthersFit`, as `CastSpell` holds nothing when it
evicts the active cast.

* `HeldBehindActive` is inductive relative to `IInv`: every step drops the held cast, leaves both casts alone, or holds a new cast of the active
  one's spell (`HoldEffect`). The work is in `promoteHeldLocked` and its callers.
* `HeldTracked` is not. That a START of the realm never finds the held cast needs to know why the active one is found first: it has not
  started, or the realm is still casting it and starts no other cast of the player. This is `BegunAtRealm`, which needs `OwnSpell`
  (the realm answers under the spell the client named) and `HeldBehindActive`. Together they are `HeldInv`.
* `LifecycleHonoured` needs to know of every packet in an outbox which state its cast will be in for the client when it is written
  (`InOrder`), that the goroutines never have packets of the same cast to write (`ToldOf`), and that a cast that is still pending has no answer on its
  way and has been told, or is about to be told, as much as the queue believes (`Waiting`). That is `ToldInv`. A step of the
  queue then changes no `view`, and `Write` makes the step of CastLifecycle that the head of the outbox stands for.

That `LowerRank = {}` is needed for `LifecycleImplemented` too is not known: the proof uses it, through `HeldTracked`, and TLC found no violation with one lower rank in the
first four million states.

* `OneRequestPerSpell` under `RepeatsOneSpell` (which run `spell_live` satisfies) needs to know where the one request is: while the queue takes the active cast to be on its way
  (`attempt.inFlight`), its request is at the realm, or the last packet in one goroutine's outbox (`AskedOnce`), and the realm casts nothing; otherwise nothing asks for a cast,
  and the realm casts the active one at most (`Solo`). Then every answer of the realm is matched to the active cast (`SoloMatch`), so
  the relay retries, releases or promotes only after the request before is used up, whichever goroutine writes first.

Only model-checked: `EveryCastAnswered` (liveness under fairness).

### Not modelled

The move heartbeat written ahead of a cast; the cast IDs made up for START, GO and CAST_FAILED that match nothing; SPELL_FAILED_OTHER;
other units' spells; `retrySpellQueue` (tests only). All casts have one target, so casts that differ only in their target are told apart by spell.
Two uses of items with one spell are uses of one item.

## WorldEntry

A 3.4.3 client plays on two sockets. PLAYER_LOGIN arrives on the realm connection; the proxy draws a key,
sends it in CONNECT_TO, and forwards the login to the realm, whose packets start to arrive whether or not the
client has opened its instance connection. Until then they wait in `pendingInstance`. Before that, the relay
holds *every* packet of the realm back until the realm has answered a query for the completed quests, so that the packet that creates the
player can carry them.

### State

A login's number stands for the key drawn for it. `keys` and `instanceKey` are
`Server.instanceSessions` and `proxySession.instanceKey`; `stage[c]` is where the goroutine of instance connection `c` is (looked
up, claimed, active, ended). `pendingInstance`, `syncPending`, `syncRequested`, `quests`
(`completedQuestBlocks`) and `created` (`activePlayerCreated`) are the session's; `deferred` and `replay` are the relay's
local slices `deferredLoginPackets` and `replayPackets`. A realm packet is a kind and, if it belongs to a
login, its number in that login's stream; number 2 creates the player, and a packet with `parts = 2` is opcode 0x51E with two movements.
`sent`, `shown`, `questsShown`, `released` and `disturbed` are history variables.

### Actions

| action | code |
|---|---|
| `PlayerLogin`, `PlayerLoginUnknown`, `RegisterInstanceSession`, `WriteConnectTo`, `ForwardLogin` | CMSG_PLAYER_LOGIN in `handleRealmWorld`, one action per locked section or write, with its three refusals |
| `ForwardRequest` | CMSG_LOGOUT_REQUEST, CMSG_ENUM_CHARACTERS |
| `LookupInstanceSession`, `ClaimInstanceSession`, `ActivateInstance`, `HandshakeFails`, `ClearInstance` | `handleInstanceWorld` |
| `Handles` (`Defer`, `Translate`) | one turn of `relayLegacyWorld`'s loop: deferral, expansion of 0x51E, `sendInstance`, `syncCompletedQuests`, `finishActivePlayerLogin` |
| `Replay` | a turn of the loop that takes its packet from `replayPackets` |
| `WriteQuery`, `LogoutComplete` | the query's write; the locked section after LOGOUT_COMPLETE was written |
| `Connect`, `Break`, `RealmHandles`, `RealmSends`, `RealmStrays` | the client, the network and the realm (external) |

The relay reads a packet only when `replay` is empty, so the realm's sending and the first handling of a packet are one step: the
socket between them is a FIFO that nothing else looks at. What follows a deferred packet's decision (releasing the
deferred packets and clearing the flags) is one step with it.

### Runs

| run | bounds | shows |
|---|---|---|
| `entry_once` | 1 login, 2 connections for its key, 5 packets, limit 4, 3 strays, refusals and breaks | `StreamHonoured` (which includes that nothing is lost or shown twice), one connection per key, and that a login completes |
| `entry_again` | 2 logins with a logout between, 1 connection each, 4 packets, limit 3, 1 stray, refusals and breaks | `NothingLost`; nothing of the first login disturbs the second; the player has its quests, from the start or by a later update |

Five packets with a limit of four are the least for which a packet of two movements is released with another one behind it.
A limit of three or four (4096 in the code) is reached by a login's own packets before the quests are answered, so
both ways of ending the deferral happen. Two connections for one key make one lose the race. `entry_again` keeps
`MaxStrays + 1 < DeferLimit`: the realm does not send 4096 packets to a session without a character. Beyond it, a refusal
of the realm is released by the limit, the client logs in again while the old connection is still in its handshake, and that
connection then attaches over the new one (`activateInstance` does not ask which login it belongs to). The client may rest in the character list or the world: deadlock is not checked.

**Fairness.** The proxy's goroutines run, the realm handles requests and sends what a login is sent, and the client answers
CONNECT_TO. Nothing is owed after a connection breaks or a login is refused, and `LoginCompletes` exempts those logins, and one
that meets a stray packet (next paragraph), by `disturbed`.

**What the model shows beyond the properties.** `completedQuestSyncPending` is set (`server.go:2747`) before
the login is forwarded (`:2780`). A realm packet between the two makes the relay send the query while nobody is in the world; it is
not asked again, and the login waits for 4096 packets. CHARACTER_LOGIN_FAILED of the realm is deferred like any packet
(`:7390`), so a client whose login the realm refuses is not told. A failed write in `activateInstance` leaves the packets that were
written in the queue (`:2417`); they are not shown twice only because the key is spent and the next login clears the queue.
A failed `sendInstance` ends the relay for the session. None of these contradicts a statement of the repository, so none is listed as a finding.

### Proofs

`WorldEntryProofs` proves for all constants satisfying `EntryBounds` and `EntryFaults`:

* `KeysAdmitOne`: `OneConnectionPerKey` always holds. It is not inductive: a fresh key must be one that nobody
  has presented, so `KeyInv` adds that no connection presents a key above `instanceKey`, that `instanceKey` is below the
  login being registered, and that the key of an admitted connection is gone from `keys`. Only the handler and the connections touch
  what it speaks of (`OthersKeepKeys`).
* `TypeCorrect`: `TypeOK` always holds. The strengthening `TypeInv` adds that a login is counted before a packet is put by for it,
  and that every packet of a stream names a login, wherever it is kept.

`WorldStreamProofs` proves what the client sees, for the same constants and `FewStrays` (`MaxStrays + 1 < DeferLimit`):
`NothingIsLost`, `StreamImplemented` (the refinement of LoginStream, each step a step or a stutter of it), `LiveAttached` and
`QuestsShown`. They share one inductive invariant, `StreamInv == TypeInv /\ KeyInv /\ Parts`, because none of the four is
inductive and each needs the others: what the relay shows depends on which connection is attached, which connection may attach
on what may still be deferred, and that on which login asked for its quests. The parts:

* `Phases`, `Requests`: where the client, the handler and the realm are, seen from each other, and which request the realm can still hold;
* `Holding`: which of `deferred`, `replay` and `pendingInstance` holds packets; while nobody is in the world only strays and
  one refusal are deferred, so the limit is not reached (the place `FewStrays` is needed);
* `Attached`, `StillShows`: a connection that has or may get the session's instance is one of the newest login;
* `OnTheWay`, `InTurn`: the numbers in `pendingInstance` and in `deferred` or `replay` continue those shown without a gap;
* `Completed`: the quests against the player's packet.

`FewStrays` cannot be dropped: with `MaxStrays = 2` and `DeferLimit = 3` TLC finds `LiveStaysAttached` violated (the hazard at `server.go:2417`).
The limit is 4096 in the code, and the realm has nothing to send to a session without a character but a handful of packets.
`Numbers` is a recursive function on the length of a list; the one fact about it that needs induction (`NumbersFollow`) is proved
by taking the least length for which it fails, which exists because `<` on the naturals is well-founded.

Only model-checked: `LoginCompletes` (liveness under fairness).

### Assumed and not modelled

The client logs in from a character list and logs out from the world. A connection whose other end is gone fails at its next
write. The realm answers the query only for a character in the world. Packets that the relay writes without a packet of the realm
(time sync, the made-up ones of `finishActivePlayerLogin`, the quest update) are not in the stream; the query's own effect is `questsShown`.
The digest check and the encryption of the handshake, a connection that is opened without a login, and world transfers are left out.

## WorldObjects

The objects of the map the character is on, and three things the relay ties to them: other units' spells wait for their
casters' creates; boss frames follow their units; a transfer forgets everything.

### State

`objectGUIDs`, `visibleObjectGUIDs`, `pendingObjectSpells`, `encounterInProgress`, `waitingForNewWorld`,
`waitingForWorldPortAck` and `currentMapID` are the session's fields. `EncounterFrames.frames` is `encounterFrames`, its keys, with
`framePending` (Pending is set) and `frameSent` (SentGUID is not zero). A map is named by the number of the transfer that led
to it. `shows`, `engaged`, `gone`, `visit` and `awaiting` belong to the realm; `here`, `loading`, `sees`, `bosses` and `fighting` to the
client. `spells` and `shown` are histories.

The relay is one goroutine and handles a packet in one step. Transfers are the exception: their packets wait on
`wire`, because `handleModernTeleportPacket` on the *client's* goroutine clears `waitingForWorldPortAck` under the lock
and writes the ack after it (`acking`). The two locked sections of TRANSFER_PENDING are one step: what lies between them
is the relay's own.

### Actions

| action | code |
|---|---|
| `Spell` | SPELL_START and SPELL_GO of another unit: `unknownSpellObjectLocked`, `queueObjectSpellLocked` |
| `UpdateObjects` | SMSG_UPDATE_OBJECT: `forgetObjectVisibleLocked`, the creates, `markObjectVisibleLocked`, `takeReadyObjectSpellsLocked`, the waiting frames |
| `DestroyObject` | SMSG_DESTROY_OBJECT |
| `EncounterEngage`, `EncounterDisengage`, `EncounterRefresh` | SMSG_UPDATE_INSTANCE_ENCOUNTER_UNIT: `EncounterFrames.Apply`, `wrapEncounterPacketsLocked` |
| `Transfer`, `RefuseTransfer` | the realm (external) |
| `RelayTransferPending`, `RelayTransferAborted`, `RelayNewWorld` | the relay's transfer handlers, `resetWorldObjectsLocked` |
| `WorldPortResponse`, `WriteWorldPortAck` | CMSG_WORLD_PORT_RESPONSE: under the lock, and the write |

### Runs

| run | bounds | shows |
|---|---|---|
| `world` | a boss, another creature and a corpse whose create is not translated; 3 spells and transfers, at most 2 transfers; 2 spells wait | spells are shown in order and behind their casters' creates; boss frames are exactly those of the engaged units in sight; a transfer ends with everybody on one map |
| `world_gone` | as `world`, and a unit that was destroyed may come back | a violation: the client shows no frame for an engaged boss in sight |

Three spells of two casters fill a queue of two and pass it once; two transfers are enough for the second to start
before the ack of the first. Deadlock is not checked, as the realm need not report anything.

**Fairness.** The relay reads what is there, the client answers a NEW_WORLD it was sent, and the handler goes on to its write. The realm owes
nothing.

**What fails.** `world_gone`: SMSG_DESTROY_OBJECT (`server.go:8300`) takes the object out of `objectGUIDs` but, unlike a
unit that goes out of range, leaves it in `visibleObjectGUIDs` and its boss frame as it is. The client loses the frame
with the object; when the unit comes back under its GUID, the frame is not pending and is not sent again.

**What the model shows beyond the properties.**

* The same omission lets a spell of a destroyed unit through if another caster was awaited (`gone'` in `SpellsHaveCasters`).
* A boss that was engaged but never in sight, and disengages last, ends the encounter without an end packet (none was begun for it alone).
* A spell whose caster never comes into sight stays in the queue until the map changes; 128 of them stop the queue.
* `SpellsHaveCasters` is stated for transfers that do not overlap. A unit that was destroyed on the map before stays visible over a chained
  transfer whose NEW_WORLD was skipped, and a spell of it on the new map is shown without it. This takes a third transfer and four reports
  (`MaxTransfers = 3`, `MaxReports = 4`), and was found while the theorem was attempted: it is out of reach of run `world`'s bounds.
* A TRANSFER_PENDING that arrives while the ack of the last transfer is outstanding is skipped, with the NEW_WORLD that follows
  (`server_test.go:4100` asks for this). The realm then takes the first ack for both and the client stays on
  the map before: `ClientOnRealmMap` and `FramesFollowUnits` except chained transfers, `TransferCompletes` does not.
* TRANSFER_ABORTED is written without resuming what TRANSFER_PENDING suspended.

### Proofs

`WorldObjectsProofs` proves, for all units and bounds and, but for `FramesFollow`, with every fault allowed:

* `FramesBracketed`: `EncounterBracketed` always holds. It is not inductive: that the last frame taken back takes the last boss with
  it needs that every boss frame the client shows is one that was sent and is still kept
  (`FramesSent`: `bosses \subseteq frameSent`, `frameSent \subseteq encounterFrames`).
* `ClientFollows`: `ClientOnRealmMap` always holds. It speaks of settled states only; the invariant names the phase a
  transfer is in (at rest, being refused, leaving, announced, arriving, acknowledged) and says in each what wire, flags,
  `here` and `currentMapID` are. A step leads from one phase to the next, which is the proof.

* `TypeCorrect`: `TypeOK` always holds, the bound of the queue included. It adds that what waits and what was shown are numbers of reported spells.
* `SpellsOrdered` and `CastersShown`: `SpellsInOrder` always holds, and every step satisfies `SpellsHaveCasters`. Their invariant `SpellInv` says of
  the queue that every spell in it lacks a caster (`Waits`), that it is in the order of the reports (`QueueOrdered`), that none
  of the same casters was shown after one in it (`NotOvertaken`: a spell is shown at once only when its casters are there, and then one of
  the same casters cannot be waiting), and that its spells were cast on the client's map (`CastHere`). `CastersShown` needs `MapInv` for the map of a spell that is
  shown at once, and `VisInv`: what is marked as visible is at the client or was destroyed, until a transfer is announced.
* `FramesFollow`: `FramesFollowUnits` always holds if `Returns = FALSE`. Run `world_gone` shows that it needs the hypothesis. Between
  transfers the frames kept are the realm's engaged units, those in sight are shown, and the others wait or were destroyed (`Tracked`); from the realm's decision to
  move the character to the client's leaving (`OnTheWay`) the realm has nothing engaged, and the client's frames are old.

The two loops of `takeReadyObjectSpellsLocked` are `KeptAt`: the members of a queue at a set of places, in order, where `Nth` is the k-th
place. `KeptInOrder` is the lemma on it, from counting the places up to one; that there is a k-th place takes the least number up to which
there are k, as the prover has no induction.

Only model-checked: `TransferCompletes` (liveness under fairness).

## MCServer: the smaller parts

Run `server` checks the sixteen properties of the nine parts below and of Inventory (next section), each from its own initial states. Deadlock is not checked: every part may rest.

### What belongs to all sessions

**Party.** The relays of all sessions extend `Server.partyOrders` under its mutex; handling one GROUP_LIST is a step. A
character's position in the code's slice is its rank, and an order a function from characters to ranks. The realm (external)
forms groups, changes them, disbands them and delivers a list to every member in its own queue, `mail`: any two members' relays may be any number
of changes apart. Three characters, two groups and three changes let a member leave, come back, log out and in, while another
relay still handles the first list. `OneOrder`: all rosters ever drawn of a group agree. `InitialOrder`: as long as only one list
was handled the leader is first, then GUID order.

**RealmLogin.** REST login, BNet requests and world connections of one account. A world connection's goroutine has stages, with the dial
to the realm between two of them. Two logins, two joins, three connections and two realms give a join of an unknown address after a good
one, a second login over a live session, a connection given up that ends late, and a client that is put into the session of the other login and
then comes back; the proof is for any number. A client presents the account's name alone, so `Connect` gives it the session of the account's
latest join, whichever login's that is, and makes it that session's `realmWorld` before any key is compared, as the code does. `RealmServesJoin` says
that whoever gets through the handshake is nevertheless in the session of its own login, since no two joins have the same key, on the realm it asked
for last; and that this session writes to it, unless the session was given to a client of another login since (`Displaced`).

**ProfileStore.** The steps of `saveCUFProfiles`, a failure of each, a crash of the proxy or the machine between any two. What the
machine may find on its disk is `disk`; the directory is not synced, so that it may be the older file. Four saves and two crashes.

What the models show beyond their properties: an order in `partyOrders` is never evicted (one per group formed); `broadcastPartyPacket` stops at
the first client whose write fails; a join of an unknown address is answered OK with the zero realm once
an earlier one was good, and fails only at the dial; `handleRealmWorld` assigns `legacyWorld` without the lock and whether or not its
connection is still the session's (`server.go:2501`); of two logins of one account the older one's client, connecting after the newer one has
joined, is given the newer session and takes `realmWorld` from its live, encrypted connection (`:2484`): it does not get through the handshake, and when it ends
(`:2488`) the session has no realm connection, although its own client is still connected, until that one reconnects. `RealmServesJoin` is false without `Displaced` for this reason; a crash leaves `.cuf-*` files behind.

`PartyProofs` proves `PartyTypes` and `PartyOneOrder` for any finite set of characters and any number of groups and changes. The
invariant says that the ranks of an order are one to one into `1..Cardinality(DOMAIN r)` (`Order`) and that every roster drawn shows its members in the places
the order has now (`RosterKept`). Its core is that `StablePartyOrder` extends an order without moving anybody, which needs that counting the newcomers up
to a GUID is one to one. `PartyInitialOrder` adds `FirstKept` to that invariant: a group of which no list was handled has no order, and one of which one list was
handled has the order of that list and rosters of its members only. A second handling of the same list extends nothing, whoever's relay does it.

`RealmLoginProofs` proves `JoinServed`: under `Constants`, `RealmServesJoin` always holds. The invariant adds that a session has the key of its client's last join
and no two joins have the same (`LatestJoin`); that a keyed, dialled or encrypted connection with its client's key has its client's session, and is on that one's realm
and displaced if it is not written to (`Served`); and that a client has one open connection (`OneOpen`). A connection in another login's session is nowhere
excluded: `ConnectKeeps` shows that it has the wrong key and that it displaces the session's own. `LoginTypesKept` is its `TypeOK`, on the same invariant.

### What belongs to a session

**NameQueries.** Whispers wait in `pendingNamedChats` for their sender's name. Two senders, three whispers, two held at most, and three events
(a group list, a query of the client, an invalidation, a logout). `WhispersShown`: every whisper is shown or given up by a full
queue or a logout. `WhispersInOrder`: once each, in order.

**ReadyCheck.** Two members who both may start a check, and three checks or logins. Locked sections and writes are separate, and timers are a goroutine of
their own. `CheckEnds`: a check that clients show ends for all of them.

**LootRolls.** Two corpses with two items, three rolls, one change of map, two completed rolls remembered (256 in the code). The realm may
leave the corpse out of what it tells later. `DialogsFollowRolls`: no dialog of an open roll is closed, one of an ended roll is, and no
late answer is refused as unknown.

**LootWindow.** The character is the master looter. The client names loot by an object GUID made of the corpse's; the session
remembers the corpse from the client's request on (`lootLegacyGUID`) and the object from the realm's response on (`lootObjModern`). The
realm sends its candidate list before or after its response, closes loot when it likes, tells of other corpses' loot and moves the character to
another map. Two corpses, two requests for loot, two requests on their way. `GiftsAsShown`: a gift is never of another corpse than
the window's, unless it was made while another corpse was on its way to the window (`crossed`). An object stands for its corpse, a list for the
corpse it was sent for, and the target of a gift is a candidate of any list (`eligible` is left out).

**CharacterList.** The realm answers a creation with a code; the relay then asks for a list of its own to learn the GUID. Handler and
relay set the flags under the lock and write after it (`writing`). Two names, two lists awaited, two lost connections.
`AnswersMatch`: each request has its answer, whichever list comes first.

**Taxi.** `Visit` is one turn of the search's loop, with every choice a Go map's iteration can make among nodes of one distance. The checked
tables of paths have ties, a path that costs nothing, two paths between the same nodes, and nodes only reached through others; the masks leave
nodes out. `RouteCheapest` compares the result with all routes without a repeated node. `FlightStartsOnce`: the client is sent one
start of a flight, then the success, and later segments as such, over two segments, refusals, and a login in the middle of a flight.

**Fairness** (names and ready checks only): the realm answers every name query (it always does); goroutines past their lock write; relays
read on; timers fire, after what was sent before has arrived (30 s against a packet's delay, `Delivered`).

What the models show beyond their properties: when checks overlap, the FINISHED of one voids the timer of the other and it never
ends (`disturbed`); a starter who logs out takes the timer along and nobody else sees an end; a name that comes with
a group list lets a later whisper overtake those held (`learned`); the client's own name queries are not deduplicated; `playerNames`
survives a logout; a roll that is open across a change of map is found under a new reference afterwards, and its first dialog
and entry stay (`muddled`); two rolls of one item make every GUID-less notice ambiguous, and the dialogs stay open.

Of the last three:

* a connection that is lost between a creation's success and the relay's list leaves `awaitingCreateEnum` set in the session, which the
  account's next connection finds: its first list is sent as a result nobody asked for, and the client's list never comes (`stray`);
* a list of candidates that comes after its response finds the list sent already: the client has been shown the group's members, and
  keeps them (`list.of` is then not the corpse);
* a gift or a release made in one window while another corpse is opening is sent for the other corpse if the objects agree again by then;
* the splines of a flight go to the instance connection and the success to the realm connection, so that a client may read them in either order:
  what `FlightStartsOnce` says is the order they are written in;
* the first spline of a flight that comes more than a second after a login is not shown as a start (`late`);
* nothing ties the menu's node to the flight master of the request.

**What fails.** `loot_list`: the realm tells of corpse 1 (SMSG_LOOT_LIST sets both fields, `server.go:10642`), the client asks for corpse
2 (`:6475` sets the corpse only), and the candidate list comes before the response. `:10540` makes an object only when there is none, so the list
goes out with corpse 1's object and is marked as sent for corpse 2 (`:10560`); the response sends no other one (`:10595`). The window of
corpse 2 has no candidates, and nothing in it can be given until it is closed. The comment at `:10532` wants the list held until the loot object is known.

### Proofs

`ServerProofs` proves of `ServerSpec`, for all values of the constants that satisfy `ServerConstants`, every invariant the run checks of nine parts (that of the tenth, Party, is in `PartyProofs`), and the types of all ten. The other
nine rest in the steps of one, so that a step of the server is a step of the part or leaves its variables alone; from there on a proof is about that part.

| theorem | states | inductive invariant |
|---|---|---|
| `ProfileKept` | `ProfileSurvives` | `WholeInv`: the temporary file is the save under way once it is written; no file in the directory or on the disk is ever part of a profile |
| `WhispersKeepOrder` | `WhispersInOrder` | `WhisperInv`: what is held under a sender is his, in order (`HeldOfSender`, `HeldAscend`), and later than what was shown of him (`HeldAfterShown`), unless his name came from elsewhere while it was held (`LearnedWhileHeld`) |
| `GiftsInWindow` | `GiftsAsShown` | `GiftInv`: the corpses the client waits for are as many as the requests to loot and their answers on the way; once no answer is missing, the object the session has is of its corpse, or there is none |
| `DialogsFollow` | `DialogsFollowRolls` | `RollInv`: of a corpse and item one roll is open; what is shown or remembered beside the open rolls, or is open on another map, is of muddled items (`OpenKept`); the completed rolls and the open ones are no more than were started (`AnswersKept`) |
| `ScreenAnswersMatch` | `AnswersMatch` | `ScreenInv`: see below |
| `FlightsStartOnce` | `FlightStartsOnce` | `FlightInv`: every reachable state is one of six stages of a flight, each of which says what is on its way, what is kept and what the client was sent |
| `RealmJoinServed` | `RealmServesJoin` | that of `RealmLoginProofs!JoinServed` |
| `RequestsServed` | `ActsOnNamed` | that of `InventoryProofs!RequestsActOnNamed` |
| `MovesServed` | `LandsWhereNamed` | that of `InventoryProofs!ThingsLand` |
| `QuestCountServed` | `CountFollows` | that of `InventoryProofs!CountServed` |
| `CheapestRoutes` | `RouteCheapest` | `SearchInv`: see below |
| `ServerTypes` | `TypesOK` | each part's own, see below |

* `AnswersMatch` cannot be read off the flags: which list is a creation's result depends on `awaitingCreateEnum` alone. `ScreenInv` counts. The lists that are due, from the two goroutines'
  packets to the realm's answers, are as many as the client waits for and one more while the flag is set; the results due and the flag together are one exactly
  while a creation is awaited (`Counted`). What is on its way belongs to that one creation (`Requested`), and any list behind its success has the
  new character in it (`Answered`). So whichever list comes first will do as the result, and the other is the client's. `Counted` fails on a connection that follows one
  lost with the flag set, which is why `stray` is exempt.
* `GiftInv` needs the counts for the same reason: `lootLegacyGUID` and `lootObjModern` are set by two different goroutines, and nothing but the number of
  packets on the way says that the relay has caught up. `HowMany` and its lemmas (what appending and taking the head do to a count) serve both proofs.
* `DialogsFollow` turns on `resolveLootRollLocked`: named without its corpse, a roll is found only if the session remembers one roll of the item. That this one is the roll that ends
  needs `lootRolls` to hold every open roll, and that it is not found otherwise needs the second roll to be open or its item muddled (`Resolved`).
* `RouteCheapest` is the correctness of the search, whatever ties it breaks and whatever menus come meanwhile. `Searching` holds while it goes on: every node reached but the source has a
  previous node that is taken and from which its distance comes; no way on from a taken node is shorter than the distance kept of where it leads; no open
  node is nearer than a taken one. When the destination is nearest, no route costs less (`NoneCheaper`, along the route: it leaves the taken nodes somewhere, and what it
  costs up to there is at least the distance of an open node); when no node is left, there is no route (`NoneLeft`). The way back along `previous` gets strictly
  nearer to the source (`Farther`), so that it repeats no node and reaches the source in at most as many steps as there are nodes (`BackLeads`, `RouteFound`). This needs
  `Nodes` to be finite, which `Taxi!Constants` says: the table of paths is part of the proxy. A path that costs nothing counts as one that costs 1 (`Cost`), without which
  nodes could be reached in a circle.
* The prover has no induction. What needs one takes the least number for which the claim fails (`Least`, from the well-founded order of the naturals), and a value
  built step by step (`Back`, `Price`, the prefixes of a route) is shown to exist in the same way (`Built`).
* `ServerTypes` takes the type invariants of the ten parts one at a time. The safety invariant of a part seldom gives its types: what it leaves open is added, as that no more whispers come than
  the bound (`NameTypes`), that no more corpses are opening than were asked for (`WindowBounds`), or that the items of the bags are finitely many, since each lies in one of finitely many
  fields (`OtherTypes` of `InventoryProofs`). `PartyTypes` and `RealmLoginProofs!LoginTypesKept` are two of the ten.
* The theorems on Inventory and `RealmJoinServed` lift those of the next section and of RealmLogin. An instance in MCServer and the one their proofs come with have the same text, and the `Same...` lemmas say so
  of each definition; nothing is assumed of the parts beyond their `Constants`.

Only model-checked, on these instances: `WhispersShown` and `CheckEnds`, which are liveness.

## Inventory

### State and actions

`held` is what the realm has at its *fields* (the GUID fields of the player and of each bag, by index), `shown` what the client shows at its
*places*. `update` and `delta` are the packets between realm, relay and client, `asked` and `body` those of a request; `gone` and
`credit` stand for SMSG_DESTROY_OBJECT and SMSG_QUESTUPDATE_ADD_ITEM before an update. One update and one request are under way at a time, so that what the client meant
can be told (`fresh`: made of what the realm still has). `acted` and `overtaken` are history variables.

| action | code |
|---|---|
| `Forward` | the handlers of the eleven requests in `handleModernPlayPacket`: `Translated` chooses the parser, each of which is an operator of its name; a destruction sets `questItemSyncPending` |
| `Relay` | SMSG_UPDATE_OBJECT: `objectFields` of items, `ValuesDelta`, then `flushQuestItemProgress` |
| `modernInventoryLegacyField`, `AdjustInventorySlot`, `adjustInvSlotPair` | the functions of these names |
| `NameTwo`, `NameOne`, `Equip`, `Store`, `BuyBack`, `Shown` | the client (external) |
| `RealmMoves`, `RealmGives`, `RealmPuts`, `RealmTakes`, `RealmRefuses` | the realm (external): it finds the thing of a request by its fields, and does it or refuses |

CMSG_AUTOBANK_ITEM and CMSG_AUTOSTORE_BANK_ITEM have the body and the parser of CMSG_AUTO_EQUIP_ITEM. A bag is worn or not there; an item
of the quest is one of `Items`.

### Run

`server`, with one item and one bag; four slots of the main container: one of the equipment, one a bag is worn at, the last of the backpack, the
first of the buy-back slots; slot 31 of the bag, whose number is that of a worn bag's slot on the client's side. These take every branch of the
parsers and every kind of place but the bank and the keyring, whose ranges differ in their constants; the theorem has them all.

`ActsOnNamed`: a request made of what the realm still has is carried out on the things the client showed at the places it named.
`LandsWhereNamed`: a thing that was moved is then shown where the client asked for it. `CountFollows`: with nothing on its way, the client shows the
count of the quest's items. It exempts a count that was sent while a destruction was still on its way (`overtaken`):
`questItemSyncPending` is set with the request (`server.go:6739`), so that an update for another reason spends it before the item is
gone, and the quest's count stays one too high until the next count.

**What the model shows beyond its properties.** Two requests name another slot at the realm than the client meant, and the first two properties
exempt them and no others (`Misnamed`; without it TLC finds both in three steps). `ParseAutoStoreBagItem` does not renumber the slot when the pack is 255
(`inventory.go:305`), so the client's slot 35 reaches the realm as 35 where 23 is meant. `ParseSwapItem` renumbers the slot inside a bag too
(`inventory.go:152`): slots 30 and 31, of bags of more than 30 slots, become 19 and 20. The comments at `inventory.go:217` and `:484` say that a slot is
renumbered in the main container and nowhere else.

### Proof

`InventoryProofs!RequestsActOnNamed`: `Spec => []ActsOnNamed`, for all items, bags, slots and kinds of request, from `Constants` (the
names are distinct, slots are in range). `Renumbered` is the arithmetic: wherever `modernInventoryLegacyField` has a field,
`AdjustInventorySlot` leads to it. `SameField` lifts it to addresses, with the bag the client shows at a pack. The inductive invariant
`NamedInv` needs two parts more: `View` (what the client shows, with what is on its way, is what the realm has) and `Requests` (a fresh
request means what is shown at the places it names, and a body is its translation).

`InventoryProofs!ThingsLand`: `Spec => []LandsWhereNamed`. `LandInv` adds to `NamedInv` that the realm has what it moved at the field of the place that was asked for
(`Landed`), from the step on in which it acts, and that no other request is made until the client has seen it (`Quiet`). That the field is one the
client has a place for is `Placed`, the converse of `Renumbered`: every slot of the realm is some slot of the client's. With nothing on its way, `View` says that the
place shows what the field has.

`InventoryProofs!CountServed`: `Spec => []CountFollows`. What the relay counts are its `known` items without those `gone`, with those of the update on its way: these are the items the player has (`Told = HeldItems`).
The count the client has is right, or it is about to be: an update is on its way, and `questItemSyncPending` or a `credit` has it followed by a count (`Counted`). A
destruction on its way has the flag set, or an update overtook it, which is the exception of `CountFollows`. Counting needs the items to be finitely many: that
the bags are worn bounds the fields (`FinitelyMany`), and an item lies in one place (`Once`).

`InventoryProofs!InventoryTypes`: `Spec => []TypeOK`, from both invariants and `OtherTypes`.

## Not modelled

Trade (`tradeActive` is written and never read; the rest is translation), the codecs, the ciphers and framing of the
world connections, SRP6 and the realm list, the launcher and the listeners. The fields of objects: the model knows objects by
identity. Most field values and the vendor, guild, mail and auction packets are translated one to one, without state that another packet could
find changed. Two small states are read by later packets and not modelled yet: the corpse's location and the pet names asked for
(the plan's second point). Of the inventory: item use, trade, sockets, ammunition and the guild bank, stacks (a thing is whole), and
SMSG_INVENTORY_CHANGE_FAILURE (a refusal changes nothing).
