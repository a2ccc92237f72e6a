# Privee in TLA+

Privee is an end-to-end encrypted chat: an Elixir/Phoenix umbrella (`apps/privee` is the
core, `apps/privee_web` the web layer) and a JavaScript client that holds the Signal
Protocol keys in IndexedDB. The server relays and keeps ciphertext in memory; it is the
ordering of small concurrent steps, not the cryptography, that decides whether a message
is stored once, arrives, and can be decrypted. This directory models that ordering.

Paths below are relative to `src/`. `C` is `apps/privee/lib/privee/chats.ex`, `K` is
`apps/privee/lib/privee/pre_key_store.ex`; of `apps/privee_web`, `S` is
`assets/js/utils/signal-client.mjs`, `CH` is `assets/js/utils/chat.mjs`, `N` is
`assets/js/utils/notification-coordinator.mjs`, `CL` is
`lib/privee_web/live/chat/chat_live.ex`.

## Inventory

| Component | State | Operations | What is hard | What makes it correct |
|---|---|---|---|---|
| Message store, `C`, `chats/table_owner.ex` | three public ETS tables: conversations (epoch, times, count), messages, nonce claims | `open_conversation`, `create_message`, `end_conversations`, `sweep`, `latest_messages`, `messages_after` | lock-free: every caller runs the code in its own process; calls interleave, processes die inside a call, the table owner restarts | one message per nonce; an answer "stored" is true; nothing of the current epoch is lost; what an epoch leaves is swept |
| Key directory, `K`, `privee_web/signal_keys.ex` | one bundle per session in the database: identity, signed prekey, one-time prekeys, highest id | `publish_identity`, `reset_identity`, `rotate_signed_prekey`, `add_one_time_prekeys`, `fetch_bundle`, `status` | requests of several devices; lost replies | a one-time prekey is served once; ids never return; a device that lost its identity cannot change the bundle |
| Device keys, `S` (`ensureKeys` ... `createOneTimePreKeys`), `signal-store.mjs`, `signal-locks.mjs` | private halves, counters, current signed prekey, device state | publish, reset, rotate, prune, top up | several tabs and devices, requests that fail half way, a lock per browser only | what is published can be used by its owner; a retired key lives long enough |
| Outbox and delivery, `S` (`send`, `deliver`, `flushOutbox`), `chat_actions.ex` | pending rows, sessions bound to epochs, history | encrypt and queue, deliver, re-encrypt, acknowledge | lost replies, timeouts, retries, changes of epoch and identity between two steps | no message lost, none shown twice |
| Chat view and events, `chat_live.ex`, `chat_channel.ex`, `events.ex`, `chat.mjs` | server stream, client queue, cursor | mount, subscribe, broadcast, catch up, render | reading and subscribing are two steps; order of broadcasts | what is stored is seen, in order |
| Identity trust, `S`, `chat.mjs` | trusted and pending key per peer, blocked flag | record, approve, rebuild | a second change during the approval | nothing is encrypted to a key that the user did not accept |
| Sessions, `sessions.ex`, `sessions/janitor.ex`, `session_auth.ex` | session and token rows | log in, log out, clean up | log-ins race each other and the clean-up | a quick session is used once; a session with a valid token stays |
| Push and rate limiter, `push.ex`, `rate_limiter.ex` | endpoints, fixed-window counters | register, notify, deliver, forget | answers of old deliveries, windows | a waiting app is woken |
| Notification election, `notification-coordinator.mjs` | elections, recently shown | claim, elect, announce, fail over | message delay against timers | one notification per message and browser |
| Hints, screen lock, sign-out, `peer-hints.mjs`, `sign-out.mjs`, `CH`, `privee-selector-hooks.mjs` | the record of the peer, what the page shows | edit, load, `:lock`, `:unlock`, clear | several writers of one record; commands that overlap at their awaits; a lock with a time limit | a locked screen shows nothing; sign-out leaves no hint |

Interactions: the web layer (LiveViews and channels, one process per connected page or
app) calls the store and the directory as plain functions; `signal_keys.ex` chains
`reset_identity` and `end_conversations`; `chat_actions.ex` reads the directory before it
writes the store and broadcasts what the store accepted; the client drives all of it with
requests that may time out; `TableOwner` owns the tables of the store and of the rate
limiter and sweeps both.

`PROJECT.json` lists the components with their files, and under `hazards` the places where
this code can go wrong in a way a unit test hardly reaches, each with the properties that
cover it, or a note that says why none does.

## Plan

| | Module | Abstract specification or composition | State |
|---|---|---|---|
| 1 | `ChatStore`, `ChatStoreProofs`, `ConversationProofs` | `Conversation` is what it promises | done |
| 2 | `KeyLifecycle`, `KeyLifecycleProofs`, `SignedKeyProofs` | the key directory with the devices of a session | done |
| 3 | `Outbox`, `OutboxProofs` | the client's queue with the promises of the store and the directory | done |
| 4 | `ChatView`, `ChatViewProofs` | stream, queue, cursor and trust, with the store's messages | done |
| 5 | `NotificationElection`, its proofs | | done |
| 6 | `LocalPrivacy`, its proofs | the hint's writers with the commands of the page | done |
| 7 | `Reset` | `reset_identity` with `send_message`: the directory's transaction, then the store | left |
| 8 | `Sessions` | log-in, tokens, the janitor | left |
| 9 | `PushWakeUp` | endpoints, deliveries and the rate limiter's windows | left |

Every invariant and every action property that a passing run checks is also a theorem; what is left to
TLC is the liveness. A module of the plan gets its theorems when it is written.

## `ChatStore`: the message store

The functions of `C` run in the caller's process and share nothing but ETS, whose
operations are atomic one by one. So one action is one ETS operation of one caller, with
the local code up to the next operation; `pc[p]` names that operation.

| Module | Code |
|---|---|
| `conv`, `msgs`, `nonces` | the tables `:chat_conversations`, `:chat_messages`, `:chat_nonces` (`C`:16-21), restricted to one conversation key |
| `call`, `tries`, `row`, `claim` | arguments and locals of a call |
| `lastEpoch`, `lastSeq` | `Ecto.UUID.generate`, `System.unique_integer` |
| `Lookup`, `OpenNew`, `Rotate` | `do_open`, `open_new`, `maybe_rotate` |
| `Claim`, `LookupNonce`, `Find`, `DropClaim`, `ResolveInFlight`, `MarkCommitted`, `Reclaim` | `claim_and_insert`, `resolve_existing`, `resolve_pending` |
| `Insert`, `TouchLookup`, `TouchLast`, `TouchCount`, `Commit`, `Recheck`, `UndoMessage`, `UndoNonce` | `insert_claimed`, `touch_conversation` |
| `EndConversations`, `EndConv`, `EndMessages` | `end_conversations` |
| `SweepStart` ... `SweepNonce` | `sweep`, `sweep_nonce`, run by the table owner's timer |
| `OwnerDown`, `OwnerUp`, `Abort` | the owner dies, the supervisor restarts it, calls under way raise |
| `Exit` | a LiveView or channel process dies inside a call |

Abstractions. One conversation: rows of different conversations meet only in a nonce, which
the client draws at random for one message. A message is its nonce. A client sends a nonce
for one epoch only (`bound`; `S`:1013-1019 draws a new one when it re-encrypts), over any
number of connections and as often as it likes. Epochs and sequence numbers are numbers
that are never drawn twice. `Process.alive?` is joined with the compare-and-swap that
follows it, the lookups of `sweep_nonce` with its write, and the `current_epoch?` lookups
of one sweep with each other: an answer "dead" or "over" does not change any more, so the
join loses no behaviour. The clock stands still at `MaxClock`.

`Conversation` is the abstract specification: an epoch, its log, and the answers. A nonce
enters the log once, the log shrinks only with its epoch or by a reset, and "stored" is
said only of what is in the log. `ImplementsConversation` instantiates it with
`epoch <- conv.epoch`, `log <- Visible`, `cleared <- wiped`.

### Runs

All runs use `MCChatStore`, which adds model values and symmetry. `MaxClock`, `MaxResets`
and `MaxCrashes` stop the environment, the other constants are the configuration of the
program itself, set so low that expiry, rotation and exhausted retries all happen. One more
bound, `ThreeOrTwo` of `MCChatStore`, is a constraint of `ChatStoreRaces`: it goes on from the
states with at most three epochs in which one of the nonces or one of the processes is not yet
used.

| Run | Instance | Checks |
|---|---|---|
| `ChatStoreRaces` | 3 immortal processes with 1 nonce or 2 with 2, 1 message to a rotation, 3 epochs, clock 0..1, 1 reset | `TypeOK`, `CountCovers`, `StoredOnce`, `AnsweredStaysClaimed`, refinement of `Conversation` |
| `ChatStoreDeaths` | 2 processes, one of them mortal, a death of the owner, the sweep, every conversation expired at once, `FairSpec` | `AnsweredIsKept`, `KeptWhileCurrent`, `OrphansSwept`, `ClaimsAreSettled` |
| `ChatStoreDuplicate` | 2 mortal processes | violates `StoredOnce` |
| `ChatStoreReset` | 1 reset | violates `EndedIsOver` |

Three processes are what the races of the claim need: an owner, one that resolves its claim,
one that takes it over meanwhile; one nonce makes them all meet. Two nonces let two senders
pass the limit together: both find a conversation without a message, store theirs, and count
it in either order, with the conversation overshot by one (`CountCovers`). The runs stop with every
process idle and the bounds used up, or with every process dead, so deadlock is not checked.

What the violations show, briefly (`PROJECT.json` quotes the lines they contradict):

* `ChatStoreDuplicate`: `resolve_existing` looks for the message *before* it asks whether
  the owner is alive. An owner that inserts and dies in between is taken for one that
  stored nothing, and the message is stored twice. Without deaths the property holds, and
  that is proved.
* `ChatStoreReset`: `end_conversations` deletes the exact row that it read; a sender that
  touches the row meanwhile keeps the epoch alive beyond the reset.

Two more consequences were seen and have no run of their own: the re-check at the end of
`insert_claimed` may answer `:stale_epoch` with epoch `nil` (`Outbox` contains what the
client makes of it), and a retry may be answered `:duplicate` from a row that the first call
then rolls back, so that the message is never broadcast.

### Fairness

`FairSpec` asks for weak fairness of every process's current step (the BEAM scheduler runs
every runnable process), of the sweep (the owner's timer re-arms itself,
`chats/table_owner.ex`:33-41, when its interval is not `:infinity`), and of the owner's
restart (`one_for_one` supervisor). No call has to be made, no process has to die, and the
clock does not have to advance.

### Proofs

`ChatStoreProofs` holds for every number of processes and nonces, every limit and every
number of epochs, retries, resets and deaths of the owner:

* `TypeCorrect`: `Spec => []TypeOK`. `TypeOK` is not inductive: that a retry count stays in
  range needs that `rotate` is reached only with a retry left, and that a claim is written
  for a real nonce needs that only `create_message` reaches those steps. `TypeInv` adds
  this (`CallInv`).
* `MessageStoredOnce`: `Mortal = {} => (Spec => []StoredOnce)`, proved as a theorem under the assumption
  that processes do not die inside a call. The assumption is needed: `ChatStoreDuplicate`
  is the counterexample without it. The inductive invariant `OnceInv` says: a call's epoch
  is the one its nonce is bound to (`BindInv`); a sequence number drawn for a claim is used
  by no other message or claim (`SeqInv`); a process between claim and commit holds the
  claim that is in the table, unless the epoch it claims for is over (`ClaimInv`); a message
  of the current epoch is named by the claim of its nonce (`ViewInv`), from which
  `StoredOnce` follows, since a claim names one message; a process that drops or undoes
  a claim does so for a message that is gone or an epoch that is over (`DropInv`, `UndoInv`);
  and who has a call under way is alive (`LifeInv`). Each action has a lemma; the actions
  that touch neither messages nor claims share `OnceQuiet`.

`ConversationProofs` proves the rest, in two layers.

With any processes mortal, `KeepInvariant` gives `AnswersAreKept` (`AnsweredIsKept`) and
`MessagesAreKept` (`KeptWhileCurrent`, an action property). Neither is inductive: an answer is
given from a row that the caller, or another process, wrote many steps before. `KeepInv` says
that a sequence number belongs to the nonce it was drawn for (`OriginInv`), that what a
process has stored, found or answered is in the table while its epoch lasts and was not wiped
(`KeptInv`), that a process about to undo its message does so for an epoch that is over
(`UndoInv`), and that the sweep holds no epoch that is current (`SweepInv`). It asks nothing
about who owns a claim, so it survives the deaths that break `StoredOnce`.

The other three are about claims and counts, and assume `Mortal = {}` as `MessageStoredOnce`
does, which they use:

* `ClaimsAreKept` (`AnsweredStaysClaimed`): a commit, a deletion and a retry act on whatever
  claim the nonce has by then. `SettledInv` says that who stores drew its number itself, that
  whoever holds a copy of its claim knows it for the owner, and that a claim seen committed and
  an answer given are of a message that nobody is still storing.
* `CounterCovers` (`CountCovers`): `CountInv` adds that the messages are finitely many, without
  which their number means nothing; each message that becomes visible has a call that will
  count it.
* `StoreImplementsConversation` (`ImplementsConversation`): the initial states map, and each
  action is shown to be a step of `Conversation` or to leave its variables alone. An insert
  that makes a message visible is an entry in the log, which by `StoredOnce` has no entry of
  that nonce yet; a rotation and the end of an epoch empty the log; an undo is invisible.

Only model-checked: `OrphansSwept` and `ClaimsAreSettled`, the liveness properties (temporal
reasoning with fairness is outside what the prover does).

## `KeyLifecycle`: the keys of a session

The bundle of public keys lives in one row of the database; every function of `K` that
changes it is a transaction holding the row's lock, so one action. The devices signed in to
the session each hold private halves in IndexedDB and run `ensureKeys` or `resetIdentity`
under an exclusive lock, one at a time: ask for the status, generate and commit keys, send
them, wait for the reply, go on. `step[d]` is what device `d` waits for.

| Module | Code |
|---|---|
| `bundle` | `sessions.prekey_bundle` (`K`:303-319): identity, signed prekey, one-time prekeys, `max_opk_id` |
| `keys[d]` | the stores of a device: `device_state`, `signed_prekeys`, `spk_current`, `spk_counter`, `opk_counter`, and the protocol snapshot with its one-time prekeys |
| `PublishIdentity`, `ResetIdentity`, `RotateSignedPreKey`, `AddOneTimePreKeys`, `Handle` | the functions of `K`, dispatched by `signal_keys.ex` |
| `FetchBundle`, `RemoveBundle` | `fetch_bundle` of a peer; a migration that wipes bundles |
| `EnsureKeys`, `ResetOwnIdentity`, `Status` | `ensureKeys`, `resetIdentity` up to the first request that changes something |
| `PublishNewIdentity`, `PublishBundle`, `MaintainKeys`, `PruneAndTopUp`, `WithSignedPreKey`, `WithOneTimePreKeys` | the functions of the same names in `S` (`S`:348-510) |
| `Serve` with `Reply` | a request is handled and its reply continues the operation |
| `LoseRequest`, `LoseReply`, `Delay`, `ServeLate` | a push that times out: never arrived, handled without the reply being seen, or handled later |

Abstractions. A key is its identity and id; the signed and the Kyber prekey, created,
published and pruned together under one id, are one key. A list of one-time prekeys in a
request is the range of ids that `createOneTimePreKeys` counted up. The bundle is read for
`signal_status` in the same step as the branch it decides: nothing on the device changes in
between (the lock), and the server may change afterwards, before the request that follows
is handled. Whether a peer gets a one-time prekey is the rate limiter's choice, so either.
The clock counts days, and no operation spans two of them. Left out: `normalize_stored` for
bundles of an older format, validation of key formats, a session whose row is gone, the
deletion of a one-time prekey by the decryption that used it (so "held" means "until used"),
and the broadcasts.

| Run | Instance | Checks |
|---|---|---|
| `KeysShared` | 2 devices, one reset, one lost or late request, one wiped bundle, 2 prekeys served, one day | `TypeOK`, `ServedOnce`, `OneTimeKeysHeld`, `ReadyIsAccepted` |
| `KeysRotation` | 1 device, 6 days, rotation every 2 and a lifetime of 1, one lost or late request, one reset, one wiped bundle | `SignedKeyHeld`, `KeptUnlessLost` |
| `KeysRetiredLost` | 1 device, 7 days, rotation every 2 and a lifetime of 2, one lost or late request | violates `KeptWhileReadable` |

Two devices are what it takes for one to replace the other's identity while a request of
the other is late; a target of 2 prekeys for a limit of 2 makes every late top-up meet a
full pool. Rotation and retention need days but only one device, hence the second
instance, whose clock allows two rotations and the retention after them. The program rotates
every 7 days and keeps conversations for 7 days by default; `KeysRetiredLost` keeps the two
equal, at 2 days. In `KeysRotation` the server's configured lifetime is the shortest for which
`SignedKeyHeld` holds: a rotation period less the extra day. The runs end with the bounds
used up.

`KeysRetiredLost` shows that a signed prekey is marked retired when its successor is
created, not when it "stops being published" (`docs/e2e-encryption.md`:76-79): after a lost
`rotate_signed_prekey` the old key stays published for another period while its retention
runs out, and it is pruned before messages encrypted with it expire. `KeptUnlessLost` is
the same promise without a loss. One loss never goes so far that the key on offer itself is
gone (`SignedKeyHeld`); with `MaxLost = 2` it does.

### Proofs

`KeyLifecycleProofs` holds for every set of devices, every limit, any number of served keys,
resets, wiped bundles and lost or late requests:

* `PreKeyServedOnce`: `Spec => []ServedOnce`, and `OneTimeKeysAreHeld`:
  `Spec => []OneTimeKeysHeld`.
* `KeysTyped`: `Spec => []TypeOK`, with the limit of the pool.

None of these is inductive. `KeyInv` says why they hold: an identity is generated once and
belongs to one device (`IdentityInv`); the device holds the private half of all it has under
way or on offer, and its counter is not behind any id that was ever used for its identity
(`HeldInv`); what is under way was never offered and is under way once (`UnusedInv`), so a
late request can add only new keys. All seven actions of a device have one `Shape`: the
server may absorb the request that the device waited for, and the device may send one whose
ids are above its counter. Lemmas show that each action has the shape and that the shape
keeps the invariant, so no case is proved twice; the other actions are proved one by one.
`TypeInv` adds to `TypeOK` the size of the requests, from which the limit of the pool
follows.

`SignedKeyProofs` proves the other three of the runs, from `SignedInv`:

* `ReadyMeansAccepted`: `Spec => []ReadyIsAccepted`. A device becomes ready on a reply, or on a
  status that names its identity, and the server offers no identity that it did not accept
  (`AcceptedInv`).
* `SignedKeyIsHeld`: `Spec => []SignedKeyHeld`, under `MaxLost <= 1` and
  `Rotation <= MaxAge + Day`, and `SignedKeyIsHeldUntilALoss` without these as long as `lost = 0`.
  Both assumptions are needed: with two losses the key on offer is pruned, and if rotation is
  slower than the retention one loss is enough. By default the two periods are 7 days, so the
  second holds with a day to spare. What the device has on offer is related to what it made last
  (`OfferInv`): with no loss it is the current key, or the successor is under way; after one
  loss it may be the key before, retired no earlier than the current one was made, so the
  next rotation is due before the pruning. `OwnInv` says that the device has the key it made
  last and sends no other, and that the key of a late request was current on the day.
* `SignedKeysOutlive`: `Spec => []KeptUnlessLost`. Of the keys handed out, `UsedInv` says that a
  device still has those whose conversations may last, and that they were current when they
  were handed out, so their retention began later.

## `Outbox`: sending

A message is encrypted, queued in IndexedDB and sent until the server has answered for it.
The calls of `send` and `flushOutbox` of all tabs share the database and the keys lock (Web
Locks), and each of them waits many times: for the lock, for a transaction, for an answer.
A task of the model is one call; a step of it runs from one await to the next. The lock is
held over several steps only by `encryptMessage` (`lock = t` between them) and by
`resetIdentity` (`lock = Page`).

| Module | Code |
|---|---|
| `outbox`, `history`, `session`, `state`, `identity` | the stores `pending_outbox` and `history`, `meta.sessionEpoch`, `device_state`, the own identity (`signal-store.mjs`) |
| `task[t]` | arguments and locals of a call: the message or rows left, the row in hand, the epoch that was opened, the epoch to encrypt for, the attempt, the reply |
| `Send`, `FlushOutbox`, `OpenConversation`, `FlushIdentity`, `NextRow` | `send`, `flushOutbox` with its loop |
| `EncryptMessage`, `BuildSession`, `CommitRow` | `encryptMessage`, `reencrypt`, `buildSession`: the look at the pending row under the lock, the peer's bundle, the transaction of ratchet and rows |
| `SendMessage`, `StoreMessage` | `send_message` of `chat_actions.ex` with `create_message`, whose answers are those of `ChatStore` |
| `Deliver`, `SetSuperseded`, `DropOutboxEntry`, `Acknowledge`, `MoveToHistory` | `deliver`, `acknowledge` |
| `ResetIdentity`, `PublishIdentity`, `OnIdentitySuperseded`, `ApproveIdentity` | the functions of `S` with these names, as far as the outbox meets them |
| `EndConversation`, `OtherDeviceResets`, `PeerPublishes` | what the rest of the system does |
| `GiveUp` | a call or its reply is lost, or the tab is closed; `send_message` may still be carried out |

Abstractions. The server is what `ChatStore` promises: an epoch, and a nonce stored once in
it. A row is its nonce with the message, epoch and identity it was encrypted for. The
sequence of messages in the ratchet, and what the peer can decrypt, are not in the model.
The places for calls are alike, so a call takes the first that is free.

`Outbox` has two calls at once, one message, two epochs, one reset, one lost call or closed
tab, and three attempts (`MAX_SEND_ATTEMPTS` is 4: three are enough for a stale epoch of
`nil`, a refusal as invalid, and the drop). Two calls are what it takes for two tabs to meet
on a row, or for the reply of a send to meet the flush of its row; one lost reply makes the
row that is sent again. `OneRow` and `SentOncePerEpoch` say that a message is queued once, and
stored once per epoch and identity. `NothingLost` and `StoredIsKnown` say that a message that
was queued is not forgotten. It is about queued ones: a call that fails before it has queued
its text gives it back to the composer only when the composer is empty by then
(`chat.mjs:477`). If the user has typed on, the text is gone, and so it is when the tab is
closed. `Throw` has both outcomes (`returned`, `lost`), and `ReturnedOnce` states the use of
the condition `!queued`: a text that is back in the composer, where the user will send it
again, is neither queued nor at the server nor in another call. `CallsEnd` and `OutboxDrains`
say that the calls end and the queue empties. A message whose row meets a `nil` epoch is
dropped by the code and counts as refused: that nobody tells the composer is listed as a
hazard, and is in the model.

Fairness. Strong fairness of each call's steps: promises are settled, and Web Locks are
granted in the order of the requests, so a call that waits for the lock gets it although
other calls take it again and again. Weak fairness of `FlushOutbox`: a chat is opened (or
reconnected) again while messages are queued, without which nothing would send them. Weak
fairness of `PublishIdentity`: the reset that holds the lock ends. Nothing else has to happen,
so `OutboxDrains` excepts a superseded device and a peer whose identity is missing or waits
for approval.

### Proofs

`OutboxProofs` proves the six safety properties of the run for any set of calls, any
messages, and any number of attempts, epochs, resets and faults: `TypeCorrect`,
`PendingOnce` (`OneRow`), `StoredOncePerEpoch` (`SentOncePerEpoch`), `NothingIsLost`
(`NothingLost`), `ReturnedIsNotSent` (`ReturnedOnce`), `StoredIsInHistory` (`StoredIsKnown`).
The assumption is `OutboxAssumption`
of the module (tasks are finite and none is the string `"free"` or `"page"`; messages are
numbers).

`OneRow` and `SentOncePerEpoch` are not inductive: nothing in them says why a row that is
encrypted again is not for an epoch that the message was stored in before. `Inv` says it over
all rows that may still be stored (`Live`: pending, stored, or in the hands of a call).
The pending row of a message is the newest of its rows, in the order of epoch, then identity
(`PendingNewest`), and no two rows of a message are for the same epoch and identity
(`EncryptedOnce`). A call that is about to encrypt, under the lock, makes a row that is newer
than all (`NewestOK`) and replaces the only one pending (`OnlyOK`). What makes this so for a
flush is an order in the code: it opens the conversation, and reads the identity, *after* it
has read the rows (`OpenedOK`, `IdentityOK`), so no row it holds that is still pending is for a
later epoch; for a re-encryption, that `stale_epoch` names a later epoch than the row's, or
none, when all epochs so far are over (`StaleOK`). `acknowledge` moves a row without the lock,
which is harmless because the row was stored (`AckOK`). `CommitSupersedes` is the lemma about
the transaction; the steps that encrypt nothing share `QuietStep`.

`NothingLost`, `ReturnedOnce` and `StoredIsKnown` follow from `MessagesKept`, which says
besides that a message given back or lost is nowhere else (`GoneOK`). `Tracks(t)` says what a step of
one call must do with every message it takes from somewhere; each action is shown to track,
and `TracksKeeps` concludes. Only the transaction that replaces a row has a proof of its own,
`CommitTracks`.

Only model-checked: `CallsEnd` and `OutboxDrains`.

## `ChatView`: receiving

`ChatLive.mount` reads the latest messages and then subscribes; updates of its stream reach
the page, whose controller works off a queue of tasks (`refresh`, `processEntries`):
catch up with messages after the cursor, then decrypt and render the entries that are not
rendered. `decryptMessage` moves the cursor, which all tabs share. A change of the peer's
identity holds incoming messages back until the user approves it.

| Module | Code |
|---|---|
| `msgs`, `inserted`, `sent`, `epoch` | the store and the topic of the conversation; a message is its `seq` |
| `live`, `entries`, `first`, `pageEpoch`; `Mount`, `Subscribe`, `Rejoin`, `BroadcastMessage` | `CL` (`mount`, `handle_info`, the stream), `chat_helpers.ex` |
| `stage`, `OpenClient`, `Start`, `StartFails`, `Updated` | `chat-hooks.mjs` (`mounted`, `updated`), `start` of `CH` |
| `queue`, `run`, `StartTask`, `RenderEntry`, `FindOwn`, `ReadOwn`, `RenderFails`, `EndTask` | `enqueue`, `refresh`, `processEntries`, `renderEntries`, `textFor` of `CH` |
| `FetchMessages`, `FetchFails`, `CatchUp` | `catchUp` of `S`, `messages_after` of `C` |
| `history`, `cursor`, `trusted`, `pending`; `Decrypt`, `IdentityChanged` | `decryptMessage`, `assertTrusted` |
| `blocked`, `banner`, `approving`; `ShowIdentityChanged`, `ApproveIdentity`, `Approved` | `handleError`, `showIdentityChanged`, `approveIdentity` |
| `OtherTabDecrypts`, `OtherTabApproves`, `SendReply` | the other tabs; the reply of `send` |
| `Reencrypt`, `ClearHistory`, `removed` | the rows that `encryptMessage` replaces and `clearHistory` deletes |
| `Disconnect`, `Reload` | the socket is lost; the page is closed in the middle of whatever it does |

Abstractions. The broadcast of a message and its way to the document are one step; so are the
read and the subscription of a *re*join (those of the first mount are two). Messages
of the peer carry an identity until the user has answered. Tasks that only render are
coalesced when they follow each other in the queue, since the second finds nothing to do.
Left out: the local history ("Earlier on this device", in `LocalPrivacy`), `device_state` but
for what makes `start` fail, a database that is deleted under an open page, the text itself. A
message whose ciphertext cannot be read is stored with the text `null`
(`signal-client.mjs:765`) and counts as decrypted: the cursor passes it on purpose. That the
safety number for a banner cannot be read is left out too.

What fails. The page gets no controller when the store cannot be opened (`stage = "closed"`),
and one that renders but never refreshes when `ensureKeys` fails (`StartFails`). A message in
hand may fail for a reason other than its identity: the catch-up warns and goes on with the next
one (`CatchUp`), `textFor` ends the loop, and an error of `acknowledge` ends the task
(`RenderFails`). Each costs one of `MaxFaults`, but for a call that a lost connection answers.

The cursor is what one would like to be exact, and it is not. `mishap` records the cases in
which a message can stay behind it although nobody decrypted it:

- a message overtook another on the server (`seq` is drawn before the insert), at the insert or
  at the broadcast;
- one was broadcast between the read and the subscription of `mount`;
- one of an ended epoch was broadcast so late that the page went back to its epoch (`CL`:156
  takes the epoch of whatever arrives);
- a fetch failed, or the catch-up went on after a message it could not decrypt: the next one
  moves the cursor past it (`signal-client.mjs:1062`);
- the page rejoined, without a catch-up;
- another tab decrypted a message although one before it was not decrypted, which nothing in
  `decryptMessage` asks about;
- an entry was rendered before the catch-up of the page had ended.

`CoveredUnlessMishap` says that within the model there is no other. Its other half is
`NothingMissed`: on a page that has caught up, a message that the server has broadcast was
decrypted or its entry is there to be, so that the window of `mount`, the stream and the
catch-up, which each know only their part, leave none out between them. The last of the cases
contradicts a comment and has its own run. A catch-up asks for the epoch that the page had when
its task began (`run.epoch`), whatever arrives meanwhile.

An own message is one of this device or of another one of the session (`Dirs`). Of the latter
there is no row here, and it is shown as `unavailable`, as `chat.test.mjs:409` expects. One of
this device has a row in the outbox, then in the history, until the row is replaced, when its
epoch is over and the reply was lost, or the user clears the history: `OwnTextShown` says that
only then is it shown without its text, whichever of the reply and the stream comes first.

| Run | Instance | Checks |
|---|---|---|
| `ChatView` | 2 messages, 2 epochs (the second does not end), 2 identities, one failure (of the start, a fetch or a decryption, a lost connection, a reload, a replaced row or a cleared history), windows and answers of 1 message, `FairSpec` | `TypeOK`, `CoveredUnlessMishap`, `NothingMissed`, `OwnTextShown`, `BlockedCanApprove`, `EntriesRendered` |
| `ChatViewEarly` | as above, without faults, one epoch and identity | violates `CatchesUpFirst` |

Windows of one message make two messages enough for one that is in the window and one that
was missed before it, for a second page of an answer, and for one that overtakes the other.

`ChatViewEarly`: `refresh` "catches up with messages missed since the last visit, then renders"
(`CH`:187). But an update of the stream while `start` still awaits `ensureKeys` renders the
window at once, the cursor jumps to it, and the messages missed before it are never fetched.

Fairness: weak, of the page's own steps taken together (promises are settled, the queue is
worked off, the LiveView joins again). That the user approves, and that anybody sends, is not
assumed: `EntriesRendered` excepts a blocked page. It excepts too a page whose start failed, or
that once failed to read an entry (`failed`): nothing renders its entries before the next update
of the stream, if there is one.

### Proofs

`ChatViewProofs` proves `TypeOK`, `OwnTextShown` and `BlockedCanApprove` for any number of
messages, epochs, identities and faults, and windows and pages of any size. The inductive
invariant `Inv` says that

- a message of this device is in the outbox or in the history, or was removed from them
  (`DbOK`), so that whoever looks in the one and then in the other finds it unless it was
  (`RunOK`: in the step `history` it has left the outbox, and a row leaves it only for the
  history or by being replaced);
- an identity is trusted whenever a banner is due (`TrustOK`): a changed identity is one that
  came after a trusted one, and approval replaces it by another, never by none. The banner that
  is due therefore has an identity to show, although the approval in another tab may have
  cleared the pending one meanwhile;
- what a task holds was drawn (`RunOK`), hence a message that is decrypted has its place in the
  sequence.

`CursorIsCovered` proves `CoveredUnlessMishap`, and `NoneIsMissed` proves `NothingMissed`, as
generally. They take an invariant of their own, `CursorInv`, since the reason why nothing before the message in hand is left out lies
in what the server, the stream and the task each guarantee:

- epochs follow each other as their messages do, and what the cursor or a task has to do with
  was stored (`OrderInv`); what is shown was decrypted, and a page without a controller has done
  nothing yet (`PageInv`). Both hold after a mishap too;
- messages are broadcast in order, and a page that listens has those from its first one on
  (`SentInv`), so its entries have no gap (`EntriesInv`); those before its first entry are
  decrypted once it has caught up;
- a task has in hand every entry that is not decrypted and comes after what it has passed, and
  a catch-up that has read to its end has everything before the first entry (`TaskInv`). An
  answer has no gap, and one that is not full reaches the last message (`FirstFacts`); the
  window of `mount` has none either (`LastFacts`).

"Was decrypted" is meant as in `Known`: clearing the history does not make a message one that
was missed. `DecryptCovers` then says that the cursor stays covered by a decryption of a message
before which all were decrypted, and every decryption is shown to be one, or a mishap. For
`NothingMissed`, a message broadcast before the first entry was decrypted by `EntriesInv`, and
from there on it has its entry by `SentInv`. The attempt found the mishap
of the late broadcast, which takes three messages and two epochs and which the run, with two
messages, does not reach: without it the property is false, as TLC confirmed with three.

`Spec`, without fairness, is enough for all of them. Only model-checked: `EntriesRendered`.

## `NotificationElection`: one notification per browser

Every open tab that gets `trigger_notification` for a message claims it over a
`BroadcastChannel`; after a short time each tab computes the winner of the claims it has
heard, the winner shows the notification and confirms, and a tab that has not heard the
confirmation elects again without that winner. The module follows one dedup key.

| Module | Code (`N`) |
|---|---|
| `election`, `myClaim`, `claims`, `before` | the entries of `elections`: claim timer running, or failover timer running |
| `recent` | `recentlyShown` |
| `channel[t]` | messages that were posted and that `t` has not handled |
| `Notice` | `shouldShowNotification` with the pruning, up to the posted claim |
| `ClaimTimeout`, `FailoverTimeout` | the two timers, `electWinner`, `resolveElection` |
| `OnClaim`, `OnShown` | `channel.onmessage` |
| `CloseTab` | a tab is closed |

Abstractions. There is no clock: timers of hidden tabs are throttled and messages wait, so a
timer may fire at any time, and messages arrive late, though in order per sender. What depends
on the timing is recorded: `late` says that a timer fired while a message that matters to it
was still on its way, to the tab or, for the failover, from it, or before a tab that began
earlier had decided (`TooEarly`, `TooEarlyAgain`); `forgot` that an entry of `recentlyShown`
was pruned. A tab that has the chat in view answers at once and is left out. Priority
(`getTabPriority` gives 0 to 3) has two values. The winner confirms before its `Notification`
exists, as in the code (`push-notifications.mjs`:93-100); one that fails to create it is not
replaced.

`NotificationElection` has three tabs, three events and two tabs closed. Three tabs are a
winner, one that stands in for it, and one that must agree with both; three events are one for
each of them, or another one for a tab that has decided. Checked: `TypeOK`, `OneTabShows` (one
tab shows it, if no timer was early and nothing was pruned, although claims that precede a
tab's own event are dropped), `OncePerTab` (a tab shows it once, however late anything is),
`SomeTabShows` (of two tabs that claim, one or another tab shows it, unless two tabs are
closed). The exception is in the code: a tab that lost elects once more without the winner, and
if that second winner is not itself it gives up (`N`:149-157), so that with both of them closed
nobody notifies, although a third tab has claimed. Four events are beyond the time of a run.

Fairness: weak, that some open tab fires a timer or handles a message when one can. The
elections are finitely many, so this suffices.

`NotificationElectionProofs` proves `OneTabShows`, `OncePerTab` and `TypeOK` for any finite set
of tabs, any number of events and any number of closed tabs. `OncePerTab` is strengthened by
`OnceInv`: a tab that has shown the message has it in `recentlyShown` and no election of it.

`OnlyOneTabShows` (`OneTabShows`) follows every claim on its way. Its invariant `OneInv` says,
while no timer was early and nothing was pruned, that a tab which does not know of a
confirmation is about to be told (`ToldInv`); that only claims of elections under way travel
(`OnWayInv`); of two tabs of which one began before the other, what each of them hears of the
other is the other's present claim (`LaterInv`, `EarlierInv`); and that if a tab that began
later has shown the message, its claim beats that of a tab that is still claiming
(`BeatenInv`). `WinnerBeats` is the lemma about the order of claims that makes two tabs agree.
The attempt found that `late` missed a case: with four tabs, five events and one tab closed, a
tab's own earlier claim could still be on its way when it stood in for the winner. The run,
with three tabs, is too small for it.

Only model-checked: `SomeTabShows`.

## `LocalPrivacy`: hints, the screen lock and sign-out

Two things are for the user of this browser only: the hint about the peer, which is stored in
the peer's record and shown in the chat and in the list of conversations, and the messages
on the screen, which `:lock` hides behind a password and `:unlock` brings back. The record
has several writers, and a ratchet step writes back the copy it read under the keys lock. The
commands of the page are asynchronous and nothing keeps them apart.

| Module | Code |
|---|---|
| `meta`, `staged`; `RatchetRead`, `RatchetCommit`, `RatchetFails` | the record of the peer; `encryptMessage` and `decryptMessage` with its copy |
| `SignOut`, `ClearHints`, `ClearFails` | `sign-out.mjs`, `clearHintsOnSignOut` of `peer-hints.mjs`: with the keys lock, or after 3 seconds without it |
| `EditHint` ... `ListConversations` | `editPeerHint` of `CH`, `openHintEditor`, `setPeerHint`, and `listConversations` with `renderConversations` |
| `lock`, `text`, `history`, `shown` | `this.lock`, the entries, "Earlier on this device", the hint on each page |
| `task[i]` | the steps that a command of the page has left |
| `Lock`, `Unlock`, `Fill`, `RenderHistory`, `Name`, `ShowHint`, `RenderEntry` | `lockMessages`, `unlockMessages`, `fill`, `renderLocalHistory`, `loadPeerMeta`, `renderPeerHint`, `renderEntries` |
| `ReadFails`, `LoadFails` | an access to IndexedDB fails |

Abstractions. The record has three fields with a writer of their own: the name (`named`, set
by `setPeerName`), the hint, and `epoch`, which stands for what the ratchet writes:
`sessionEpoch` and the cursor. A ratchet step writes the whole record as it read it, with its
part replaced; the other writers replace their field in a transaction. The list has only peers
with a name (`Listed`): a record that a failed `setPeerName` left without one is not shown
there, whatever its hint, and appears when the chat has named it and the list is read again.
Passwords are the number of the lock they were made for. Each page has one hint editor, and a
modal editor in the chat keeps new commands away. Left out: `clearHistory`, `exportCsv`,
"Forget this device", the order of the list. Only safety is stated, so the slots of the tasks
and the values of `epoch` are symmetric.

What the properties except is what the code does: after its three seconds sign-out clears
without the lock, and a ratchet step that read the record before brings the hint back
(`raced`); work on the hint that was under way when the screen was locked shows it on the
locked screen (`overtaken`; `docs/e2e-encryption.md`:117-119 promises that the lock hides it);
a failed read of the history leaves a command half done (`faults`).

`LocalPrivacy` has two entries (one that an unlock has filled and one that it has not), two
commands at once, two locks (a screen that was unlocked and locked again while the first
unlock was filling), one save, one fault and two values of the ratchet's part (a step that
writes what was there before, and one that does not), and checks `TypeOK`, `MessagesHidden`,
`UnlockedIsReadable`, `HintHidden`, `ShownIsStored`, `NothingOverwritten`.

`LocalPrivacyProofs` proves all six for every number of entries, tasks, locks, saves and
faults. A task under way is a rest of one of three sequences of steps (`TypeInv`).
`LockInv` says what the lock is owed: no text is plain while it is on, and nothing is masked
while it is off, except what a task will still fill (`TextHidden`, `TextReadable`); the
history has the wrong look only while a task is to render it (`HistoryPending`); the hint is
gone (`HintGone`). `AttemptInv` keeps the number of a lock from being 0, which would leave the
screen open. `OverInv` says that the ratchet's part and the name are what was last written,
always, that the copy of a ratchet step has the name of the record, and, as long as no sign-out
raced, its hint too. `ShownInv` relates what a page shows to what is stored and to what its editor
and its tasks will still do.

## Not modelled

Planned next: `Reset`, the composition of the key directory's transaction with
`end_conversations` and `send_message`, which read the identity and write the store in two
steps; `Sessions` (log-in races with the clean-up); `PushWakeUp` (it needs a clock for the
windows, and a model of the push service). Their hazards are listed without a property.

Left out for good: contents and encryption (the vendored `libsignal-wasm` is external),
validation of key formats, user interface code (markdown, vim mode, commands, clipboard, dark
mode, pages and components), the adapters between sockets and the functions modelled here,
locale, telemetry, release tasks, configuration and migrations: they are sequential, hold no
shared state, or are pure input and output.
