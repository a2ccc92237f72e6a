---------------------------- MODULE KeyLifecycle ----------------------------
(***************************************************************************)
(* The Signal keys of one session: the bundle of public halves that the    *)
(* server keeps (Privee.PreKeyStore) and the private halves on the devices *)
(* that are signed in to the session (the key part of SignalClient).       *)
(*                                                                         *)
(* Every operation of the server is one transaction with a lock on the row *)
(* of the session, so one action.  A device runs one key operation at a    *)
(* time (its tabs share the exclusive keys lock): it asks for the status,  *)
(* changes and commits its own keys, sends a request, waits for the reply  *)
(* and goes on.  What is committed stays when the request fails: it may be *)
(* lost, its reply may be lost, and it may arrive after the device gave up,*)
(* when another tab or device has gone on.                                 *)
(*                                                                         *)
(* A key is the identity it belongs to and its id.  A signed prekey and the*)
(* Kyber prekey published with it share id and life, so they are one key.  *)
(* The clock counts days.                                                  *)
(***************************************************************************)
EXTENDS Integers, FiniteSets

CONSTANTS
  Devices,        \* browsers and apps signed in to the session
  OpkTarget,      \* OPK_TARGET
  OpkLow,         \* OPK_LOW_WATERMARK
  MaxOpks,        \* @max_one_time_prekeys
  Rotation,       \* SPK_ROTATION_MS
  MaxAge,         \* max_age_ms, the lifetime of a conversation
  Day,            \* DAY_MS
  MaxClock,       \* bound: the clock stops there
  MaxServed,      \* bound: one-time prekeys that peers take
  MaxResets,      \* bound: calls of resetIdentity
  MaxLost,        \* bound: requests whose reply does not arrive
  MaxWipes        \* bound: times the server loses the bundle

ASSUME ConstantsAssumption ==
  /\ OpkTarget \in Nat \ {0} /\ OpkLow \in 0 .. OpkTarget
  /\ MaxOpks \in Nat /\ OpkTarget <= MaxOpks
  /\ Rotation \in Nat /\ MaxAge \in Nat /\ Day \in Nat
  /\ MaxClock \in Nat /\ MaxServed \in Nat /\ MaxResets \in Nat
  /\ MaxLost \in Nat /\ MaxWipes \in Nat

VARIABLES
  bundle,       \* sessions.prekey_bundle
  keys,         \* the key store of each device
  step,         \* what each device waits for
  resetting,    \* its operation is resetIdentity, not ensureKeys
  status,       \* the reply to signal_status it works with
  request,      \* the request it waits for
  late,         \* requests whose sender gave up and that may still arrive
  lastIdentity, \* identities 1 .. lastIdentity have been generated
  clock,
  resets, lost, wipes,
  served,       \* history: one-time prekeys handed to peers
  used,         \* history: signed prekeys handed to peers, and when
  accepted      \* history: identities that were in the bundle

server == <<bundle, served, used, accepted>>
device == <<keys, step, resetting, status, request, lastIdentity>>
bounds == <<clock, resets, lost, wipes>>
vars   == <<server, device, late, bounds>>

-----------------------------------------------------------------------------
(* Keys, bundles, requests                                                 *)

NoIdentity == 0
Never      == -1

Key(i, n)    == [by |-> i, id |-> n]
KeysOf(i, S) == {Key(i, n) : n \in S}
AnyKey       == [by : Nat, id : Nat]

NoBundle == [identity |-> NoIdentity, spk |-> Key(NoIdentity, 0), opks |-> {}, max |-> 0]

Events    == {"publish", "reset", "rotate", "add"}
NoRequest == [event |-> "add", identity |-> NoIdentity, spk |-> 0, after |-> 0, last |-> 0]

\* The one-time prekeys of a request: createOneTimePreKeys makes them one after the other.
Ids(r) == r.after + 1 .. r.last

LargerOf(a, b) == IF a >= b THEN a ELSE b

\* max_key_id/2
MaxKeyId(r, initial) == IF r.after < r.last THEN LargerOf(r.last, initial) ELSE initial

\* status/1
NoStatus    == [count |-> 0, max |-> 0]
StatusOf(b) == [count |-> Cardinality(b.opks), max |-> b.max]

\* The list is ascending: its first element, if it has one.
First(S) == {k \in S : \A j \in S : k.id <= j.id}

-----------------------------------------------------------------------------
(* The server: Privee.PreKeyStore                                          *)

\* validate_full_bundle/1 of what a device sends
FullBundle(r) ==
  [identity |-> r.identity, spk |-> Key(r.identity, r.spk),
   opks |-> KeysOf(r.identity, Ids(r)), max |-> MaxKeyId(r, 0)]

Write(b) == bundle' = b /\ accepted' = accepted \cup {b.identity}
Refuse   == UNCHANGED <<bundle, accepted>>

PublishIdentity(r, ok) ==
  /\ r.event = "publish"
  /\ \/ bundle = NoBundle /\ ok /\ Write(FullBundle(r))
     \/ bundle # NoBundle /\ bundle.identity = r.identity /\ ok /\ Refuse
     \/ bundle # NoBundle /\ bundle.identity # r.identity /\ ~ok /\ Refuse

ResetIdentity(r, ok) ==
  /\ r.event = "reset"
  /\ ok /\ Write(FullBundle(r))

\* Mutant: any identity may add keys to the bundle.
IsPublished(r) == bundle # NoBundle

\* with_identity/3
IsCurrent(r) == bundle # NoBundle /\ bundle.identity = r.identity

RotateSignedPreKey(r, ok) ==
  /\ r.event = "rotate"
  /\ \/ IsCurrent(r) /\ ok /\ Write([bundle EXCEPT !.spk = Key(r.identity, r.spk)])
     \/ ~IsCurrent(r) /\ ~ok /\ Refuse

\* Mutant: the size of the pool is not looked at.
AppendableIds(r) == \A n \in Ids(r) : n > bundle.max

\* append_one_time_prekeys/2
Appendable(r) ==
  /\ \A n \in Ids(r) : n > bundle.max
  /\ Cardinality(bundle.opks) + Cardinality(Ids(r)) <= MaxOpks

AddOneTimePreKeys(r, ok) ==
  /\ r.event = "add"
  /\ \/ /\ IsCurrent(r) /\ Appendable(r) /\ ok
        /\ Write([bundle EXCEPT !.opks = @ \cup KeysOf(r.identity, Ids(r)),
                                !.max = MaxKeyId(r, @)])
     \/ ~(IsCurrent(r) /\ Appendable(r)) /\ ~ok /\ Refuse

Handle(r, ok) ==
  /\ \/ PublishIdentity(r, ok) \/ ResetIdentity(r, ok)
     \/ RotateSignedPreKey(r, ok) \/ AddOneTimePreKeys(r, ok)
  /\ UNCHANGED <<served, used>>

\* A peer builds a session.  The rate limiter decides whether it is given a one-time
\* prekey.
FetchBundle ==
  /\ bundle # NoBundle
  /\ used' = used \cup {[key |-> bundle.spk, at |-> clock]}
  /\ \/ UNCHANGED <<bundle, served>>
     \/ \E k \in First(bundle.opks) :
          /\ Cardinality(served) < MaxServed
          /\ bundle' = [bundle EXCEPT !.opks = @ \ {k}]
          /\ served' = served \cup {k}
  /\ UNCHANGED <<accepted, device, late, bounds>>

\* A migration, or remove_bundle.
RemoveBundle ==
  /\ wipes < MaxWipes
  /\ wipes' = wipes + 1
  /\ bundle' = NoBundle
  /\ UNCHANGED <<served, used, accepted, device, late, clock, resets, lost>>

-----------------------------------------------------------------------------
(* The key store of a device                                               *)

NoKeys ==
  [identity |-> NoIdentity, spks |-> {}, spk |-> 0, created |-> 0, spkCounter |-> 0,
   opks |-> {}, opkCounter |-> 0, state |-> "none"]

\* createSignedPreKey: the key that was current is retired at once.
WithSignedPreKey(k) ==
  LET n == k.spkCounter + 1
      retired == {IF s.id = k.spk THEN [s EXCEPT !.retired = clock] ELSE s : s \in k.spks}
  IN [k EXCEPT !.spkCounter = n, !.spk = n, !.created = clock,
               !.spks = retired \cup {[id |-> n, retired |-> Never]}]

\* Mutant: the ids start again from what the server knows.
WithServerIds(k, count, serverMax) ==
  [k EXCEPT !.opks = @ \cup (serverMax + 1 .. serverMax + count), !.opkCounter = serverMax + count]

\* createOneTimePreKeys: above any id used here or accepted by the server
WithOneTimePreKeys(k, count, serverMax) ==
  LET start == LargerOf(k.opkCounter, serverMax)
  IN [k EXCEPT !.opks = @ \cup (start + 1 .. start + count), !.opkCounter = start + count]

\* Mutant: without the extra day.
ExpiredEarly(s, k) == s.id # k.spk /\ s.retired # Never /\ clock - s.retired >= MaxAge

\* The pruning in maintainKeys
Expired(s, k) ==
  s.id # k.spk /\ s.retired # Never /\ clock - s.retired > MaxAge + Day

Pruned(k) == [k EXCEPT !.spks = {s \in @ : ~Expired(s, k)}]

-----------------------------------------------------------------------------
(* Key operations of a device                                              *)

Steps == {"idle", "status", "reply"}

\* The operation ends, returning or throwing; the lock is free.
End(d) ==
  /\ step' = [step EXCEPT ![d] = "idle"]
  /\ request' = [request EXCEPT ![d] = NoRequest]
  /\ status' = [status EXCEPT ![d] = NoStatus]
  /\ resetting' = [resetting EXCEPT ![d] = FALSE]

Finish(d, k, s) ==
  /\ keys' = [keys EXCEPT ![d] = [k EXCEPT !.state = s]]
  /\ End(d)

\* The private halves are committed, the public ones are sent.
Send(d, k, r) ==
  /\ keys' = [keys EXCEPT ![d] = k]
  /\ request' = [request EXCEPT ![d] = r]
  /\ step' = [step EXCEPT ![d] = "reply"]
  /\ UNCHANGED resetting

\* publishBundle, for the protocol state k
PublishBundle(d, event, k) ==
  LET full == WithOneTimePreKeys(WithSignedPreKey(k), OpkTarget, bundle.max)
  IN /\ Send(d, full, [event |-> event, identity |-> k.identity, spk |-> full.spk,
                       after |-> full.opkCounter - OpkTarget, last |-> full.opkCounter])
     /\ UNCHANGED status

PublishNewIdentity(d, event) ==
  LET k == [keys[d] EXCEPT !.identity = lastIdentity + 1, !.opks = {},
                           !.spks = IF event = "reset" THEN {} ELSE @]
  IN /\ PublishBundle(d, event, k)
     /\ lastIdentity' = lastIdentity + 1

\* The second half of maintainKeys, with the status of before.
PruneAndTopUp(d, st) ==
  LET k     == Pruned(keys[d])
      count == OpkTarget - st.count
      full  == WithOneTimePreKeys(k, count, st.max)
  IN \/ /\ st.count < OpkLow
        /\ Send(d, full, [event |-> "add", identity |-> k.identity, spk |-> 0,
                          after |-> full.opkCounter - count, last |-> full.opkCounter])
        /\ status' = [status EXCEPT ![d] = NoStatus]
     \/ /\ st.count >= OpkLow
        /\ Finish(d, k, "ready")

RotationDue(k) == k.spk = 0 \/ clock - k.created >= Rotation

MaintainKeys(d) ==
  LET k == WithSignedPreKey(keys[d])
  IN \/ /\ RotationDue(keys[d])
        /\ Send(d, k, [event |-> "rotate", identity |-> k.identity, spk |-> k.spk,
                       after |-> 0, last |-> 0])
        /\ status' = [status EXCEPT ![d] = StatusOf(bundle)]
     \/ /\ ~RotationDue(keys[d])
        /\ PruneAndTopUp(d, StatusOf(bundle))

Start(d) ==
  /\ step[d] = "idle"
  /\ step' = [step EXCEPT ![d] = "status"]
  /\ UNCHANGED <<server, status, request, lastIdentity, late, clock, lost, wipes>>

EnsureKeys(d) ==
  /\ Start(d)
  /\ UNCHANGED <<keys, resetting, resets>>

ResetOwnIdentity(d) ==
  /\ resets < MaxResets
  /\ Start(d)
  /\ keys' = [keys EXCEPT ![d].state = "resetting"]
  /\ resetting' = [resetting EXCEPT ![d] = TRUE]
  /\ resets' = resets + 1

\* The reply to signal_status is here: the branches of ensureKeys and resetIdentity.
Status(d) ==
  LET own == keys[d].identity
  IN /\ step[d] = "status"
     /\ \/ /\ resetting[d]
           /\ PublishNewIdentity(d, "reset")
        \/ /\ ~resetting[d] /\ own = NoIdentity /\ bundle # NoBundle
           /\ Finish(d, keys[d], "needs_reset") /\ UNCHANGED lastIdentity
        \/ /\ ~resetting[d] /\ own = NoIdentity /\ bundle = NoBundle
           /\ PublishNewIdentity(d, "publish")
        \/ /\ ~resetting[d] /\ own # NoIdentity /\ bundle = NoBundle
           /\ PublishBundle(d, "publish", keys[d]) /\ UNCHANGED lastIdentity
        \/ /\ ~resetting[d] /\ own # NoIdentity /\ bundle # NoBundle /\ bundle.identity # own
           /\ Finish(d, keys[d], "superseded") /\ UNCHANGED lastIdentity
        \/ /\ ~resetting[d] /\ own # NoIdentity /\ bundle.identity = own
           /\ MaintainKeys(d) /\ UNCHANGED lastIdentity
     /\ UNCHANGED <<server, late, bounds>>

\* Mutant: the error in the reply is not looked at.
ReplyIgnored(d, ok) ==
  \/ /\ request[d].event = "rotate"
     /\ PruneAndTopUp(d, status[d])
  \/ /\ request[d].event # "rotate"
     /\ Finish(d, keys[d], "ready")

\* An error is thrown and leaves the keys as they are; after a rotation maintainKeys
\* goes on, after any other request the device is ready.
Reply(d, ok) ==
  \/ /\ ~ok
     /\ End(d) /\ UNCHANGED keys
  \/ /\ ok /\ request[d].event = "rotate"
     /\ PruneAndTopUp(d, status[d])
  \/ /\ ok /\ request[d].event # "rotate"
     /\ Finish(d, keys[d], "ready")

Serve(d) ==
  /\ step[d] = "reply"
  /\ \E ok \in BOOLEAN : Handle(request[d], ok) /\ Reply(d, ok)
  /\ UNCHANGED <<late, lastIdentity, bounds>>

-----------------------------------------------------------------------------
(* The network, time                                                       *)

GiveUp(d) ==
  /\ lost < MaxLost
  /\ lost' = lost + 1
  /\ End(d)
  /\ UNCHANGED <<keys, lastIdentity, clock, resets, wipes>>

\* The request, or the answer to signal_status, is lost; or the tab was closed.
LoseRequest(d) ==
  /\ step[d] # "idle"
  /\ GiveUp(d)
  /\ UNCHANGED <<server, late>>

LoseReply(d) ==
  /\ step[d] = "reply"
  /\ GiveUp(d)
  /\ \E ok \in BOOLEAN : Handle(request[d], ok)
  /\ UNCHANGED late

\* The push times out while the server has not come to the request yet.
Delay(d) ==
  /\ step[d] = "reply"
  /\ GiveUp(d)
  /\ late' = late \cup {request[d]}
  /\ UNCHANGED server

ServeLate ==
  \E r \in late :
    /\ late' = late \ {r}
    /\ \E ok \in BOOLEAN : Handle(r, ok)
    /\ UNCHANGED <<device, bounds>>

\* A day: no request is under way that long.
Tick ==
  /\ clock < MaxClock
  /\ late = {} /\ \A d \in Devices : step[d] = "idle"
  /\ clock' = clock + 1
  /\ UNCHANGED <<server, device, late, resets, lost, wipes>>

-----------------------------------------------------------------------------
Init ==
  /\ bundle = NoBundle
  /\ keys = [d \in Devices |-> NoKeys]
  /\ step = [d \in Devices |-> "idle"]
  /\ resetting = [d \in Devices |-> FALSE]
  /\ status = [d \in Devices |-> NoStatus]
  /\ request = [d \in Devices |-> NoRequest]
  /\ late = {}
  /\ lastIdentity = 0
  /\ clock = 0 /\ resets = 0 /\ lost = 0 /\ wipes = 0
  /\ served = {} /\ used = {} /\ accepted = {}

Operate(d) ==
  \/ EnsureKeys(d) \/ ResetOwnIdentity(d) \/ Status(d) \/ Serve(d)
  \/ LoseRequest(d) \/ LoseReply(d) \/ Delay(d)

Next ==
  \/ \E d \in Devices : Operate(d)
  \/ FetchBundle
  \/ RemoveBundle
  \/ ServeLate
  \/ Tick

Spec == Init /\ [][Next]_vars

-----------------------------------------------------------------------------
(* Properties                                                              *)

Bundles  == [identity : Nat, spk : AnyKey, opks : SUBSET AnyKey, max : Nat]
Requests == [event : Events, identity : Nat, spk : Nat, after : Nat, last : Nat]
States   == {"none", "ready", "needs_reset", "superseded", "resetting"}
KeyStores ==
  [identity : Nat, spks : SUBSET [id : Nat, retired : Nat \cup {Never}], spk : Nat,
   created : Nat, spkCounter : Nat, opks : SUBSET Nat, opkCounter : Nat, state : States]

\* Every variable has its shape, and the pool keeps to its limit.
TypeOK ==
  /\ bundle \in Bundles /\ IsFiniteSet(bundle.opks) /\ Cardinality(bundle.opks) <= MaxOpks
  /\ keys \in [Devices -> KeyStores]
  /\ step \in [Devices -> Steps]
  /\ resetting \in [Devices -> BOOLEAN]
  /\ status \in [Devices -> [count : Nat, max : Nat]]
  /\ request \in [Devices -> Requests]
  /\ late \subseteq Requests
  /\ lastIdentity \in Nat /\ clock \in Nat
  /\ resets \in Nat /\ lost \in Nat /\ wipes \in Nat
  /\ served \subseteq AnyKey
  /\ used \subseteq [key : AnyKey, at : Nat]
  /\ accepted \subseteq Nat

\* A one-time prekey that was handed to a peer is never offered again, whatever
\* requests are lost, late or repeated, and even if the server loses the bundle and the
\* device publishes the same identity once more.
ServedOnce == bundle.opks \cap served = {}

\* Each one-time prekey that the server offers for a device's identity is one whose
\* private half the device holds: a message that a peer encrypts with it can be read.
OneTimeKeysHeld ==
  \A d \in Devices :
    keys[d].identity = bundle.identity
      => bundle.opks \subseteq KeysOf(keys[d].identity, keys[d].opks)

SignedKeys(k) == {Key(k.identity, s.id) : s \in k.spks}

\* ... and so is the signed prekey: pruning does not take what is still published.
SignedKeyHeld ==
  \A d \in Devices :
    keys[d].identity # NoIdentity /\ keys[d].identity = bundle.identity
      => bundle.spk \in SignedKeys(keys[d])

\* "A retired key is kept for the conversation lifetime plus a day after it stops being
\* published" (docs/e2e-encryption.md:77): a message that a peer encrypted with a signed
\* prekey can be read as long as its conversation can last.
KeptWhileReadable ==
  \A u \in used, d \in Devices :
    u.key.by = keys[d].identity /\ clock - u.at <= MaxAge
      => u.key \in SignedKeys(keys[d])

\* ... as far as no request was lost: the rotation that replaced the key was accepted.
KeptUnlessLost == lost = 0 => KeptWhileReadable

\* A device that is ready has an identity that the server accepted once: in the middle
\* of a reset, or after one that failed, it does not send.
ReadyIsAccepted ==
  \A d \in Devices : keys[d].state = "ready" => keys[d].identity \in accepted
=============================================================================
