-------------------------- MODULE SignedKeyProofs --------------------------
(***************************************************************************)
(* The signed prekeys of KeyLifecycle, and the identities: what the server *)
(* offers is on the device, and what it offered can be read as long as a   *)
(* conversation lasts.  For any number of devices, resets, wiped bundles   *)
(* and served keys; where a promise depends on how many requests were      *)
(* lost, the theorem says on how many.                                     *)
(***************************************************************************)
EXTENDS KeyLifecycleProofs

\* An identity in the bundle, or of a device that is ready, was accepted; while a device
\* resets its identity its state says so.
AcceptedInv ==
  /\ NoIdentity \notin accepted
  /\ bundle = NoBundle \/ bundle.identity \in accepted
  /\ \A d \in Devices :
       /\ keys[d].state = "ready" => keys[d].identity \in accepted
       /\ resetting[d] => step[d] # "idle"
       /\ resetting[d] /\ step[d] = "status" => keys[d].state = "resetting"

\* The device has the signed prekey n.
Holds(k, n) == \E s \in k.spks : s.id = n

\* ... and it is current, or was until t or later.
HoldsSince(k, n, t) == \E s \in k.spks : s.id = n /\ (n = k.spk \/ s.retired >= t)

\* The device has the signed prekey it made last, and sends no other; the one of a late
\* request was current on the same day.
OwnInv ==
  /\ bundle.spk.by = bundle.identity
  /\ \A d \in Devices :
       /\ keys[d].created <= clock
       /\ keys[d].identity # NoIdentity => Holds(keys[d], keys[d].spk)
       /\ step[d] = "reply" /\ request[d].event # "add" => request[d].spk = keys[d].spk
       /\ \A r \in late :
            r.identity = keys[d].identity /\ r.event # "add" => HoldsSince(keys[d], r.spk, clock)
  /\ late # {} => lost > 0

Published(d)  == bundle.identity = keys[d].identity /\ keys[d].identity # NoIdentity
Rotating(d)   == step[d] = "reply" /\ request[d].event = "rotate"
Publishing(d) == step[d] = "reply" /\ request[d].event \in Replies

\* As long as no request was lost, the signed prekey on offer is the current one, unless
\* its successor is under way.
OfferedExactly(d) ==
  /\ ~Publishing(d)
  /\ Rotating(d) => HoldsSince(keys[d], bundle.spk.id, clock)
  /\ ~Rotating(d) => bundle.spk.id = keys[d].spk

\* After one loss it may be the one before, retired when the current one was made.
OfferedLately(d) ==
  /\ Holds(keys[d], bundle.spk.id)
  /\ ~Rotating(d) => HoldsSince(keys[d], bundle.spk.id, keys[d].created)

\* Then the next rotation is due before the pruning is.
RotatesInTime == Rotation <= MaxAge + Day

OfferInv(d) ==
  Published(d) =>
    /\ lost = 0 => OfferedExactly(d)
    /\ lost = 1 /\ RotatesInTime => OfferedLately(d)

\* Of the signed prekeys handed out, those whose conversations last are on the device, and
\* were current when they were handed out.
UsedInv ==
  \A u \in used :
    /\ u.at <= clock /\ u.key.by \in 1 .. lastIdentity
    /\ \A d \in Devices :
         lost = 0 /\ u.key.by = keys[d].identity /\ clock - u.at <= MaxAge
           => HoldsSince(keys[d], u.key.id, u.at)

SignedInv == AcceptedInv /\ OwnInv /\ (\A d \in Devices : OfferInv(d)) /\ UsedInv

-----------------------------------------------------------------------------
(* Signed prekeys of a key store                                           *)

SameSigned(k, l) ==
  l.identity = k.identity /\ l.spks = k.spks /\ l.spk = k.spk /\ l.created = k.created

\* What a device had, it has, unless its time is over.
Keeps(k, l) ==
  /\ l.identity = k.identity /\ l.created <= clock
  /\ Holds(k, k.spk) => Holds(l, l.spk)
  /\ \A n, t \in Nat :
       t <= clock /\ clock - t <= MaxAge + Day /\ HoldsSince(k, n, t) => HoldsSince(l, n, t)

\* What it does not touch, a device has.
LEMMA SameKeeps ==
  ASSUME NEW k, NEW l, SameSigned(k, l), k.created <= clock
  PROVE  Keeps(k, l)
  BY DEF SameSigned, Keeps, Holds, HoldsSince

\* A change of the one-time keys or of the state keeps what was kept.
LEMMA KeepsThrough ==
  ASSUME NEW k, NEW l, NEW m, Keeps(k, l), SameSigned(l, m)
  PROVE  Keeps(k, m)
  BY DEF SameSigned, Keeps, Holds, HoldsSince

\* A key that was current at some time is on the device; the current one is current.
LEMMA HoldsWeakens ==
  ASSUME NEW k, NEW n, NEW t
  PROVE  /\ HoldsSince(k, n, t) => Holds(k, n)
         /\ Holds(k, k.spk) => HoldsSince(k, k.spk, t)
  BY DEF Holds, HoldsSince

\* A key that was current at a time was so, for what is asked here, at an earlier one.
LEMMA HoldsEarlier ==
  ASSUME NEW k \in KeyStores, NEW n, NEW t \in Nat, NEW u \in Nat, t <= u, HoldsSince(k, n, u)
  PROVE  HoldsSince(k, n, t)
<1>1. PICK s \in k.spks : s.id = n /\ (n = k.spk \/ s.retired >= u)
  BY DEF HoldsSince
<1>2. s.retired \in Int
  BY DEF KeyStores, Never
<1> QED
  BY <1>1, <1>2 DEF HoldsSince

\* One-time prekeys and the state leave the signed prekeys alone.
LEMMA OthersSame ==
  ASSUME NEW k \in KeyStores
  PROVE  /\ \A count, m : /\ SameSigned(k, WithOneTimePreKeys(k, count, m))
                           /\ WithOneTimePreKeys(k, count, m).state = k.state
         /\ \A s : SameSigned(k, [k EXCEPT !.state = s]) /\ [k EXCEPT !.state = s].state = s
  BY DEF KeyStores, SameSigned, WithOneTimePreKeys

\* The key that was current is retired today, the others when they were.
LEMMA RotationKeeps ==
  ASSUME NEW k \in KeyStores, clock \in Nat
  PROVE  LET l == WithSignedPreKey(k)
         IN /\ Keeps(k, l) /\ l.created = clock /\ Holds(l, l.spk)
            /\ \A n : Holds(k, n) => Holds(l, n)
            /\ l.state = k.state
<1> DEFINE retire(s) == IF s.id = k.spk THEN [s EXCEPT !.retired = clock] ELSE s
           l == WithSignedPreKey(k)
           n == k.spkCounter + 1
           new == [id |-> n, retired |-> Never]
           Records == [id : Nat, retired : Nat \cup {Never}]
<1>1. /\ l.identity = k.identity /\ l.spk = n /\ l.created = clock /\ l.state = k.state
      /\ l.spks = {retire(s) : s \in k.spks} \cup {new}
  BY DEF KeyStores, WithSignedPreKey
<1>2. k.spks \subseteq Records
  BY DEF KeyStores
<1>3. \A s \in k.spks : retire(s).id = s.id /\ (s.id = k.spk => retire(s).retired = clock)
                        /\ (s.id # k.spk => retire(s) = s)
  BY <1>2
<1>4. \A s \in k.spks : retire(s) \in l.spks
  BY <1>1
<1>5. new \in l.spks /\ new.id = n
  BY <1>1
<1> HIDE DEF l, retire, new
<1>6. Holds(l, l.spk) /\ \A m : Holds(k, m) => Holds(l, m)
  BY <1>1, <1>3, <1>4, <1>5 DEF Holds
<1>7. ASSUME NEW m \in Nat, NEW t \in Nat, t <= clock, HoldsSince(k, m, t)
      PROVE  HoldsSince(l, m, t)
  <2>1. PICK s \in k.spks : s.id = m /\ (m = k.spk \/ s.retired >= t)
    BY <1>7 DEF HoldsSince
  <2>2. retire(s) \in l.spks /\ retire(s).id = m /\ retire(s).retired >= t
    BY <1>3, <1>4, <1>7, <2>1
  <2> QED
    BY <2>2 DEF HoldsSince
<1> QED
  BY <1>1, <1>6, <1>7 DEF Keeps, l

\* Pruning takes what was retired longer ago than a conversation lasts.
LEMMA PruningKeeps ==
  ASSUME NEW k \in KeyStores, clock \in Nat, k.created <= clock
  PROVE  /\ Keeps(k, Pruned(k))
         /\ Pruned(k).spk = k.spk /\ Pruned(k).created = k.created /\ Pruned(k).state = k.state
<1>1. /\ Pruned(k).identity = k.identity /\ Pruned(k).spk = k.spk
      /\ Pruned(k).created = k.created /\ Pruned(k).state = k.state
      /\ Pruned(k).spks = {s \in k.spks : ~Expired(s, k)}
  BY DEF KeyStores, Pruned
<1>2. k.spks \subseteq [id : Nat, retired : Nat \cup {Never}]
  BY DEF KeyStores
<1>3. Holds(k, k.spk) => Holds(Pruned(k), Pruned(k).spk)
  BY <1>1 DEF Holds, Expired
<1>4. ASSUME NEW n \in Nat, NEW t \in Nat, clock - t <= MaxAge + Day, HoldsSince(k, n, t)
      PROVE  HoldsSince(Pruned(k), n, t)
  <2>1. PICK s \in k.spks : s.id = n /\ (n = k.spk \/ s.retired >= t)
    BY <1>4 DEF HoldsSince
  <2>2. s.retired \in Int /\ MaxAge \in Nat /\ Day \in Nat
    BY <1>2, ConstantsAssumption DEF Never
  <2>3. ~Expired(s, k)
    BY <1>4, <2>1, <2>2 DEF Expired
  <2> QED
    BY <1>1, <2>1, <2>3 DEF HoldsSince
<1> QED
  BY <1>1, <1>3, <1>4 DEF Keeps

-----------------------------------------------------------------------------
(* The server                                                              *)

\* A request is answered with ok only if its identity is in the bundle then; only a
\* publish that has nothing to do leaves the signed prekey of such a request out.
LEMMA HandleSigned ==
  ASSUME ServerOK, AcceptedInv, bundle.spk.by = bundle.identity,
         NEW r \in Requests, r.identity # NoIdentity, NEW ok \in BOOLEAN, Handle(r, ok)
  PROVE  /\ accepted \subseteq accepted' /\ NoIdentity \notin accepted'
         /\ bundle' = NoBundle \/ bundle'.identity \in accepted'
         /\ bundle'.spk.by = bundle'.identity
         /\ used' = used
         /\ ok => r.identity \in accepted'
         /\ \/ /\ bundle'.identity = bundle.identity /\ bundle'.spk = bundle.spk
               /\ r.event = "rotate" => ~ok /\ bundle'.identity # r.identity
            \/ /\ bundle'.identity = r.identity /\ bundle'.spk = Key(r.identity, r.spk)
               /\ r.event # "add"
<1> USE DEF AcceptedInv
<1>1. NoBundle.identity = NoIdentity
  BY DEF NoBundle
<1>2. used' = used
  BY DEF Handle
<1>3. CASE /\ Refuse /\ r.event \in {"publish", "add"}
           /\ ok => bundle # NoBundle /\ bundle.identity = r.identity
  <2>1. bundle' = bundle /\ accepted' = accepted
    BY <1>3 DEF Refuse
  <2> QED
    BY <1>2, <1>3, <2>1
<1>4. CASE ok /\ r.event \in Replies /\ Write(FullBundle(r))
  <2>1. /\ bundle' = FullBundle(r) /\ accepted' = accepted \cup {FullBundle(r).identity}
        /\ FullBundle(r).identity = r.identity /\ FullBundle(r).spk = Key(r.identity, r.spk)
        /\ Key(r.identity, r.spk).by = r.identity
    BY <1>4 DEF Write, FullBundle, Key
  <2> QED
    BY <1>2, <1>4, <2>1 DEF Replies
<1>5. CASE RotateSignedPreKey(r, ok)
  <2>1. CASE ~IsCurrent(r)
    <3>1. bundle' = bundle /\ accepted' = accepted /\ ~ok /\ bundle.identity # r.identity
      BY <1>1, <1>5, <2>1 DEF RotateSignedPreKey, Refuse, IsCurrent
    <3> QED
      BY <1>2, <3>1
  <2>2. CASE IsCurrent(r)
    <3>1. /\ bundle' = [bundle EXCEPT !.spk = Key(r.identity, r.spk)]
          /\ accepted' = accepted \cup {bundle'.identity}
          /\ bundle.identity = r.identity /\ r.event = "rotate"
      BY <1>5, <2>2 DEF RotateSignedPreKey, Write, IsCurrent
    <3>2. bundle'.identity = r.identity /\ bundle'.spk = Key(r.identity, r.spk)
      BY <3>1 DEF ServerOK, Bundles
    <3>3. Key(r.identity, r.spk).by = r.identity
      BY DEF Key
    <3> QED
      BY <1>2, <3>1, <3>2, <3>3
  <2> QED
    BY <2>1, <2>2
<1>6. CASE r.event = "add" /\ ok /\ IsCurrent(r) /\ AddOneTimePreKeys(r, ok)
  <2>1. /\ bundle' = [bundle EXCEPT !.opks = @ \cup KeysOf(r.identity, Ids(r)),
                                    !.max = MaxKeyId(r, @)]
        /\ accepted' = accepted \cup {bundle'.identity} /\ bundle.identity = r.identity
    BY <1>6 DEF AddOneTimePreKeys, Write, IsCurrent
  <2>2. bundle'.identity = bundle.identity /\ bundle'.spk = bundle.spk
    BY <2>1 DEF ServerOK, Bundles
  <2> QED
    BY <1>2, <1>6, <2>1, <2>2
<1>7. AddOneTimePreKeys(r, ok) => <1>3!1 \/ <1>6!1
  BY DEF AddOneTimePreKeys
<1>8. PublishIdentity(r, ok) => <1>3!1 \/ <1>4!1
  BY DEF PublishIdentity, Replies
<1>9. ResetIdentity(r, ok) => <1>4!1
  BY DEF ResetIdentity, Replies
<1> QED
  BY <1>3, <1>4, <1>5, <1>6, <1>7, <1>8, <1>9 DEF Handle

-----------------------------------------------------------------------------
(* What a step of a device amounts to                                      *)

\* The signed prekeys of d after a step of it.
SignedStep(d) ==
  \/ lastIdentity' = lastIdentity /\ Keeps(keys[d], keys'[d])
  \/ /\ lastIdentity' = lastIdentity + 1 /\ keys'[d].identity = lastIdentity'
     /\ keys'[d].created <= clock /\ Holds(keys'[d], keys'[d].spk)

ReadyInv(d) ==
  /\ keys[d].state = "ready" => keys[d].identity \in accepted
  /\ resetting[d] => step[d] # "idle"
  /\ resetting[d] /\ step[d] = "status" => keys[d].state = "resetting"

OfferStep(d) ==
  /\ accepted \subseteq accepted' /\ NoIdentity \notin accepted'
  /\ bundle' = NoBundle \/ bundle'.identity \in accepted'
  /\ bundle'.spk.by = bundle'.identity
  /\ \/ bundle'.identity = bundle.identity /\ bundle'.spk = bundle.spk
     \/ step[d] = "reply" /\ bundle'.identity = keys[d].identity
  /\ used' = used

SignedShape(d) ==
  /\ SignedStep(d) /\ OfferStep(d)
  /\ step'[d] = "reply" /\ request'[d].event # "add" => request'[d].spk = keys'[d].spk
  /\ clock' = clock
  /\ \/ lost' = lost /\ late' = late
     \/ /\ lost' = lost + 1 /\ late' \in {late, late \cup {request[d]}}
        /\ late' # late => step[d] = "reply"
  /\ \A e \in Devices \ {d} : resetting'[e] = resetting[e]
  /\ OfferInv(d)' /\ ReadyInv(d)'

\* A device that sends waits for the reply, and is resetting as before.
LEMMA SendSigned ==
  ASSUME DeviceOK, NEW d \in Devices, NEW k, NEW r, Send(d, k, r)
  PROVE  keys'[d] = k /\ request'[d] = r /\ step'[d] = "reply" /\ resetting' = resetting
  BY DEF DeviceOK, Send

\* A device that ends its operation is resetting no longer.
LEMMA EndSigned ==
  ASSUME DeviceOK, NEW d \in Devices, End(d)
  PROVE  /\ step'[d] = "idle" /\ ~resetting'[d]
         /\ \A e \in Devices \ {d} : resetting'[e] = resetting[e]
  BY DEF DeviceOK, End

\* What is published is made for it.
LEMMA PublishSigned ==
  ASSUME DeviceOK, ServerOK, clock \in Nat, NEW d \in Devices, NEW event \in Replies,
         NEW k \in KeyStores, PublishBundle(d, event, k)
  PROVE  /\ Keeps(k, keys'[d]) /\ Holds(keys'[d], keys'[d].spk)
         /\ keys'[d].state = k.state /\ keys'[d].created <= clock
         /\ step'[d] = "reply" /\ request'[d].spk = keys'[d].spk
         /\ resetting' = resetting
<1> DEFINE l == WithSignedPreKey(k)
           full == WithOneTimePreKeys(l, OpkTarget, bundle.max)
           r == [event |-> event, identity |-> k.identity, spk |-> full.spk,
                 after |-> full.opkCounter - OpkTarget, last |-> full.opkCounter]
<1>1. l \in KeyStores /\ Keeps(k, l) /\ Holds(l, l.spk) /\ l.state = k.state /\ l.created = clock
  BY SignedPreKeyFacts, RotationKeeps
<1>2. Send(d, full, r)
  BY DEF PublishBundle
<1> HIDE DEF l
<1>3. SameSigned(l, full) /\ full.state = k.state
  BY <1>1, OthersSame
<1> HIDE DEF full
<1>4. r.spk = full.spk
  OBVIOUS
<1> HIDE DEF r
<1>5. keys'[d] = full /\ request'[d] = r /\ step'[d] = "reply" /\ resetting' = resetting
  BY <1>2, SendSigned
<1>6. Keeps(k, full)
  BY <1>1, <1>3, KeepsThrough
<1>7. Holds(full, full.spk) /\ full.created <= clock
  BY <1>1, <1>3 DEF SameSigned, Holds
<1> QED
  BY <1>3, <1>4, <1>5, <1>6, <1>7

\* Pruning and a request for more one-time prekeys leave the current key.
LEMMA TopUpSigned ==
  ASSUME DeviceOK, clock \in Nat, NEW d \in Devices, keys[d].created <= clock, NEW st,
         PruneAndTopUp(d, st)
  PROVE  /\ Keeps(keys[d], keys'[d])
         /\ keys'[d].spk = keys[d].spk /\ keys'[d].created = keys[d].created
         /\ keys'[d].state \in {keys[d].state, "ready"}
         /\ \/ step'[d] = "idle" /\ ~resetting'[d]
            \/ step'[d] = "reply" /\ request'[d].event = "add"
         /\ \A e \in Devices \ {d} : resetting'[e] = resetting[e]
<1> DEFINE k == Pruned(keys[d])
<1>1. keys[d] \in KeyStores
  BY DEF DeviceOK
<1>2. /\ k \in KeyStores /\ Keeps(keys[d], k)
      /\ k.spk = keys[d].spk /\ k.created = keys[d].created /\ k.state = keys[d].state
  BY <1>1, PrunedFacts, PruningKeeps
<1>3. ASSUME SameSigned(k, keys'[d])
      PROVE  /\ Keeps(keys[d], keys'[d])
             /\ keys'[d].spk = keys[d].spk /\ keys'[d].created = keys[d].created
  <2>1. Keeps(keys[d], keys'[d])
    BY <1>2, <1>3, KeepsThrough
  <2> QED
    BY <1>2, <1>3, <2>1 DEF SameSigned
<1>4. CASE Finish(d, k, "ready")
  <2>1. End(d) /\ keys'[d] = [k EXCEPT !.state = "ready"]
    BY <1>4 DEF Finish, DeviceOK
  <2>2. SameSigned(k, keys'[d]) /\ keys'[d].state = "ready"
    <3> HIDE DEF k
    <3> QED
      BY <1>2, <2>1, OthersSame
  <2> QED
    BY <1>3, <2>1, <2>2, EndSigned
<1>5. CASE ~Finish(d, k, "ready")
  <2> DEFINE count == OpkTarget - st.count
             full == WithOneTimePreKeys(k, count, st.max)
             r == [event |-> "add", identity |-> k.identity, spk |-> 0,
                   after |-> full.opkCounter - count, last |-> full.opkCounter]
  <2>1. Send(d, full, r)
    BY <1>5 DEF PruneAndTopUp
  <2> HIDE DEF k
  <2>2. SameSigned(k, full) /\ full.state = k.state
    BY <1>2, OthersSame
  <2> HIDE DEF full, count
  <2>3. r.event = "add"
    OBVIOUS
  <2> HIDE DEF r
  <2>4. keys'[d] = full /\ request'[d] = r /\ step'[d] = "reply" /\ resetting' = resetting
    BY <2>1, SendSigned
  <2> QED
    BY <1>2, <1>3, <2>2, <2>3, <2>4
<1> QED
  BY <1>4, <1>5

-----------------------------------------------------------------------------
(* Every step of a device has that shape                                   *)

\* Nothing changes on the server.
LEMMA OfferStays ==
  ASSUME AcceptedInv, OwnInv, UNCHANGED server, NEW d \in Devices
  PROVE  OfferStep(d)
  BY DEF OfferStep, AcceptedInv, OwnInv, server

\* The start of an operation has the shape.
LEMMA StartSigned ==
  ASSUME TypeInv, KeyInv, SignedInv, NEW d \in Devices, EnsureKeys(d) \/ ResetOwnIdentity(d)
  PROVE  SignedShape(d)
<1>1. Start(d)
  BY DEF EnsureKeys, ResetOwnIdentity
<1>2. /\ step[d] = "idle" /\ step'[d] = "status"
      /\ UNCHANGED <<server, status, request, lastIdentity, late, clock, lost, wipes>>
  BY <1>1 DEF Start, TypeInv, DeviceOK
<1>3. keys[d] \in KeyStores /\ keys[d].created <= clock
  BY DEF TypeInv, DeviceOK, SignedInv, OwnInv
<1>4. /\ SameSigned(keys[d], keys'[d])
      /\ \A e \in Devices \ {d} : resetting'[e] = resetting[e]
      /\ \/ keys'[d].state = "resetting"
         \/ keys'[d].state = keys[d].state /\ resetting'[d] = resetting[d]
  <2>1. CASE EnsureKeys(d)
    BY <2>1 DEF EnsureKeys, SameSigned
  <2>2. CASE ResetOwnIdentity(d)
    <3>1. keys'[d] = [keys[d] EXCEPT !.state = "resetting"]
      BY <2>2 DEF ResetOwnIdentity, TypeInv, DeviceOK
    <3> QED
      BY <1>3, <2>2, <3>1, OthersSame DEF ResetOwnIdentity, TypeInv, DeviceOK
  <2> QED
    BY <2>1, <2>2
<1>5. OfferStep(d)
  BY <1>2, OfferStays DEF SignedInv
<1>6. SignedStep(d)
  BY <1>2, <1>3, <1>4, SameKeeps DEF SignedStep
<1>7. OfferInv(d)'
  <2>1. bundle' = bundle /\ lost' = lost /\ OfferInv(d)
    BY <1>2 DEF server, SignedInv
  <2> QED
    BY <1>2, <1>4, <2>1
       DEF OfferInv, OfferedExactly, OfferedLately, Published, Rotating, Publishing, SameSigned,
           Holds, HoldsSince
<1>8. ReadyInv(d)'
  <2>1. keys'[d].identity = keys[d].identity /\ accepted' = accepted /\ ~resetting[d]
    BY <1>2, <1>4 DEF SameSigned, server, SignedInv, AcceptedInv
  <2> QED
    BY <1>2, <1>4, <2>1 DEF ReadyInv, SignedInv, AcceptedInv
<1> QED
  BY <1>2, <1>4, <1>5, <1>6, <1>7, <1>8 DEF SignedShape

\* The branches of ensureKeys and resetIdentity.
LEMMA StatusSigned ==
  ASSUME TypeInv, KeyInv, SignedInv, NEW d \in Devices, Status(d)
  PROVE  SignedShape(d)
<1>1. /\ keys[d] \in KeyStores /\ keys[d].created <= clock /\ keys[d].created \in Nat
      /\ clock \in Nat /\ DeviceOK /\ ServerOK /\ lastIdentity \in Nat /\ bundle.identity \in Nat
  BY DEF TypeInv, DeviceOK, ServerOK, BoundsOK, SignedInv, OwnInv, KeyStores, Bundles
<1>2. /\ UNCHANGED <<server, late, bounds>> /\ step[d] = "status"
      /\ bundle' = bundle /\ lost' = lost /\ clock' = clock /\ accepted' = accepted
  BY DEF Status, server, bounds
<1>3. OfferStep(d)
  BY <1>2, OfferStays DEF SignedInv
<1>4. OfferInv(d) /\ ReadyInv(d) /\ AcceptedInv
  BY DEF SignedInv, AcceptedInv, ReadyInv
<1> DEFINE Result == /\ SignedStep(d)
                     /\ step'[d] = "reply" /\ request'[d].event # "add"
                          => request'[d].spk = keys'[d].spk
                     /\ \A e \in Devices \ {d} : resetting'[e] = resetting[e]
                     /\ OfferInv(d)' /\ ReadyInv(d)'
<1>5. ASSUME NEW event \in Replies, PublishNewIdentity(d, event),
             event = "reset" => resetting[d], event = "publish" => keys[d].identity = NoIdentity
      PROVE  Result
  <2> DEFINE spks == IF event = "reset" THEN {} ELSE keys[d].spks
             k == [keys[d] EXCEPT !.identity = lastIdentity + 1, !.opks = {}, !.spks = spks]
  <2>1. PublishBundle(d, event, k) /\ lastIdentity' = lastIdentity + 1
    BY <1>5 DEF PublishNewIdentity
  <2>2. spks \subseteq [id : Nat, retired : Nat \cup {Never}]
    BY <1>1 DEF KeyStores
  <2> HIDE DEF spks
  <2>3. k \in KeyStores
    <3>1. lastIdentity + 1 \in Nat /\ keys[d] \in KeyStores
      BY <1>1
    <3> QED
      BY <2>2, <3>1 DEF KeyStores
  <2>4. k.identity = lastIdentity + 1 /\ k.state = keys[d].state
    BY <1>1 DEF KeyStores
  <2> HIDE DEF k
  <2>5. /\ Keeps(k, keys'[d]) /\ Holds(keys'[d], keys'[d].spk)
        /\ keys'[d].state = k.state /\ keys'[d].created <= clock
        /\ step'[d] = "reply" /\ request'[d].spk = keys'[d].spk
        /\ resetting' = resetting
    BY <1>1, <2>1, <2>3, PublishSigned
  <2>6. keys'[d].identity = lastIdentity + 1
    BY <2>4, <2>5 DEF Keeps
  <2>7. SignedStep(d)
    BY <2>1, <2>5, <2>6 DEF SignedStep
  <2>8. OfferInv(d)'
    <3>1. bundle'.identity # keys'[d].identity
      BY <1>1, <1>2, <2>6 DEF KeyInv, IdentityInv
    <3> QED
      BY <3>1 DEF OfferInv, Published
  <2>9. keys'[d].state # "ready"
    BY <1>2, <1>4, <1>5, <2>4, <2>5 DEF ReadyInv, AcceptedInv, Replies
  <2>10. ReadyInv(d)'
    BY <2>5, <2>9 DEF ReadyInv
  <2> QED
    BY <2>5, <2>7, <2>8, <2>10
<1>6. ASSUME NEW s \in {"needs_reset", "superseded"}, Finish(d, keys[d], s),
             lastIdentity' = lastIdentity
      PROVE  Result
  <2>1. End(d) /\ keys'[d] = [keys[d] EXCEPT !.state = s]
    BY <1>1, <1>6 DEF Finish, DeviceOK
  <2>2. SameSigned(keys[d], keys'[d]) /\ keys'[d].state = s
    BY <1>1, <2>1, OthersSame
  <2>3. /\ step'[d] = "idle" /\ ~resetting'[d]
        /\ \A e \in Devices \ {d} : resetting'[e] = resetting[e]
    BY <1>1, <2>1, EndSigned
  <2>4. SignedStep(d)
    BY <1>1, <1>6, <2>2, SameKeeps DEF SignedStep
  <2>5. OfferInv(d)'
    BY <1>2, <1>4, <2>2, <2>3
       DEF OfferInv, OfferedExactly, OfferedLately, Published, Rotating, Publishing, SameSigned,
           Holds, HoldsSince
  <2>6. ReadyInv(d)'
    BY <2>2, <2>3 DEF ReadyInv
  <2> QED
    BY <2>3, <2>4, <2>5, <2>6
<1>7. ASSUME keys[d].identity # NoIdentity, bundle = NoBundle, ~resetting[d],
             PublishBundle(d, "publish", keys[d]), lastIdentity' = lastIdentity
      PROVE  Result
  <2>1. /\ Keeps(keys[d], keys'[d]) /\ keys'[d].state = keys[d].state
        /\ step'[d] = "reply" /\ request'[d].spk = keys'[d].spk
        /\ resetting' = resetting
    BY <1>1, <1>7, PublishSigned DEF Replies
  <2>2. keys'[d].identity = keys[d].identity
    BY <2>1 DEF Keeps
  <2>3. OfferInv(d)'
    <3>1. bundle'.identity = NoIdentity
      BY <1>2, <1>7 DEF NoBundle
    <3> QED
      BY <3>1 DEF OfferInv, Published
  <2>4. ReadyInv(d)'
    BY <1>2, <1>4, <1>7, <2>1, <2>2 DEF ReadyInv
  <2> QED
    BY <1>7, <2>1, <2>3, <2>4 DEF SignedStep
<1>8. ASSUME keys[d].identity # NoIdentity, bundle.identity = keys[d].identity, ~resetting[d],
             MaintainKeys(d), lastIdentity' = lastIdentity
      PROVE  Result
  <2>1. Published(d) /\ ~Rotating(d) /\ keys[d].identity \in accepted
    <3>1. bundle # NoBundle
      BY <1>8 DEF NoBundle
    <3> QED
      BY <1>2, <1>4, <1>8, <3>1 DEF Published, Rotating, AcceptedInv
  <2>2. /\ lost = 0 => bundle.spk.id = keys[d].spk
        /\ lost = 1 /\ RotatesInTime => HoldsSince(keys[d], bundle.spk.id, keys[d].created)
    BY <1>4, <2>1 DEF OfferInv, OfferedExactly, OfferedLately
  <2>3. Holds(keys[d], keys[d].spk)
    BY <1>8 DEF SignedInv, OwnInv
  <2>4. bundle.spk.id \in Nat
    BY <1>1 DEF ServerOK, Bundles, AnyKey
  <2>5. CASE ~RotationDue(keys[d]) /\ PruneAndTopUp(d, StatusOf(bundle))
    <3>1. /\ Keeps(keys[d], keys'[d])
          /\ keys'[d].spk = keys[d].spk /\ keys'[d].created = keys[d].created
          /\ keys'[d].state \in {keys[d].state, "ready"}
          /\ \/ step'[d] = "idle" /\ ~resetting'[d]
             \/ step'[d] = "reply" /\ request'[d].event = "add"
          /\ \A e \in Devices \ {d} : resetting'[e] = resetting[e]
      BY <1>1, <2>5, TopUpSigned
    <3>2. keys'[d].identity = keys[d].identity
      BY <3>1 DEF Keeps
    <3>3. ~Rotating(d)' /\ ~Publishing(d)'
      BY <3>1 DEF Rotating, Publishing, Replies
    <3>4. lost = 1 /\ RotatesInTime => HoldsSince(keys'[d], bundle.spk.id, keys[d].created)
      <4>1. RotatesInTime => clock - keys[d].created <= MaxAge + Day
        BY <1>1, <2>5, ConstantsAssumption DEF RotatesInTime, RotationDue
      <4> QED
        BY <1>1, <2>2, <2>4, <3>1, <4>1 DEF Keeps
    <3>5. OfferInv(d)'
      BY <1>2, <2>2, <3>1, <3>3, <3>4, HoldsWeakens
         DEF OfferInv, OfferedExactly, OfferedLately, RotatesInTime, Holds, HoldsSince
    <3>6. ReadyInv(d)'
      BY <1>2, <2>1, <3>1, <3>2 DEF ReadyInv
    <3> QED
      BY <1>8, <3>1, <3>5, <3>6 DEF SignedStep
  <2>6. CASE ~(~RotationDue(keys[d]) /\ PruneAndTopUp(d, StatusOf(bundle)))
    <3> DEFINE k == WithSignedPreKey(keys[d])
               r == [event |-> "rotate", identity |-> k.identity, spk |-> k.spk,
                     after |-> 0, last |-> 0]
    <3>1. Send(d, k, r)
      BY <1>8, <2>6 DEF MaintainKeys
    <3>2. /\ Keeps(keys[d], k) /\ k.created = clock /\ Holds(k, k.spk) /\ k.state = keys[d].state
          /\ \A n : Holds(keys[d], n) => Holds(k, n)
      BY <1>1, RotationKeeps
    <3> HIDE DEF k
    <3>3. r.event = "rotate" /\ r.spk = k.spk
      OBVIOUS
    <3> HIDE DEF r
    <3>4. keys'[d] = k /\ request'[d] = r /\ step'[d] = "reply" /\ resetting' = resetting
      BY <1>1, <3>1, SendSigned
    <3>5. Rotating(d)' /\ ~Publishing(d)' /\ k.identity = keys[d].identity
      BY <3>2, <3>3, <3>4 DEF Rotating, Publishing, Replies, Keeps
    <3>6. lost = 0 => HoldsSince(k, bundle.spk.id, clock)
      <4>1. HoldsSince(keys[d], keys[d].spk, clock)
        BY <2>3, HoldsWeakens
      <4>2. clock <= clock /\ clock - clock <= MaxAge + Day
        BY <1>1, ConstantsAssumption
      <4> QED
        BY <1>1, <2>2, <2>4, <3>2, <4>1, <4>2 DEF Keeps
    <3>7. lost = 1 /\ RotatesInTime => Holds(k, bundle.spk.id)
      BY <2>2, <3>2, HoldsWeakens
    <3>8. OfferInv(d)'
      BY <1>2, <3>4, <3>5, <3>6, <3>7
         DEF OfferInv, OfferedExactly, OfferedLately, RotatesInTime, Holds, HoldsSince
    <3>9. ReadyInv(d)'
      BY <1>2, <1>4, <1>8, <3>2, <3>4, <3>5 DEF ReadyInv
    <3> QED
      BY <1>8, <3>2, <3>3, <3>4, <3>8, <3>9 DEF SignedStep
  <2> QED
    BY <2>5, <2>6
<1>9. Result
  <2> HIDE DEF Result
  <2> QED
    BY <1>5, <1>6, <1>7, <1>8 DEF Status, Replies
<1> QED
  BY <1>2, <1>3, <1>9 DEF SignedShape

\* When the server has handled the request of a device whose identity is on offer, it
\* offers what that device sent last, or what it offered before; in this case the device
\* sent no rotation.
LEMMA HandledOwn ==
  ASSUME TypeInv, KeyInv, SignedInv, NEW d \in Devices, step[d] = "reply",
         NEW ok \in BOOLEAN, Handle(request[d], ok)
  PROVE  /\ OfferStep(d)
         /\ ok => keys[d].identity \in accepted'
         /\ ok /\ request[d].event = "rotate" => bundle'.spk.id = keys[d].spk
         /\ bundle'.identity = keys[d].identity =>
              /\ lost = 0 => bundle'.spk.id = keys[d].spk
              /\ lost = 1 /\ RotatesInTime
                   => HoldsSince(keys[d], bundle'.spk.id, keys[d].created)
<1> DEFINE r == request[d]
<1>1. /\ r \in Requests /\ r.identity = keys[d].identity /\ r.identity # NoIdentity
      /\ ServerOK /\ AcceptedInv /\ bundle.spk.by = bundle.identity
  BY DEF TypeInv, DeviceOK, KeyInv, HeldInv, SignedInv, OwnInv
<1>2. /\ r.event # "add" => r.spk = keys[d].spk
      /\ HoldsSince(keys[d], keys[d].spk, keys[d].created)
  BY <1>1, HoldsWeakens DEF SignedInv, OwnInv
<1> HIDE DEF r
<1>3. /\ accepted \subseteq accepted' /\ NoIdentity \notin accepted'
      /\ bundle' = NoBundle \/ bundle'.identity \in accepted'
      /\ bundle'.spk.by = bundle'.identity
      /\ used' = used
      /\ ok => r.identity \in accepted'
      /\ \/ /\ bundle'.identity = bundle.identity /\ bundle'.spk = bundle.spk
            /\ r.event = "rotate" => ~ok /\ bundle'.identity # r.identity
         \/ /\ bundle'.identity = r.identity /\ bundle'.spk = Key(r.identity, r.spk)
            /\ r.event # "add"
  BY <1>1, HandleSigned DEF r
<1>4. OfferStep(d)
  BY <1>1, <1>3 DEF OfferStep
<1>5. CASE bundle'.spk = Key(r.identity, r.spk) /\ r.event # "add"
  <2>1. bundle'.spk.id = keys[d].spk
    BY <1>2, <1>5 DEF Key
  <2> QED
    BY <1>1, <1>2, <1>3, <1>4, <2>1
<1>6. CASE /\ bundle'.identity = bundle.identity /\ bundle'.spk = bundle.spk
           /\ r.event = "rotate" => ~ok /\ bundle'.identity # r.identity
  <2> SUFFICES ASSUME bundle'.identity = keys[d].identity
               PROVE  /\ lost = 0 => bundle'.spk.id = keys[d].spk
                      /\ lost = 1 /\ RotatesInTime
                           => HoldsSince(keys[d], bundle'.spk.id, keys[d].created)
    BY <1>1, <1>3, <1>4, <1>6 DEF r
  <2>1. Published(d) /\ ~Rotating(d)
    BY <1>1, <1>6 DEF Published, Rotating, r
  <2> QED
    BY <1>6, <2>1 DEF SignedInv, OfferInv, OfferedExactly, OfferedLately
<1> QED
  BY <1>3, <1>5, <1>6

\* The reply: an error leaves the keys, a rotation goes on, the rest makes the device ready.
LEMMA ServeSigned ==
  ASSUME TypeInv, KeyInv, SignedInv, NEW d \in Devices, Serve(d)
  PROVE  SignedShape(d)
<1>1. PICK ok \in BOOLEAN : Handle(request[d], ok) /\ Reply(d, ok)
  BY DEF Serve
<1>2. /\ step[d] = "reply" /\ keys[d].identity # NoIdentity
      /\ UNCHANGED <<late, lastIdentity, bounds>> /\ lost' = lost /\ clock' = clock
  BY DEF Serve, KeyInv, HeldInv, bounds
<1>3. /\ keys[d] \in KeyStores /\ keys[d].created <= clock /\ clock \in Nat /\ DeviceOK
      /\ Holds(keys[d], keys[d].spk) /\ ReadyInv(d)
  BY <1>2 DEF TypeInv, DeviceOK, BoundsOK, SignedInv, OwnInv, AcceptedInv, ReadyInv
<1>4. /\ OfferStep(d)
      /\ ok => keys[d].identity \in accepted'
      /\ ok /\ request[d].event = "rotate" => bundle'.spk.id = keys[d].spk
      /\ bundle'.identity = keys[d].identity =>
           /\ lost = 0 => bundle'.spk.id = keys[d].spk
           /\ lost = 1 /\ RotatesInTime
                => HoldsSince(keys[d], bundle'.spk.id, keys[d].created)
  BY <1>1, <1>2, HandledOwn
<1>5. accepted \subseteq accepted'
  BY <1>4 DEF OfferStep
<1> DEFINE Result == /\ SignedStep(d)
                     /\ step'[d] = "reply" => request'[d].event = "add"
                     /\ \A e \in Devices \ {d} : resetting'[e] = resetting[e]
                     /\ OfferInv(d)' /\ ReadyInv(d)'
<1>6. ASSUME SameSigned(keys[d], keys'[d]), End(d),
             keys'[d].state = "ready" => keys'[d].identity \in accepted'
      PROVE  Result
  <2>1. /\ step'[d] = "idle" /\ ~resetting'[d]
        /\ \A e \in Devices \ {d} : resetting'[e] = resetting[e]
    BY <1>3, <1>6, EndSigned
  <2>2. SignedStep(d)
    BY <1>2, <1>3, <1>6, SameKeeps DEF SignedStep
  <2>3. OfferInv(d)'
    BY <1>2, <1>4, <1>6, <2>1, HoldsWeakens
       DEF OfferInv, OfferedExactly, OfferedLately, Published, Rotating, Publishing, SameSigned,
           Holds, HoldsSince, RotatesInTime
  <2>4. ReadyInv(d)'
    BY <1>6, <2>1 DEF ReadyInv
  <2> QED
    BY <2>1, <2>2, <2>3, <2>4
<1>7. ASSUME End(d), UNCHANGED keys PROVE Result
  <2>1. SameSigned(keys[d], keys'[d])
    BY <1>7 DEF SameSigned
  <2>2. keys'[d].state = "ready" => keys'[d].identity \in accepted'
    BY <1>3, <1>5, <1>7 DEF ReadyInv
  <2> QED
    BY <1>6, <1>7, <2>1, <2>2
<1>8. ASSUME ok, Finish(d, keys[d], "ready") PROVE Result
  <2>1. End(d) /\ keys'[d] = [keys[d] EXCEPT !.state = "ready"]
    BY <1>3, <1>8 DEF Finish, DeviceOK
  <2>2. SameSigned(keys[d], keys'[d])
    BY <1>3, <2>1, OthersSame
  <2>3. keys'[d].identity \in accepted'
    BY <1>4, <1>8, <2>2 DEF SameSigned
  <2> QED
    BY <1>6, <2>1, <2>2, <2>3
<1>9. ASSUME ok, request[d].event = "rotate", PruneAndTopUp(d, status[d]) PROVE Result
  <2>1. /\ Keeps(keys[d], keys'[d])
        /\ keys'[d].spk = keys[d].spk /\ keys'[d].created = keys[d].created
        /\ keys'[d].state \in {keys[d].state, "ready"}
        /\ \/ step'[d] = "idle" /\ ~resetting'[d]
           \/ step'[d] = "reply" /\ request'[d].event = "add"
        /\ \A e \in Devices \ {d} : resetting'[e] = resetting[e]
    BY <1>3, <1>9, TopUpSigned
  <2>2. keys'[d].identity = keys[d].identity /\ Holds(keys'[d], keys'[d].spk)
    BY <1>3, <2>1 DEF Keeps
  <2>3. ~Rotating(d)' /\ ~Publishing(d)'
    BY <2>1 DEF Rotating, Publishing, Replies
  <2>4. bundle'.spk.id = keys'[d].spk /\ HoldsSince(keys'[d], bundle'.spk.id, keys'[d].created)
    BY <1>4, <1>9, <2>1, <2>2, HoldsWeakens
  <2>5. OfferInv(d)'
    BY <1>2, <2>2, <2>3, <2>4
       DEF OfferInv, OfferedExactly, OfferedLately, Holds, HoldsSince
  <2>6. ReadyInv(d)'
    BY <1>4, <1>9, <2>1, <2>2 DEF ReadyInv
  <2> QED
    BY <1>2, <2>1, <2>5, <2>6 DEF SignedStep
<1>10. Result
  <2> HIDE DEF Result
  <2> QED
    BY <1>1, <1>7, <1>8, <1>9 DEF Reply
<1> QED
  BY <1>2, <1>4, <1>10 DEF SignedShape

\* A loss is the first one, or nothing is said any more.
LEMMA LostSigned ==
  ASSUME TypeInv, KeyInv, SignedInv, NEW d \in Devices,
         LoseRequest(d) \/ LoseReply(d) \/ Delay(d)
  PROVE  SignedShape(d)
<1>1. GiveUp(d)
  BY DEF LoseRequest, LoseReply, Delay
<1>2. /\ End(d) /\ lost' = lost + 1 /\ clock' = clock /\ lastIdentity' = lastIdentity
      /\ keys' = keys /\ lost \in Nat /\ clock \in Nat
  BY <1>1 DEF GiveUp, TypeInv, BoundsOK
<1>3. /\ keys[d] \in KeyStores /\ keys[d].created <= clock /\ keys[d].created \in Nat /\ DeviceOK
      /\ ReadyInv(d) /\ AcceptedInv /\ OwnInv
      /\ keys[d].identity # NoIdentity => Holds(keys[d], keys[d].spk)
  BY DEF TypeInv, DeviceOK, BoundsOK, SignedInv, OwnInv, AcceptedInv, ReadyInv, KeyStores
<1>4. /\ step'[d] = "idle" /\ ~resetting'[d]
      /\ \A e \in Devices \ {d} : resetting'[e] = resetting[e]
  BY <1>2, <1>3, EndSigned
<1>5. SignedStep(d)
  <2>1. SameSigned(keys[d], keys'[d])
    BY <1>2 DEF SameSigned
  <2> QED
    BY <1>2, <1>3, <2>1, SameKeeps DEF SignedStep
<1>6. /\ OfferStep(d)
      /\ Published(d)' /\ lost = 0 => HoldsSince(keys[d], bundle'.spk.id, keys[d].created)
      /\ late' \in {late, late \cup {request[d]}} /\ (late' # late => step[d] = "reply")
  <2>1. CASE LoseReply(d)
    <3>1. PICK ok \in BOOLEAN : Handle(request[d], ok)
      BY <2>1 DEF LoseReply
    <3>2. step[d] = "reply" /\ late' = late
      BY <2>1 DEF LoseReply
    <3>3. /\ OfferStep(d)
          /\ bundle'.identity = keys[d].identity /\ lost = 0 => bundle'.spk.id = keys[d].spk
      BY <3>1, <3>2, HandledOwn
    <3> QED
      BY <1>2, <1>3, <3>2, <3>3, HoldsWeakens DEF Published
  <2>2. CASE LoseRequest(d) \/ Delay(d)
    <3>1. UNCHANGED server /\ late' \in {late, late \cup {request[d]}}
          /\ (late' # late => step[d] = "reply")
      BY <2>2 DEF LoseRequest, Delay
    <3>2. OfferStep(d)
      BY <1>3, <3>1, OfferStays
    <3>3. bundle' = bundle
      BY <3>1 DEF server
    <3>4. ASSUME Published(d), lost = 0 PROVE HoldsSince(keys[d], bundle.spk.id, keys[d].created)
      <4>1. OfferedExactly(d) /\ Holds(keys[d], keys[d].spk)
        BY <1>3, <3>4 DEF SignedInv, OfferInv, Published
      <4>2. CASE Rotating(d)
        BY <1>2, <1>3, <4>1, <4>2, HoldsEarlier DEF OfferedExactly
      <4>3. CASE ~Rotating(d)
        BY <4>1, <4>3, HoldsWeakens DEF OfferedExactly
      <4> QED
        BY <4>2, <4>3
    <3> QED
      BY <1>2, <3>1, <3>2, <3>3, <3>4 DEF Published
  <2> QED
    BY <2>1, <2>2
<1>7. OfferInv(d)'
  <2>1. ~Rotating(d)'
    BY <1>4 DEF Rotating
  <2>2. lost' = 1 => lost = 0
    BY <1>2
  <2>3. lost' # 0
    BY <1>2
  <2>4. ASSUME Published(d)', lost' = 1 PROVE OfferedLately(d)'
    BY <1>2, <1>6, <2>1, <2>2, <2>4, HoldsWeakens DEF OfferedLately, Holds, HoldsSince
  <2> QED
    BY <2>3, <2>4 DEF OfferInv
<1>8. ReadyInv(d)'
  BY <1>2, <1>3, <1>4, <1>6 DEF ReadyInv, OfferStep
<1> QED
  BY <1>2, <1>4, <1>5, <1>6, <1>7, <1>8 DEF SignedShape

\* Every step of a device has it.
LEMMA OperateSigned ==
  ASSUME TypeInv, KeyInv, SignedInv, NEW d \in Devices, Operate(d)
  PROVE  SignedShape(d)
  BY StartSigned, StatusSigned, ServeSigned, LostSigned DEF Operate

-----------------------------------------------------------------------------
(* The shape keeps the invariant                                           *)

\* What the parts below use.
LEMMA SignedTypes ==
  ASSUME TypeInv
  PROVE  /\ clock \in Nat /\ lost \in Nat /\ lastIdentity \in Nat
         /\ bundle.identity \in Nat /\ bundle.spk \in AnyKey /\ bundle.spk.id \in Nat
         /\ \A e \in Devices : /\ keys[e] \in KeyStores /\ keys[e].identity \in Nat
                               /\ keys[e].created \in Nat /\ keys[e].spk \in Nat
         /\ \A r \in late : r.spk \in Nat /\ r.identity \in Nat
         /\ \A u \in used : u.key \in AnyKey /\ u.key.id \in Nat /\ u.at \in Nat
         /\ MaxAge \in Nat /\ Day \in Nat
  BY ConstantsAssumption
     DEF TypeInv, BoundsOK, ServerOK, Bundles, AnyKey, DeviceOK, KeyStores, LateOK, Requests

\* An identity that was used before is not new.
LEMMA UsedBefore ==
  ASSUME TypeInv, KeyInv, NEW d \in Devices, Shape(d), SignedShape(d),
         NEW i, i \in 1 .. lastIdentity, i = keys'[d].identity
  PROVE  Keeps(keys[d], keys'[d]) /\ keys'[d].identity = keys[d].identity
  BY SignedTypes DEF SignedShape, SignedStep, Keeps

\* A device is made ready only by a server that accepted its identity.
LEMMA AcceptedKept ==
  ASSUME SignedInv, NEW d \in Devices, OthersKept(d), SignedShape(d)
  PROVE  AcceptedInv'
<1>1. OfferStep(d) /\ ReadyInv(d)' /\ AcceptedInv
  BY DEF SignedShape, SignedInv
<1>2. ASSUME NEW e \in Devices, e # d PROVE ReadyInv(e)'
  BY <1>1, <1>2 DEF ReadyInv, AcceptedInv, OfferStep, OthersKept, SignedShape
<1> QED
  BY <1>1, <1>2 DEF ReadyInv, AcceptedInv, OfferStep

\* A device keeps the key it made last, and those of its late requests of the day.
LEMMA OwnKept ==
  ASSUME TypeInv, TypeInv', KeyInv, SignedInv, NEW d \in Devices, Shape(d), SignedShape(d)
  PROVE  OwnInv'
<1>1. /\ OthersKept(d) /\ SignedStep(d) /\ OfferStep(d) /\ OwnInv /\ clock' = clock
  BY DEF Shape, DeviceStep, SignedShape, SignedInv
<1>2. bundle'.spk.by = bundle'.identity
  BY <1>1 DEF OfferStep
<1>3. ASSUME NEW e \in Devices
      PROVE  /\ keys'[e].created <= clock'
             /\ keys'[e].identity # NoIdentity => Holds(keys'[e], keys'[e].spk)
             /\ step'[e] = "reply" /\ request'[e].event # "add" => request'[e].spk = keys'[e].spk
  <2>1. CASE e = d
    BY <1>1, <2>1 DEF SignedStep, Keeps, OwnInv, SignedShape
  <2>2. CASE e # d
    BY <1>1, <2>2 DEF OthersKept, OwnInv
  <2> QED
    BY <2>1, <2>2
<1>4. ASSUME NEW e \in Devices, NEW r \in late',
             r.identity = keys'[e].identity, r.event # "add"
      PROVE  HoldsSince(keys'[e], r.spk, clock')
  <2>1. \/ r \in late
        \/ r = request[d] /\ step[d] = "reply"
    BY <1>4 DEF SignedShape
  <2>2. step[d] = "reply" =>
          /\ request[d].identity = keys[d].identity /\ keys[d].identity # NoIdentity
          /\ request[d].event # "add" => request[d].spk = keys[d].spk
    BY <1>1 DEF KeyInv, HeldInv, OwnInv
  <2>3. r.identity \in 1 .. lastIdentity
    BY <2>1, <2>2, SignedTypes DEF KeyInv, IdentityInv, NoIdentity
  <2>4. r.spk \in Nat
    BY <1>4 DEF TypeInv, LateOK, Requests
  <2>5. CASE e = d
    <3>1. Keeps(keys[d], keys'[d]) /\ keys'[d].identity = keys[d].identity
      BY <1>4, <2>3, <2>5, UsedBefore
    <3>2. HoldsSince(keys[d], r.spk, clock)
      BY <1>1, <1>4, <2>1, <2>2, <2>5, <3>1, HoldsWeakens DEF OwnInv
    <3>3. clock <= clock /\ clock - clock <= MaxAge + Day /\ clock \in Nat
      BY SignedTypes
    <3> QED
      BY <1>1, <2>4, <2>5, <3>1, <3>2, <3>3 DEF Keeps
  <2>6. CASE e # d
    <3>1. keys'[e] = keys[e]
      BY <1>1, <2>6 DEF OthersKept
    <3>2. r \in late
      BY <1>4, <2>1, <2>2, <2>6, <3>1 DEF KeyInv, IdentityInv
    <3> QED
      BY <1>1, <1>4, <3>1, <3>2 DEF OwnInv
  <2> QED
    BY <2>5, <2>6
<1>5. late' # {} => lost' > 0
  BY SignedTypes DEF SignedShape, SignedInv, OwnInv
<1> QED
  BY <1>2, <1>3, <1>4, <1>5 DEF OwnInv, Holds, HoldsSince

\* Another device's identity is not what d's request brought.
LEMMA OfferKept ==
  ASSUME TypeInv, KeyInv, SignedInv, NEW d \in Devices, Shape(d), SignedShape(d),
         NEW e \in Devices
  PROVE  OfferInv(e)'
<1>1. CASE e = d
  BY <1>1 DEF SignedShape
<1>2. CASE e # d
  <2> SUFFICES ASSUME Published(e)'
               PROVE  /\ lost' = 0 => OfferedExactly(e)'
                      /\ lost' = 1 /\ RotatesInTime => OfferedLately(e)'
    BY DEF OfferInv, RotatesInTime
  <2>1. keys'[e] = keys[e] /\ step'[e] = step[e] /\ request'[e] = request[e]
    BY <1>2 DEF Shape, DeviceStep, OthersKept
  <2>2. bundle'.identity = bundle.identity /\ bundle'.spk = bundle.spk
    BY <1>2, <2>1 DEF SignedShape, OfferStep, Published, KeyInv, IdentityInv
  <2>3. Published(e)
    BY <2>1, <2>2 DEF Published
  <2>4. OfferInv(e) /\ OwnInv /\ Holds(keys[e], keys[e].spk)
    BY <2>3 DEF SignedInv, OwnInv, Published
  <2>5. lost \in Nat /\ lost' \in {lost, lost + 1}
    BY SignedTypes DEF SignedShape
  <2>6. CASE lost' = 0
    <3>1. lost = 0 /\ OfferedExactly(e)
      BY <2>3, <2>4, <2>5, <2>6 DEF OfferInv
    <3> QED
      BY <2>1, <2>2, <2>6, <3>1, SMT
         DEF OfferedExactly, Publishing, Rotating, HoldsSince, SignedShape
  <2>7. CASE lost' = 1 /\ RotatesInTime
    <3>1. OfferedLately(e)
      <4>1. CASE lost = 1
        BY <2>3, <2>4, <2>7, <4>1 DEF OfferInv
      <4>2. CASE lost = 0
        <5>1. OfferedExactly(e)
          BY <2>3, <2>4, <4>2 DEF OfferInv
        <5>2. keys[e].created <= clock
          BY <2>4 DEF OwnInv
        <5>3. CASE Rotating(e)
          BY <5>1, <5>3, HoldsWeakens DEF OfferedExactly, OfferedLately
        <5>4. CASE ~Rotating(e)
          BY <2>4, <5>1, <5>4, HoldsWeakens DEF OfferedExactly, OfferedLately
        <5> QED
          BY <5>3, <5>4
      <4> QED
        BY <2>5, <2>7, <4>1, <4>2
    <3>2. OfferedLately(e)'
      BY <2>1, <2>2, <3>1 DEF OfferedLately, Rotating, Holds, HoldsSince
    <3> QED
      BY <2>7, <3>2
  <2> QED
    BY <2>5, <2>6, <2>7
<1> QED
  BY <1>1, <1>2

\* A key that was handed out is kept for the lifetime of a conversation, or a request was
\* lost.
LEMMA UsedKept ==
  ASSUME TypeInv, TypeInv', KeyInv, SignedInv, NEW d \in Devices, Shape(d), SignedShape(d)
  PROVE  UsedInv'
<1>1. /\ OthersKept(d) /\ used' = used /\ clock' = clock /\ lost' \in {lost, lost + 1}
      /\ lastIdentity' \in {lastIdentity, lastIdentity + 1} /\ UsedInv
  BY DEF Shape, DeviceStep, SignedShape, SignedStep, OfferStep, SignedInv
<1> SUFFICES ASSUME NEW u \in used
             PROVE  /\ u.at <= clock /\ u.key.by \in 1 .. lastIdentity'
                    /\ \A e \in Devices :
                         lost' = 0 /\ u.key.by = keys'[e].identity /\ clock - u.at <= MaxAge
                           => HoldsSince(keys'[e], u.key.id, u.at)
  BY <1>1 DEF UsedInv, HoldsSince
<1>2. u.at <= clock /\ u.key.by \in 1 .. lastIdentity
  BY <1>1 DEF UsedInv
<1>3. ASSUME NEW e \in Devices, lost' = 0, u.key.by = keys'[e].identity, clock - u.at <= MaxAge
      PROVE  HoldsSince(keys'[e], u.key.id, u.at)
  <2>1. lost = 0
    BY <1>1, <1>3, SignedTypes
  <2>2. CASE e = d
    <3>1. Keeps(keys[d], keys'[d]) /\ keys'[d].identity = keys[d].identity
      BY <1>2, <1>3, <2>2, UsedBefore
    <3>2. HoldsSince(keys[d], u.key.id, u.at)
      BY <1>1, <1>3, <2>1, <2>2, <3>1 DEF UsedInv
    <3>3. clock - u.at <= MaxAge + Day
      BY <1>3, SignedTypes
    <3> QED
      BY <1>2, <2>2, <3>1, <3>2, <3>3, SignedTypes DEF Keeps
  <2>3. CASE e # d
    BY <1>1, <1>3, <2>1, <2>3 DEF UsedInv, OthersKept
  <2> QED
    BY <2>2, <2>3
<1> QED
  BY <1>1, <1>2, <1>3, SignedTypes

\* The shape keeps the invariant.
LEMMA SignedKept ==
  ASSUME TypeInv, TypeInv', KeyInv, SignedInv, NEW d \in Devices, Shape(d), SignedShape(d)
  PROVE  SignedInv'
<1>1. OthersKept(d)
  BY DEF Shape, DeviceStep
<1>2. \A e \in Devices : OfferInv(e)'
  BY OfferKept
<1> QED
  BY <1>1, <1>2, AcceptedKept, OwnKept, UsedKept DEF SignedInv

-----------------------------------------------------------------------------
(* Peers, lost bundles, late requests, time                                *)

\* When the devices and the bundle stay, so does what is known of them.
LEMMA DevicesStay ==
  ASSUME SignedInv, UNCHANGED <<device, lost>>, bundle'.spk.by = bundle'.identity,
         clock \in Nat, clock' \in Nat, clock <= clock', accepted \subseteq accepted',
         NoIdentity \notin accepted', bundle' = NoBundle \/ bundle'.identity \in accepted',
         late' \subseteq late, late' = {} \/ clock' = clock, TypeInv
  PROVE  AcceptedInv' /\ OwnInv'
<1>1. UNCHANGED <<keys, step, resetting, request>>
  BY DEF device
<1>2. AcceptedInv'
  BY <1>1 DEF SignedInv, AcceptedInv
<1>3. OwnInv'
  <2>1. \A d \in Devices : keys[d].created <= clock'
    BY SignedTypes DEF SignedInv, OwnInv
  <2>2. \A d \in Devices, r \in late' :
          r.identity = keys[d].identity /\ r.event # "add" => HoldsSince(keys[d], r.spk, clock')
    BY DEF SignedInv, OwnInv
  <2>3. late' # {} => lost > 0
    BY DEF SignedInv, OwnInv
  <2> QED
    BY <1>1, <2>1, <2>2, <2>3 DEF SignedInv, OwnInv, Holds, HoldsSince
<1> QED
  BY <1>2, <1>3

\* The offer is as it was, if the signed prekey, the devices and the losses are.
LEMMA OfferStaysToo ==
  ASSUME SignedInv, UNCHANGED <<device, lost>>,
         bundle'.identity = bundle.identity, bundle'.spk = bundle.spk,
         clock' = clock \/ \A d \in Devices : step[d] = "idle", NEW d \in Devices
  PROVE  OfferInv(d)'
<1>1. UNCHANGED <<keys, step, request>> /\ OfferInv(d)
  BY DEF device, SignedInv
<1> QED
  BY <1>1 DEF OfferInv, OfferedExactly, OfferedLately, Published, Rotating, Publishing,
              RotatesInTime, Holds, HoldsSince

\* A peer is handed the signed prekey on offer, which is current or was so today.
LEMMA FetchSigned ==
  ASSUME TypeInv, KeyInv, SignedInv, FetchBundle
  PROVE  SignedInv'
<1>1. /\ UNCHANGED <<accepted, device, late, bounds>> /\ UNCHANGED <<device, lost>>
      /\ bundle # NoBundle /\ clock' = clock /\ lost' = lost
      /\ keys' = keys /\ lastIdentity' = lastIdentity
      /\ used' = used \cup {[key |-> bundle.spk, at |-> clock]}
  BY DEF FetchBundle, device, bounds
<1>2. bundle'.identity = bundle.identity /\ bundle'.spk = bundle.spk
  <2>1. bundle' = bundle \/ \E k \in First(bundle.opks) : bundle' = [bundle EXCEPT !.opks = @ \ {k}]
    BY DEF FetchBundle
  <2> QED
    BY <2>1 DEF TypeInv, ServerOK, Bundles
<1>3. bundle.identity \in accepted /\ NoIdentity \notin accepted
  BY <1>1 DEF SignedInv, AcceptedInv
<1>4. AcceptedInv' /\ OwnInv'
  <2>1. bundle'.spk.by = bundle'.identity
    BY <1>2 DEF SignedInv, OwnInv
  <2>2. clock \in Nat /\ clock <= clock
    BY SignedTypes
  <2> QED
    BY <1>1, <1>2, <1>3, <2>1, <2>2, DevicesStay
<1>5. \A d \in Devices : OfferInv(d)'
  BY <1>1, <1>2, OfferStaysToo
<1>6. UsedInv'
  <2> DEFINE new == [key |-> bundle.spk, at |-> clock]
  <2>1. new.at <= clock /\ new.key.by \in 1 .. lastIdentity
    <3>1. new.key.by = bundle.identity
      BY DEF SignedInv, OwnInv
    <3>2. bundle.identity \in 1 .. lastIdentity
      BY <1>3, SignedTypes DEF KeyInv, IdentityInv, NoIdentity
    <3> QED
      BY <3>1, <3>2, SignedTypes
  <2>2. ASSUME NEW d \in Devices, lost = 0, new.key.by = keys[d].identity
        PROVE  HoldsSince(keys[d], new.key.id, new.at)
    <3>1. Published(d)
      BY <1>3, <2>2 DEF Published, SignedInv, OwnInv
    <3>2. OfferedExactly(d) /\ Holds(keys[d], keys[d].spk)
      BY <2>2, <3>1 DEF SignedInv, OfferInv, OwnInv, Published
    <3> QED
      BY <3>2, HoldsWeakens DEF OfferedExactly
  <2> HIDE DEF new
  <2>3. \A u \in used' : u \in used \/ u = new
    BY <1>1 DEF new
  <2> QED
    BY <1>1, <2>1, <2>2, <2>3 DEF SignedInv, UsedInv, HoldsSince
<1> QED
  BY <1>4, <1>5, <1>6 DEF SignedInv

\* A wiped bundle has no signed prekey.
LEMMA RemoveSigned ==
  ASSUME TypeInv, KeyInv, SignedInv, RemoveBundle
  PROVE  SignedInv'
<1>1. /\ bundle' = NoBundle /\ UNCHANGED <<device, lost>> /\ clock' = clock /\ used' = used
      /\ accepted' = accepted /\ late' = late /\ keys' = keys /\ lastIdentity' = lastIdentity
  BY DEF RemoveBundle, device
<1>2. NoBundle.identity = NoIdentity /\ NoBundle.spk.by = NoIdentity
  BY DEF NoBundle, Key
<1>3. AcceptedInv' /\ OwnInv'
  <2>1. clock \in Nat /\ clock <= clock /\ NoIdentity \notin accepted
    BY SignedTypes DEF SignedInv, AcceptedInv
  <2> QED
    BY <1>1, <1>2, <2>1, DevicesStay
<1>4. \A d \in Devices : OfferInv(d)'
  BY <1>1, <1>2 DEF OfferInv, Published
<1>5. UsedInv'
  BY <1>1 DEF SignedInv, UsedInv, HoldsSince
<1> QED
  BY <1>3, <1>4, <1>5 DEF SignedInv

\* A late request offers what was current on the day; its loss has been counted.
LEMMA LateSigned ==
  ASSUME TypeInv, KeyInv, SignedInv, ServeLate
  PROVE  SignedInv'
<1>1. PICK r \in late : /\ late' = late \ {r}
                        /\ \E ok \in BOOLEAN : Handle(r, ok)
                        /\ UNCHANGED <<device, bounds>>
  BY DEF ServeLate
<1>2. PICK ok \in BOOLEAN : Handle(r, ok)
  BY <1>1
<1>3. /\ UNCHANGED <<device, lost>> /\ clock' = clock /\ keys' = keys /\ lost' = lost
      /\ step' = step /\ request' = request /\ lastIdentity' = lastIdentity
  BY <1>1 DEF device, bounds
<1>4. r \in Requests /\ r.identity # NoIdentity /\ lost # 0 /\ ServerOK
  BY SignedTypes DEF TypeInv, LateOK, KeyInv, IdentityInv, NoIdentity, SignedInv, OwnInv
<1>5. /\ accepted \subseteq accepted' /\ NoIdentity \notin accepted'
      /\ bundle' = NoBundle \/ bundle'.identity \in accepted'
      /\ bundle'.spk.by = bundle'.identity
      /\ used' = used
      /\ \/ bundle'.identity = bundle.identity /\ bundle'.spk = bundle.spk
         \/ /\ bundle'.identity = r.identity /\ bundle'.spk = Key(r.identity, r.spk)
            /\ r.event # "add"
  BY <1>2, <1>4, HandleSigned DEF SignedInv, OwnInv
<1>6. AcceptedInv' /\ OwnInv'
  <2>1. clock \in Nat /\ clock <= clock /\ late' \subseteq late
    BY <1>1, SignedTypes
  <2> QED
    BY <1>3, <1>5, <2>1, DevicesStay
<1>7. ASSUME NEW d \in Devices PROVE OfferInv(d)'
  <2>1. CASE bundle'.identity = bundle.identity /\ bundle'.spk = bundle.spk
    BY <1>3, <2>1, OfferStaysToo
  <2>2. CASE /\ bundle'.identity = r.identity /\ bundle'.spk = Key(r.identity, r.spk)
             /\ r.event # "add"
    <3> SUFFICES ASSUME Published(d)' PROVE OfferedLately(d)'
      BY <1>3, <1>4 DEF OfferInv
    <3>1. HoldsSince(keys[d], r.spk, clock)
      BY <1>3, <2>2 DEF Published, SignedInv, OwnInv
    <3>2. HoldsSince(keys[d], r.spk, keys[d].created)
      BY <3>1, SignedTypes, HoldsEarlier DEF SignedInv, OwnInv
    <3>3. bundle'.spk.id = r.spk
      BY <2>2 DEF Key
    <3> QED
      BY <1>3, <3>2, <3>3, HoldsWeakens DEF OfferedLately, Holds, HoldsSince
  <2> QED
    BY <1>5, <2>1, <2>2
<1>8. UsedInv'
  BY <1>3, <1>5 DEF SignedInv, UsedInv, HoldsSince
<1> QED
  BY <1>6, <1>7, <1>8 DEF SignedInv

\* A day passes only while no request is under way.
LEMMA TickSigned ==
  ASSUME TypeInv, KeyInv, SignedInv, Tick \/ UNCHANGED vars
  PROVE  SignedInv'
<1>1. /\ UNCHANGED <<server, device, late, lost>> /\ UNCHANGED <<device, lost>>
      /\ bundle' = bundle /\ accepted' = accepted /\ used' = used /\ late' = late
      /\ keys' = keys /\ lastIdentity' = lastIdentity /\ lost' = lost
      /\ clock' \in Nat /\ clock <= clock' /\ clock \in Nat
      /\ clock' = clock \/ (late = {} /\ \A d \in Devices : step[d] = "idle")
  BY SignedTypes DEF Tick, vars, server, device, bounds
<1>2. AcceptedInv' /\ OwnInv'
  <2>1. /\ bundle.spk.by = bundle.identity /\ NoIdentity \notin accepted
        /\ bundle = NoBundle \/ bundle.identity \in accepted
    BY DEF SignedInv, OwnInv, AcceptedInv
  <2> QED
    BY <1>1, <2>1, DevicesStay
<1>3. \A d \in Devices : OfferInv(d)'
  BY <1>1, OfferStaysToo
<1>4. UsedInv'
  <2>1. \A u \in used : clock' - u.at <= MaxAge => clock - u.at <= MaxAge
    BY <1>1, SignedTypes
  <2>2. \A u \in used : u.at <= clock => u.at <= clock'
    BY <1>1, SignedTypes
  <2> QED
    BY <1>1, <2>1, <2>2 DEF SignedInv, UsedInv, HoldsSince
<1> QED
  BY <1>2, <1>3, <1>4 DEF SignedInv

-----------------------------------------------------------------------------
(* Theorems                                                                *)

\* No keys, no bundle, no request.
LEMMA InitSigned ==
  ASSUME Init
  PROVE  SignedInv
<1>1. NoBundle.identity = NoIdentity /\ NoBundle.spk.by = NoIdentity
  BY DEF NoBundle, Key
<1>2. NoKeys.identity = NoIdentity /\ NoKeys.created = 0 /\ NoKeys.state = "none"
  BY DEF NoKeys
<1>3. AcceptedInv
  BY <1>2 DEF Init, AcceptedInv
<1>4. OwnInv
  BY <1>1, <1>2 DEF Init, OwnInv
<1>5. \A d \in Devices : OfferInv(d)
  BY <1>2 DEF Init, OfferInv, Published
<1>6. UsedInv
  BY DEF Init, UsedInv
<1> QED
  BY <1>3, <1>4, <1>5, <1>6 DEF SignedInv

\* With the invariants of KeyLifecycleProofs, SignedInv is inductive.
THEOREM SignedInvariant == Spec => [](TypeInv /\ KeyInv /\ SignedInv)
<1>1. ASSUME TypeInv, TypeInv', KeyInv, SignedInv, [Next]_vars PROVE SignedInv'
  <2>1. ASSUME NEW d \in Devices, Operate(d) PROVE SignedInv'
    <3>1. Shape(d)
      BY <1>1, <2>1, OperateShape DEF KeyInv
    <3>2. SignedShape(d)
      BY <1>1, <2>1, OperateSigned
    <3> QED
      BY <1>1, <3>1, <3>2, SignedKept
  <2> QED
    BY <1>1, <2>1, FetchSigned, RemoveSigned, LateSigned, TickSigned DEF Next
<1>2. Init => SignedInv
  BY InitSigned
<1> QED
  BY <1>1, <1>2, KeysInvariant, PTL DEF Spec

\* A device that is ready to send has an identity that the server accepted.
THEOREM ReadyMeansAccepted == Spec => []ReadyIsAccepted
<1>1. SignedInv => ReadyIsAccepted
  BY DEF SignedInv, AcceptedInv, ReadyIsAccepted
<1> QED
  BY <1>1, SignedInvariant, PTL

\* A key under its id is the key.
LEMMA HoldsKey ==
  ASSUME NEW k, NEW u \in AnyKey, u.by = k.identity, Holds(k, u.id)
  PROVE  u \in SignedKeys(k)
<1>1. PICK s \in k.spks : s.id = u.id
  BY DEF Holds
<1>2. u = Key(k.identity, s.id)
  BY <1>1 DEF AnyKey, Key
<1> QED
  BY <1>2 DEF SignedKeys

\* The signed prekey on offer is on its device as long as no request was lost, and after
\* one loss if the next rotation is due before a retired key is pruned.
LEMMA OfferIsHeld ==
  ASSUME TypeInv, SignedInv, lost = 0 \/ (lost = 1 /\ Rotation <= MaxAge + Day)
  PROVE  SignedKeyHeld
<1> SUFFICES ASSUME NEW d \in Devices, Published(d) PROVE bundle.spk \in SignedKeys(keys[d])
  BY DEF SignedKeyHeld, Published
<1>1. Holds(keys[d], keys[d].spk) /\ OfferInv(d) /\ bundle.spk.by = keys[d].identity
  BY DEF SignedInv, OwnInv, Published
<1>2. Holds(keys[d], bundle.spk.id)
  <2>1. CASE lost = 0
    BY <1>1, <2>1, HoldsWeakens DEF OfferInv, OfferedExactly
  <2>2. CASE lost = 1 /\ RotatesInTime
    BY <1>1, <2>2 DEF OfferInv, OfferedLately
  <2> QED
    BY <2>1, <2>2 DEF RotatesInTime
<1> QED
  BY <1>1, <1>2, HoldsKey, SignedTypes

\* Where at most one request is lost and the rotation keeps within the lifetime of a
\* conversation and a day, as it does by default, the signed prekey on offer is always one
\* that its device can use.
THEOREM SignedKeyIsHeld ==
  ASSUME MaxLost <= 1, Rotation <= MaxAge + Day
  PROVE  Spec => []SignedKeyHeld
<1>1. Init => lost \in 0 .. MaxLost
  BY ConstantsAssumption DEF Init
<1>2. lost \in 0 .. MaxLost /\ [Next]_vars => (lost \in 0 .. MaxLost)'
  <2> SUFFICES ASSUME lost \in 0 .. MaxLost, [Next]_vars PROVE lost' \in 0 .. MaxLost
    OBVIOUS
  <2>1. MaxLost \in Nat
    BY ConstantsAssumption
  <2>2. lost' = lost \/ (lost < MaxLost /\ lost' = lost + 1)
    BY DEF Next, Operate, EnsureKeys, ResetOwnIdentity, Start, Status, Serve, LoseRequest,
           LoseReply, Delay, GiveUp, FetchBundle, RemoveBundle, ServeLate, Tick, vars, bounds
  <2> QED
    BY <2>1, <2>2
<1>3. Spec => [](lost \in 0 .. MaxLost)
  BY <1>1, <1>2, PTL DEF Spec
<1>4. TypeInv /\ SignedInv /\ lost \in 0 .. MaxLost => SignedKeyHeld
  <2> SUFFICES ASSUME TypeInv, SignedInv, lost \in 0 .. MaxLost PROVE SignedKeyHeld
    OBVIOUS
  <2>1. lost = 0 \/ lost = 1
    BY ConstantsAssumption
  <2> QED
    BY <2>1, OfferIsHeld
<1> QED
  BY <1>3, <1>4, SignedInvariant, PTL

\* However long the periods are and however many requests may be lost: until one is, the
\* signed prekey on offer is one that its device can use.
THEOREM SignedKeyIsHeldUntilALoss == Spec => [](lost = 0 => SignedKeyHeld)
<1>1. TypeInv /\ SignedInv => (lost = 0 => SignedKeyHeld)
  BY OfferIsHeld
<1> QED
  BY <1>1, SignedInvariant, PTL

\* Until a request is lost, every signed prekey that a peer was given stays on the device
\* for the lifetime of the conversation.
THEOREM SignedKeysOutlive == Spec => []KeptUnlessLost
<1>1. TypeInv /\ SignedInv => KeptUnlessLost
  <2> SUFFICES ASSUME TypeInv, SignedInv, lost = 0, NEW u \in used, NEW d \in Devices,
                      u.key.by = keys[d].identity, clock - u.at <= MaxAge
               PROVE  u.key \in SignedKeys(keys[d])
    BY DEF KeptUnlessLost, KeptWhileReadable
  <2>1. HoldsSince(keys[d], u.key.id, u.at)
    BY DEF SignedInv, UsedInv
  <2> QED
    BY <2>1, HoldsWeakens, HoldsKey, SignedTypes
<1> QED
  BY <1>1, SignedInvariant, PTL
=============================================================================
