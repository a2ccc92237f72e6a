------------------------- MODULE KeyLifecycleProofs -------------------------
(***************************************************************************)
(* Theorems about KeyLifecycle, for any number of devices, any limits and  *)
(* any number of lost, late and repeated requests.                         *)
(***************************************************************************)
EXTENDS KeyLifecycle, FiniteSetTheorems, TLAPS

Replies == {"publish", "reset"}

\* A request that replaces the bundle carries OpkTarget one-time prekeys.
FullSize(r) == r.event \in Replies => r.last = r.after + OpkTarget

ServerOK ==
  /\ bundle \in Bundles /\ IsFiniteSet(bundle.opks) /\ Cardinality(bundle.opks) <= MaxOpks
  /\ accepted \subseteq Nat

DeviceOK ==
  /\ keys \in [Devices -> KeyStores]
  /\ step \in [Devices -> Steps]
  /\ resetting \in [Devices -> BOOLEAN]
  /\ status \in [Devices -> [count : Nat, max : Nat]]
  /\ request \in [Devices -> Requests]
  /\ \A d \in Devices : FullSize(request[d])

LateOK == late \subseteq Requests /\ \A r \in late : FullSize(r)

BoundsOK == clock \in Nat /\ resets \in Nat /\ lost \in Nat /\ wipes \in Nat

\* TypeOK, with the size of the requests that are under way.
TypeInv ==
  /\ ServerOK /\ DeviceOK /\ LateOK
  /\ BoundsOK /\ lastIdentity \in Nat
  /\ served \subseteq AnyKey
  /\ used \subseteq [key : AnyKey, at : Nat]

\* Identities are generated once: no two devices share one.
IdentityInv ==
  /\ bundle.identity <= lastIdentity
  /\ \A d \in Devices : keys[d].identity <= lastIdentity
  /\ \A d, e \in Devices :
       d # e /\ keys[d].identity = keys[e].identity => keys[d].identity = NoIdentity
  /\ \A k \in bundle.opks : k.by = bundle.identity
  /\ \A k \in bundle.opks \cup served : k.by \in 1 .. lastIdentity
  /\ \A r \in late : r.identity \in 1 .. lastIdentity

\* The device of an identity holds what it sent, and its counter is not behind.
Covered(k, r) == r.identity = k.identity => Ids(r) \subseteq k.opks /\ r.last <= k.opkCounter

HeldInv ==
  \A d \in Devices :
    /\ step[d] = "reply" =>
         /\ request[d].identity = keys[d].identity /\ keys[d].identity # NoIdentity
         /\ Covered(keys[d], request[d])
    /\ \A r \in late : Covered(keys[d], r)
    /\ \A k \in bundle.opks \cup served :
         k.by = keys[d].identity => k.id <= keys[d].opkCounter
    /\ \A k \in bundle.opks : k.by = keys[d].identity => k.id \in keys[d].opks

\* One-time prekeys under way were neither offered nor handed out, and are under way once.
Unused(r) == \A k \in bundle.opks \cup served : k.by = r.identity => k.id \notin Ids(r)

Disjoint(r, s) == r.identity = s.identity => Ids(r) \cap Ids(s) = {}

UnusedInv ==
  /\ \A r \in late : Unused(r)
  /\ \A d \in Devices : step[d] = "reply" => Unused(request[d])
  /\ \A r, s \in late : r # s => Disjoint(r, s)
  /\ \A d \in Devices, r \in late : step[d] = "reply" => Disjoint(request[d], r)

KeyInv == IdentityInv /\ HeldInv /\ UnusedInv /\ ServedOnce

-----------------------------------------------------------------------------
(* What the operations of the server and of a device amount to             *)

\* The bundle after the request r was handled.
Absorbed(r) ==
  /\ bundle'.identity \in {bundle.identity, r.identity}
  /\ \A k \in bundle'.opks :
       /\ k.by = bundle'.identity
       /\ k \in bundle.opks \/ (k.by = r.identity /\ k.id \in Ids(r))

\* The keys of d after a step of it, in which it may have generated an identity.
Extends(k, l) == l.identity = k.identity /\ k.opks \subseteq l.opks /\ k.opkCounter <= l.opkCounter

\* A request that d has just sent offers keys that it never offered before.
JustSent(d) ==
  /\ request'[d].identity = keys'[d].identity /\ keys'[d].identity # NoIdentity
  /\ Covered(keys'[d], request'[d])
  /\ \A n \in Ids(request'[d]) : n > keys[d].opkCounter

OthersKept(d) ==
  \A e \in Devices \ {d} :
    keys'[e] = keys[e] /\ step'[e] = step[e] /\ request'[e] = request[e]

DeviceStep(d) ==
  /\ DeviceOK'
  /\ OthersKept(d)
  /\ \/ lastIdentity' = lastIdentity /\ Extends(keys[d], keys'[d])
     \/ /\ lastIdentity' = lastIdentity + 1 /\ keys'[d].identity = lastIdentity'
        /\ bundle' = bundle /\ late' = late
  /\ step'[d] = "reply" => JustSent(d)

Shape(d) ==
  /\ DeviceStep(d)
  /\ served' = served
  /\ \/ bundle' = bundle /\ late' = late
     \/ step[d] = "reply" /\ Absorbed(request[d]) /\ late' = late
     \/ /\ step[d] = "reply" /\ step'[d] # "reply"
        /\ bundle' = bundle /\ late' = late \cup {request[d]}

-----------------------------------------------------------------------------
(* One-time prekeys                                                        *)

\* The keys of a request are finitely many, as many as it says.
LEMMA IdsFacts ==
  ASSUME NEW r \in Requests
  PROVE  /\ IsFiniteSet(Ids(r)) /\ Ids(r) \subseteq Nat
         /\ Cardinality(Ids(r)) = IF r.after < r.last THEN r.last - r.after ELSE 0
         /\ \A n \in Ids(r) : n > r.after /\ n <= r.last
<1>1. r.after + 1 \in Int /\ r.after \in Nat /\ r.last \in Nat /\ r.last \in Int
  BY DEF Requests
<1>2. /\ IsFiniteSet(r.after + 1 .. r.last)
      /\ Cardinality(r.after + 1 .. r.last)
           = IF r.after + 1 > r.last THEN 0 ELSE r.last - (r.after + 1) + 1
  BY <1>1, FS_Interval
<1> QED
  BY <1>1, <1>2 DEF Ids

\* Giving ids an owner makes no more of them.
LEMMA KeysOfFacts ==
  ASSUME NEW i \in Nat, NEW S \in SUBSET Nat, IsFiniteSet(S)
  PROVE  /\ KeysOf(i, S) \subseteq AnyKey
         /\ IsFiniteSet(KeysOf(i, S)) /\ Cardinality(KeysOf(i, S)) <= Cardinality(S)
         /\ \A k \in KeysOf(i, S) : k.by = i /\ k.id \in S
<1> DEFINE f == [n \in S |-> Key(i, n)]
<1>1. f \in Surjection(S, KeysOf(i, S))
  BY DEF Surjection, KeysOf
<1>2. IsFiniteSet(KeysOf(i, S)) /\ Cardinality(KeysOf(i, S)) <= Cardinality(S)
  BY <1>1, FS_Surjection
<1> QED
  BY <1>2 DEF KeysOf, Key, AnyKey

\* The keys of a request are as many as its ids, and all of its identity.
LEMMA RequestKeys ==
  ASSUME NEW r \in Requests
  PROVE  /\ KeysOf(r.identity, Ids(r)) \subseteq AnyKey
         /\ IsFiniteSet(KeysOf(r.identity, Ids(r)))
         /\ Cardinality(KeysOf(r.identity, Ids(r))) \in Nat
         /\ Cardinality(KeysOf(r.identity, Ids(r))) <= Cardinality(Ids(r))
         /\ \A k \in KeysOf(r.identity, Ids(r)) : k.by = r.identity /\ k.id \in Ids(r)
<1>1. r.identity \in Nat
  BY DEF Requests
<1>2. IsFiniteSet(Ids(r)) /\ Ids(r) \in SUBSET Nat
  BY IdsFacts
<1> QED
  BY <1>1, <1>2, KeysOfFacts, FS_CardinalityType

\* The highest id, with those of a request, is a number.
LEMMA MaxKeyIdType ==
  ASSUME NEW r \in Requests, NEW m \in Nat
  PROVE  MaxKeyId(r, m) \in Nat
  BY DEF Requests, MaxKeyId, LargerOf

\* A status is two numbers.
LEMMA StatusOfType ==
  ASSUME ServerOK
  PROVE  StatusOf(bundle) \in [count : Nat, max : Nat]
  BY FS_CardinalityType DEF ServerOK, Bundles, StatusOf

-----------------------------------------------------------------------------
(* The server                                                              *)

\* A bundle made from a full request has its shape.
LEMMA FullBundleOK ==
  ASSUME NEW r \in Requests, r.event \in Replies, FullSize(r)
  PROVE  /\ FullBundle(r) \in Bundles
         /\ FullBundle(r).identity = r.identity
         /\ FullBundle(r).opks = KeysOf(r.identity, Ids(r))
         /\ IsFiniteSet(FullBundle(r).opks) /\ Cardinality(FullBundle(r).opks) <= MaxOpks
<1>1. Cardinality(Ids(r)) <= MaxOpks
  BY IdsFacts, ConstantsAssumption DEF FullSize, Requests
<1>2. Cardinality(Ids(r)) \in Nat
  BY IdsFacts, FS_CardinalityType
<1>3. Cardinality(KeysOf(r.identity, Ids(r))) <= MaxOpks
  BY <1>1, <1>2, RequestKeys, ConstantsAssumption
<1>4. MaxKeyId(r, 0) \in Nat
  BY MaxKeyIdType
<1>5. Key(r.identity, r.spk) \in AnyKey /\ r.identity \in Nat
  BY DEF Requests, Key, AnyKey
<1> QED
  BY <1>3, <1>4, <1>5, RequestKeys DEF FullBundle, Bundles

\* A handled request leaves the server in order and adds at most its own keys.
LEMMA HandleFacts ==
  ASSUME ServerOK, \A k \in bundle.opks : k.by = bundle.identity,
         NEW r \in Requests, FullSize(r), NEW ok, Handle(r, ok)
  PROVE  ServerOK' /\ Absorbed(r) /\ served' = served /\ used' = used
<1> SUFFICES ServerOK' /\ Absorbed(r)
  BY DEF Handle
<1> USE DEF ServerOK
<1>1. CASE Refuse
  <2>1. bundle' = bundle /\ accepted' = accepted
    BY <1>1 DEF Refuse
  <2> QED
    BY <2>1 DEF Absorbed
<1>2. CASE r.event \in Replies /\ Write(FullBundle(r))
  <2>1. bundle' = FullBundle(r) /\ accepted' = accepted \cup {r.identity}
    BY <1>2, FullBundleOK DEF Write
  <2>2. r.identity \in Nat
    BY DEF Requests
  <2> QED
    BY <1>2, <2>1, <2>2, FullBundleOK, RequestKeys DEF Absorbed
<1>3. CASE RotateSignedPreKey(r, ok)
  <2>1. CASE ~IsCurrent(r)
    BY <1>1, <1>3, <2>1 DEF RotateSignedPreKey
  <2>2. CASE IsCurrent(r)
    <3>1. bundle' = [bundle EXCEPT !.spk = Key(r.identity, r.spk)]
          /\ accepted' = accepted \cup {bundle'.identity}
      BY <1>3, <2>2 DEF RotateSignedPreKey, Write
    <3>2. Key(r.identity, r.spk) \in AnyKey
      BY DEF Requests, Key, AnyKey
    <3>3. /\ bundle' \in Bundles /\ bundle'.opks = bundle.opks
          /\ bundle'.identity = bundle.identity /\ bundle.identity \in Nat
      BY <3>1, <3>2 DEF Bundles
    <3> QED
      BY <3>1, <3>3 DEF Absorbed
  <2> QED
    BY <2>1, <2>2
<1>4. CASE AddOneTimePreKeys(r, ok)
  <2>1. CASE ~(IsCurrent(r) /\ Appendable(r))
    BY <1>1, <1>4, <2>1 DEF AddOneTimePreKeys
  <2>2. CASE IsCurrent(r) /\ Appendable(r)
    <3> DEFINE new == KeysOf(r.identity, Ids(r))
    <3>1. bundle' = [bundle EXCEPT !.opks = @ \cup new, !.max = MaxKeyId(r, @)]
          /\ accepted' = accepted \cup {bundle'.identity}
      BY <1>4, <2>2 DEF AddOneTimePreKeys, Write
    <3>2. bundle.max \in Nat /\ bundle.opks \subseteq AnyKey /\ bundle.identity \in Nat
      BY DEF Bundles
    <3>3. MaxKeyId(r, bundle.max) \in Nat
      BY <3>2, MaxKeyIdType
    <3>4. new \subseteq AnyKey /\ \A k \in new : k.by = r.identity /\ k.id \in Ids(r)
      BY RequestKeys
    <3>5. /\ bundle' \in Bundles /\ bundle'.opks = bundle.opks \cup new
          /\ bundle'.identity = bundle.identity
      BY <3>1, <3>2, <3>3, <3>4 DEF Bundles
    <3>6. bundle.identity = r.identity
      BY <2>2 DEF IsCurrent
    <3>7. IsFiniteSet(bundle'.opks) /\ Cardinality(bundle'.opks) <= MaxOpks
      <4>1. IsFiniteSet(new) /\ Cardinality(new) <= Cardinality(Ids(r))
        BY RequestKeys
      <4>2. /\ IsFiniteSet(bundle.opks \cup new)
            /\ Cardinality(bundle.opks \cup new)
                 = Cardinality(bundle.opks) + Cardinality(new) - Cardinality(bundle.opks \cap new)
        BY <4>1, FS_Union
      <4>3. IsFiniteSet(bundle.opks \cap new)
        BY <4>1, FS_Subset
      <4>4. /\ Cardinality(bundle.opks \cap new) \in Nat /\ Cardinality(new) \in Nat
            /\ Cardinality(bundle.opks) \in Nat /\ Cardinality(Ids(r)) \in Nat
        BY <4>1, <4>3, IdsFacts, FS_CardinalityType
      <4>5. Cardinality(bundle.opks) + Cardinality(Ids(r)) <= MaxOpks
        BY <2>2 DEF Appendable
      <4> QED
        BY <3>5, <4>1, <4>2, <4>4, <4>5, ConstantsAssumption
    <3> QED
      BY <3>1, <3>2, <3>4, <3>5, <3>6, <3>7 DEF Absorbed
  <2> QED
    BY <2>1, <2>2
<1> QED
  BY <1>1, <1>2, <1>3, <1>4
     DEF Handle, PublishIdentity, ResetIdentity, Replies

-----------------------------------------------------------------------------
(* A device                                                                *)

\* A new signed prekey changes nothing else on the device.
LEMMA SignedPreKeyFacts ==
  ASSUME NEW k \in KeyStores, clock \in Nat
  PROVE  LET l == WithSignedPreKey(k)
         IN /\ l \in KeyStores /\ l.spk \in Nat
            /\ l.identity = k.identity /\ l.opks = k.opks /\ l.opkCounter = k.opkCounter
<1> DEFINE Records == [id : Nat, retired : Nat \cup {Never}]
           retired == {IF s.id = k.spk THEN [s EXCEPT !.retired = clock] ELSE s : s \in k.spks}
           n == k.spkCounter + 1
<1>1. k.spkCounter \in Nat /\ k.spks \subseteq Records
  BY DEF KeyStores
<1>2. retired \subseteq Records
  BY <1>1
<1>3. [id |-> n, retired |-> Never] \in Records
  BY <1>1
<1>4. WithSignedPreKey(k)
        = [k EXCEPT !.spkCounter = n, !.spk = n, !.created = clock,
                    !.spks = retired \cup {[id |-> n, retired |-> Never]}]
  BY DEF WithSignedPreKey
<1>5. n \in Nat /\ retired \cup {[id |-> n, retired |-> Never]} \subseteq Records
  BY <1>1, <1>2, <1>3
<1> HIDE DEF retired, n
<1> QED
  BY <1>4, <1>5 DEF KeyStores

\* New one-time prekeys have ids above the counter and above the server's.
LEMMA OneTimePreKeysFacts ==
  ASSUME NEW k \in KeyStores, NEW count \in Nat, NEW m \in Nat
  PROVE  LET l == WithOneTimePreKeys(k, count, m)
         IN /\ l \in KeyStores /\ l.identity = k.identity /\ l.opkCounter - count \in Nat
            /\ l.opkCounter - count >= k.opkCounter
            /\ l.opks = k.opks \cup (l.opkCounter - count + 1 .. l.opkCounter)
<1> DEFINE start == LargerOf(k.opkCounter, m)
<1>1. start \in Nat /\ start >= k.opkCounter /\ k.opkCounter \in Nat /\ k.opks \subseteq Nat
  BY DEF KeyStores, LargerOf
<1>2. WithOneTimePreKeys(k, count, m)
        = [k EXCEPT !.opks = @ \cup (start + 1 .. start + count), !.opkCounter = start + count]
  BY DEF WithOneTimePreKeys
<1> HIDE DEF start
<1>3. start + count \in Nat /\ (start + count) - count = start
  BY <1>1
<1>4. k.opks \cup (start + 1 .. start + count) \subseteq Nat
  BY <1>1
<1> QED
  BY <1>1, <1>2, <1>3, <1>4 DEF KeyStores

\* Pruning takes signed prekeys only.
LEMMA PrunedFacts ==
  ASSUME NEW k \in KeyStores
  PROVE  /\ Pruned(k) \in KeyStores /\ Pruned(k).identity = k.identity
         /\ Pruned(k).opks = k.opks /\ Pruned(k).opkCounter = k.opkCounter
<1>1. {s \in k.spks : ~Expired(s, k)} \subseteq [id : Nat, retired : Nat \cup {Never}]
  BY DEF KeyStores
<1> QED
  BY <1>1 DEF Pruned, KeyStores

\* A device that sends a request waits for its reply.
LEMMA SendFacts ==
  ASSUME DeviceOK, NEW d \in Devices, NEW k \in KeyStores, NEW r \in Requests, FullSize(r),
         status' \in [Devices -> [count : Nat, max : Nat]], Send(d, k, r)
  PROVE  /\ DeviceOK' /\ OthersKept(d)
         /\ keys'[d] = k /\ request'[d] = r /\ step'[d] = "reply"
<1>1. /\ keys' = [keys EXCEPT ![d] = k] /\ request' = [request EXCEPT ![d] = r]
      /\ step' = [step EXCEPT ![d] = "reply"] /\ resetting' = resetting
  BY DEF Send
<1>2. /\ keys' \in [Devices -> KeyStores] /\ request' \in [Devices -> Requests]
      /\ step' \in [Devices -> Steps]
  BY <1>1 DEF DeviceOK, Steps
<1> QED
  BY <1>1, <1>2 DEF DeviceOK, OthersKept

\* A device that ends its operation is idle, with the keys it has.
LEMMA EndFacts ==
  ASSUME DeviceOK, NEW d \in Devices, End(d), NEW k \in KeyStores,
         keys' = [keys EXCEPT ![d] = k]
  PROVE  DeviceOK' /\ OthersKept(d) /\ keys'[d] = k /\ step'[d] = "idle"
<1>1. NoRequest \in Requests /\ FullSize(NoRequest)
  BY DEF NoRequest, Requests, Events, NoIdentity, FullSize, Replies
<1>2. NoStatus \in [count : Nat, max : Nat]
  BY DEF NoStatus
<1>3. /\ keys' \in [Devices -> KeyStores] /\ request' \in [Devices -> Requests]
      /\ step' \in [Devices -> Steps] /\ resetting' \in [Devices -> BOOLEAN]
      /\ status' \in [Devices -> [count : Nat, max : Nat]]
  BY <1>1, <1>2 DEF DeviceOK, End, Steps
<1> QED
  BY <1>1, <1>3 DEF DeviceOK, OthersKept, End

\* So is one that sets its state at the end.
LEMMA FinishFacts ==
  ASSUME DeviceOK, NEW d \in Devices, NEW k \in KeyStores, NEW s \in States, Finish(d, k, s)
  PROVE  /\ DeviceOK' /\ OthersKept(d) /\ step'[d] = "idle"
         /\ keys'[d].identity = k.identity /\ keys'[d].opks = k.opks
         /\ keys'[d].opkCounter = k.opkCounter
<1>1. [k EXCEPT !.state = s] \in KeyStores
  BY DEF KeyStores
<1>2. End(d) /\ keys' = [keys EXCEPT ![d] = [k EXCEPT !.state = s]]
  BY DEF Finish
<1>3. DeviceOK' /\ OthersKept(d) /\ step'[d] = "idle" /\ keys'[d] = [k EXCEPT !.state = s]
  BY <1>1, <1>2, EndFacts
<1> QED
  BY <1>3 DEF KeyStores

\* A published bundle offers keys that the device holds and offers for the first time.
LEMMA PublishFacts ==
  ASSUME DeviceOK, ServerOK, clock \in Nat, NEW d \in Devices, NEW event \in Replies,
         NEW k \in KeyStores, k.identity # NoIdentity, k.opkCounter = keys[d].opkCounter,
         PublishBundle(d, event, k)
  PROVE  /\ DeviceOK' /\ OthersKept(d) /\ JustSent(d)
         /\ keys'[d].identity = k.identity /\ k.opks \subseteq keys'[d].opks
         /\ keys'[d].opkCounter >= k.opkCounter
<1> DEFINE l == WithSignedPreKey(k)
           full == WithOneTimePreKeys(l, OpkTarget, bundle.max)
           r == [event |-> event, identity |-> k.identity, spk |-> full.spk,
                 after |-> full.opkCounter - OpkTarget, last |-> full.opkCounter]
<1>1. OpkTarget \in Nat /\ bundle.max \in Nat
  BY ConstantsAssumption DEF ServerOK, Bundles
<1>2. l \in KeyStores /\ l.identity = k.identity /\ l.opks = k.opks /\ l.opkCounter = k.opkCounter
  BY SignedPreKeyFacts
<1>3. /\ full \in KeyStores /\ full.identity = k.identity /\ full.opkCounter - OpkTarget \in Nat
      /\ full.opkCounter - OpkTarget >= k.opkCounter
      /\ full.opks = k.opks \cup (full.opkCounter - OpkTarget + 1 .. full.opkCounter)
  <2> HIDE DEF l
  <2>1. /\ full \in KeyStores /\ full.identity = l.identity /\ full.opkCounter - OpkTarget \in Nat
        /\ full.opkCounter - OpkTarget >= l.opkCounter
        /\ full.opks = l.opks \cup (full.opkCounter - OpkTarget + 1 .. full.opkCounter)
    BY <1>1, <1>2, OneTimePreKeysFacts
  <2> HIDE DEF full
  <2> QED
    BY <1>2, <2>1
<1>4. Send(d, full, r) /\ status' = status
  BY DEF PublishBundle
<1> HIDE DEF full, l
<1>5. full.spk \in Nat /\ full.opkCounter \in Nat /\ k.identity \in Nat /\ k.opkCounter \in Nat
  BY <1>3 DEF KeyStores
<1>6. r \in Requests /\ FullSize(r)
  BY <1>1, <1>3, <1>5 DEF Requests, FullSize, Replies, Events
<1>7. /\ DeviceOK' /\ OthersKept(d) /\ keys'[d] = full /\ request'[d] = r
  <2>1. status' \in [Devices -> [count : Nat, max : Nat]]
    BY <1>4 DEF DeviceOK
  <2> HIDE DEF r
  <2> QED
    BY <1>3, <1>4, <1>6, <2>1, SendFacts
<1>8. Ids(r) = full.opkCounter - OpkTarget + 1 .. full.opkCounter
  BY DEF Ids
<1>9. JustSent(d)
  <2>1. Covered(full, r)
    BY <1>3, <1>5, <1>8 DEF Covered
  <2>2. \A n \in Ids(r) : n > keys[d].opkCounter
    BY <1>1, <1>3, <1>5, <1>8
  <2> QED
    BY <1>3, <1>7, <2>1, <2>2 DEF JustSent
<1> QED
  BY <1>1, <1>3, <1>5, <1>7, <1>9

\* So does a request for more one-time prekeys.
LEMMA PruneAndTopUpFacts ==
  ASSUME DeviceOK, NEW d \in Devices, NEW st \in [count : Nat, max : Nat],
         keys[d].identity # NoIdentity, PruneAndTopUp(d, st)
  PROVE  /\ DeviceOK' /\ OthersKept(d) /\ Extends(keys[d], keys'[d])
         /\ step'[d] = "reply" => JustSent(d)
<1> DEFINE k == Pruned(keys[d])
           count == OpkTarget - st.count
           full == WithOneTimePreKeys(k, count, st.max)
           r == [event |-> "add", identity |-> k.identity, spk |-> 0,
                 after |-> full.opkCounter - count, last |-> full.opkCounter]
<1>1. keys[d] \in KeyStores
  BY DEF DeviceOK
<1>2. /\ k \in KeyStores /\ k.identity = keys[d].identity
      /\ k.opks = keys[d].opks /\ k.opkCounter = keys[d].opkCounter
  BY <1>1, PrunedFacts
<1>3. k.identity \in Nat /\ k.opkCounter \in Nat /\ st.count \in Nat /\ st.max \in Nat
  BY <1>2 DEF KeyStores
<1>4. CASE st.count >= OpkLow /\ Finish(d, k, "ready")
  <2> HIDE DEF k
  <2>1. "ready" \in States
    BY DEF States
  <2>2. /\ DeviceOK' /\ OthersKept(d) /\ step'[d] = "idle"
        /\ keys'[d].identity = k.identity /\ keys'[d].opks = k.opks
        /\ keys'[d].opkCounter = k.opkCounter
    BY <1>2, <1>4, <2>1, FinishFacts
  <2> QED
    BY <1>2, <1>3, <2>2 DEF Extends
<1>5. CASE /\ st.count < OpkLow /\ Send(d, full, r)
           /\ status' = [status EXCEPT ![d] = NoStatus]
  <2>1. count \in Nat
    BY <1>3, <1>5, ConstantsAssumption
  <2>2. /\ full \in KeyStores /\ full.identity = k.identity /\ full.opkCounter - count \in Nat
        /\ full.opkCounter - count >= k.opkCounter
        /\ full.opks = k.opks \cup (full.opkCounter - count + 1 .. full.opkCounter)
    <3> HIDE DEF k, count
    <3> QED
      BY <1>2, <1>3, <2>1, OneTimePreKeysFacts
  <2> HIDE DEF full, k, count
  <2>3. full.opkCounter \in Nat
    BY <2>2 DEF KeyStores
  <2>4. r \in Requests /\ FullSize(r)
    BY <1>3, <2>2, <2>3 DEF Requests, FullSize, Replies, Events
  <2>5. status' \in [Devices -> [count : Nat, max : Nat]]
    BY <1>5 DEF DeviceOK, NoStatus
  <2>6. DeviceOK' /\ OthersKept(d) /\ keys'[d] = full /\ request'[d] = r
    <3> HIDE DEF r
    <3> QED
      BY <1>5, <2>2, <2>4, <2>5, SendFacts
  <2>7. Ids(r) = full.opkCounter - count + 1 .. full.opkCounter
    BY DEF Ids
  <2>8. Covered(full, r)
    BY <2>2, <2>3, <2>7 DEF Covered
  <2>9. \A n \in Ids(r) : n > keys[d].opkCounter
    BY <1>2, <1>3, <2>1, <2>2, <2>3, <2>7
  <2>10. Extends(keys[d], full)
    BY <1>2, <1>3, <2>1, <2>2, <2>3 DEF Extends
  <2> QED
    BY <1>2, <2>2, <2>6, <2>8, <2>9, <2>10 DEF JustSent
<1> QED
  BY <1>4, <1>5 DEF PruneAndTopUp

-----------------------------------------------------------------------------
(* Every step of a device has the shape                                    *)

\* The start of an operation has the shape.
LEMMA StartShape ==
  ASSUME TypeInv, NEW d \in Devices, EnsureKeys(d) \/ ResetOwnIdentity(d)
  PROVE  Shape(d) /\ TypeInv'
<1>1. Start(d)
  BY DEF EnsureKeys, ResetOwnIdentity
<1>2. /\ step' = [step EXCEPT ![d] = "status"]
      /\ UNCHANGED <<server, status, request, lastIdentity, late, clock, lost, wipes>>
  BY <1>1 DEF Start
<1>3. /\ keys' \in [Devices -> KeyStores] /\ Extends(keys[d], keys'[d])
      /\ \A e \in Devices \ {d} : keys'[e] = keys[e]
      /\ resetting' \in [Devices -> BOOLEAN] /\ resets' \in Nat
  <2>1. CASE EnsureKeys(d)
    <3>1. UNCHANGED <<keys, resetting, resets>>
      BY <2>1 DEF EnsureKeys
    <3>2. keys[d].opkCounter \in Nat
      BY DEF TypeInv, DeviceOK, KeyStores
    <3> QED
      BY <3>1, <3>2 DEF TypeInv, DeviceOK, BoundsOK, Extends
  <2>2. CASE ResetOwnIdentity(d)
    <3>1. /\ keys' = [keys EXCEPT ![d] = [keys[d] EXCEPT !.state = "resetting"]]
          /\ resetting' = [resetting EXCEPT ![d] = TRUE] /\ resets' = resets + 1
      BY <2>2 DEF ResetOwnIdentity
    <3>2. keys[d] \in KeyStores /\ keys[d].opkCounter \in Nat
      BY DEF TypeInv, DeviceOK, KeyStores
    <3>3. /\ [keys[d] EXCEPT !.state = "resetting"] \in KeyStores
          /\ Extends(keys[d], [keys[d] EXCEPT !.state = "resetting"])
      BY <3>2 DEF KeyStores, States, Extends
    <3> QED
      BY <3>1, <3>3 DEF TypeInv, DeviceOK, BoundsOK
  <2> QED
    BY <2>1, <2>2
<1>4. DeviceOK' /\ OthersKept(d) /\ step'[d] = "status"
  BY <1>2, <1>3 DEF TypeInv, DeviceOK, OthersKept, Steps
<1>5. TypeInv'
  BY <1>2, <1>3, <1>4 DEF TypeInv, ServerOK, LateOK, BoundsOK, server
<1> QED
  BY <1>2, <1>3, <1>4, <1>5 DEF Shape, DeviceStep, server

\* The branches of ensureKeys and resetIdentity.
LEMMA StatusShape ==
  ASSUME TypeInv, NEW d \in Devices, Status(d)
  PROVE  Shape(d) /\ TypeInv'
<1>1. keys[d] \in KeyStores /\ keys[d].identity \in Nat /\ keys[d].opkCounter \in Nat
  BY DEF TypeInv, DeviceOK, KeyStores
<1>2. UNCHANGED <<server, late, bounds>>
  BY DEF Status
<1>3. Extends(keys[d], keys[d])
  BY <1>1 DEF Extends
<1>4. ASSUME NEW event \in Replies, PublishNewIdentity(d, event)
      PROVE  DeviceStep(d) /\ lastIdentity' \in Nat
  <2> DEFINE spks == IF event = "reset" THEN {} ELSE keys[d].spks
             k == [keys[d] EXCEPT !.identity = lastIdentity + 1, !.opks = {}, !.spks = spks]
  <2>1. PublishBundle(d, event, k) /\ lastIdentity' = lastIdentity + 1 /\ lastIdentity \in Nat
    BY <1>4 DEF PublishNewIdentity, TypeInv
  <2>2. spks \subseteq [id : Nat, retired : Nat \cup {Never}]
    BY <1>1 DEF KeyStores
  <2> HIDE DEF spks
  <2>3. /\ k \in KeyStores /\ k.identity = lastIdentity + 1 /\ k.identity # NoIdentity
        /\ k.opkCounter = keys[d].opkCounter
    <3>1. lastIdentity + 1 \in Nat /\ lastIdentity + 1 # NoIdentity
      BY <2>1 DEF NoIdentity
    <3>2. k \in KeyStores
      BY <1>1, <2>2, <3>1 DEF KeyStores
    <3>3. k.identity = lastIdentity + 1 /\ k.opkCounter = keys[d].opkCounter
      BY <1>1 DEF KeyStores
    <3> QED
      BY <3>1, <3>2, <3>3
  <2> HIDE DEF k
  <2>4. DeviceOK /\ ServerOK /\ clock \in Nat
    BY DEF TypeInv, BoundsOK
  <2>5. /\ DeviceOK' /\ OthersKept(d) /\ JustSent(d)
        /\ keys'[d].identity = k.identity
    BY <2>1, <2>3, <2>4, PublishFacts
  <2> QED
    BY <1>2, <2>1, <2>3, <2>5 DEF DeviceStep, server
<1>5. ASSUME NEW s \in States, Finish(d, keys[d], s), lastIdentity' = lastIdentity
      PROVE  DeviceStep(d) /\ lastIdentity' \in Nat
  <2>1. /\ DeviceOK' /\ OthersKept(d) /\ step'[d] = "idle"
        /\ keys'[d].identity = keys[d].identity /\ keys'[d].opks = keys[d].opks
        /\ keys'[d].opkCounter = keys[d].opkCounter
    BY <1>1, <1>5, FinishFacts DEF TypeInv
  <2> QED
    BY <1>1, <1>5, <2>1 DEF DeviceStep, Extends, TypeInv
<1>6. ASSUME keys[d].identity # NoIdentity, PublishBundle(d, "publish", keys[d]),
             lastIdentity' = lastIdentity
      PROVE  DeviceStep(d) /\ lastIdentity' \in Nat
  <2>1. "publish" \in Replies /\ clock \in Nat /\ DeviceOK /\ ServerOK
    BY DEF Replies, TypeInv, BoundsOK
  <2>2. /\ DeviceOK' /\ OthersKept(d) /\ JustSent(d)
        /\ keys'[d].identity = keys[d].identity /\ keys[d].opks \subseteq keys'[d].opks
        /\ keys'[d].opkCounter >= keys[d].opkCounter
    BY <1>1, <1>6, <2>1, PublishFacts
  <2>3. keys'[d].opkCounter \in Nat
    BY <2>2 DEF DeviceOK, KeyStores
  <2> QED
    BY <1>1, <1>6, <2>2, <2>3 DEF DeviceStep, Extends, TypeInv
<1>7. ASSUME keys[d].identity # NoIdentity, MaintainKeys(d), lastIdentity' = lastIdentity
      PROVE  DeviceStep(d) /\ lastIdentity' \in Nat
  <2>1. StatusOf(bundle) \in [count : Nat, max : Nat]
    BY StatusOfType DEF TypeInv
  <2>2. CASE PruneAndTopUp(d, StatusOf(bundle))
    <3>1. /\ DeviceOK' /\ OthersKept(d) /\ Extends(keys[d], keys'[d])
          /\ step'[d] = "reply" => JustSent(d)
      <4>1. DeviceOK
        BY DEF TypeInv
      <4> QED
        BY <1>7, <2>1, <2>2, <4>1, PruneAndTopUpFacts
    <3> QED
      BY <1>7, <3>1 DEF DeviceStep, TypeInv
  <2>3. CASE ~PruneAndTopUp(d, StatusOf(bundle))
    <3> DEFINE k == WithSignedPreKey(keys[d])
               r == [event |-> "rotate", identity |-> k.identity, spk |-> k.spk,
                     after |-> 0, last |-> 0]
    <3>1. Send(d, k, r) /\ status' = [status EXCEPT ![d] = StatusOf(bundle)]
      BY <1>7, <2>3 DEF MaintainKeys
    <3>2. /\ k \in KeyStores /\ k.spk \in Nat /\ k.identity = keys[d].identity
          /\ k.opks = keys[d].opks /\ k.opkCounter = keys[d].opkCounter
      BY <1>1, SignedPreKeyFacts DEF TypeInv, BoundsOK
    <3> HIDE DEF k
    <3>3. r \in Requests /\ FullSize(r) /\ Ids(r) = {} /\ r.last = 0 /\ r.identity = k.identity
      BY <1>1, <3>2 DEF Requests, FullSize, Replies, Events, Ids
    <3> HIDE DEF r
    <3>4. status' \in [Devices -> [count : Nat, max : Nat]] /\ DeviceOK
      BY <2>1, <3>1 DEF TypeInv, DeviceOK
    <3>5. DeviceOK' /\ OthersKept(d) /\ keys'[d] = k /\ request'[d] = r
      BY <3>1, <3>2, <3>3, <3>4, SendFacts
    <3>6. JustSent(d)
      BY <1>1, <1>7, <3>2, <3>3, <3>5 DEF JustSent, Covered
    <3> QED
      BY <1>1, <1>7, <3>2, <3>5, <3>6 DEF DeviceStep, Extends, TypeInv
  <2> QED
    BY <2>2, <2>3
<1>8. DeviceStep(d) /\ lastIdentity' \in Nat
  BY <1>4, <1>5, <1>6, <1>7 DEF Status, Replies, States
<1>9. TypeInv'
  BY <1>2, <1>8 DEF TypeInv, DeviceStep, ServerOK, LateOK, BoundsOK, server, bounds
<1> QED
  BY <1>2, <1>8, <1>9 DEF Shape, server

\* The server handles the request that d waits for, and d goes on or has given up.
LEMMA ServeShape ==
  ASSUME TypeInv, IdentityInv, HeldInv, NEW d \in Devices, Serve(d)
  PROVE  Shape(d) /\ TypeInv'
<1>1. PICK ok \in BOOLEAN : Handle(request[d], ok) /\ Reply(d, ok)
  BY DEF Serve
<1>2. /\ step[d] = "reply" /\ keys[d].identity # NoIdentity
      /\ UNCHANGED <<late, lastIdentity, bounds>>
  BY DEF Serve, HeldInv
<1>3. /\ keys[d] \in KeyStores /\ keys[d].opkCounter \in Nat /\ keys \in [Devices -> KeyStores]
      /\ request[d] \in Requests /\ FullSize(request[d]) /\ DeviceOK
      /\ status[d] \in [count : Nat, max : Nat]
  BY DEF TypeInv, DeviceOK, KeyStores
<1>4. ServerOK' /\ Absorbed(request[d]) /\ served' = served /\ used' = used
  BY <1>1, <1>3, HandleFacts DEF TypeInv, IdentityInv
<1>5. DeviceOK' /\ OthersKept(d) /\ Extends(keys[d], keys'[d]) /\ (step'[d] = "reply" => JustSent(d))
  <2>1. CASE End(d) /\ UNCHANGED keys
    <3>1. keys' = [keys EXCEPT ![d] = keys[d]]
      BY <1>3, <2>1
    <3>2. DeviceOK' /\ OthersKept(d) /\ keys'[d] = keys[d] /\ step'[d] = "idle"
      BY <1>3, <2>1, <3>1, EndFacts
    <3> QED
      BY <1>3, <3>2 DEF Extends
  <2>2. CASE PruneAndTopUp(d, status[d])
    BY <1>2, <1>3, <2>2, PruneAndTopUpFacts
  <2>3. CASE Finish(d, keys[d], "ready")
    <3>1. "ready" \in States
      BY DEF States
    <3>2. /\ DeviceOK' /\ OthersKept(d) /\ step'[d] = "idle"
          /\ keys'[d].identity = keys[d].identity /\ keys'[d].opks = keys[d].opks
          /\ keys'[d].opkCounter = keys[d].opkCounter
      BY <1>3, <2>3, <3>1, FinishFacts
    <3> QED
      BY <1>3, <3>2 DEF Extends
  <2> QED
    BY <1>1, <2>1, <2>2, <2>3 DEF Reply
<1>6. TypeInv'
  BY <1>2, <1>4, <1>5 DEF TypeInv, LateOK, BoundsOK, bounds
<1> QED
  BY <1>2, <1>4, <1>5, <1>6 DEF Shape, DeviceStep

\* d gives up, while its request is lost, handled all the same, or late.
LEMMA LostShape ==
  ASSUME TypeInv, IdentityInv, HeldInv, NEW d \in Devices,
         LoseRequest(d) \/ LoseReply(d) \/ Delay(d)
  PROVE  Shape(d) /\ TypeInv'
<1>1. GiveUp(d)
  BY DEF LoseRequest, LoseReply, Delay
<1>2. /\ End(d) /\ lost' = lost + 1
      /\ UNCHANGED <<keys, lastIdentity, clock, resets, wipes>>
  BY <1>1 DEF GiveUp
<1>3. /\ keys[d] \in KeyStores /\ keys[d].opkCounter \in Nat /\ keys \in [Devices -> KeyStores]
      /\ request[d] \in Requests /\ FullSize(request[d]) /\ DeviceOK
  BY DEF TypeInv, DeviceOK, KeyStores
<1>4. DeviceOK' /\ OthersKept(d) /\ keys'[d] = keys[d] /\ step'[d] = "idle"
  <2>1. keys' = [keys EXCEPT ![d] = keys[d]]
    BY <1>2, <1>3
  <2> QED
    BY <1>2, <1>3, <2>1, EndFacts
<1>5. DeviceStep(d)
  BY <1>2, <1>3, <1>4 DEF DeviceStep, Extends
<1>6. BoundsOK' /\ lastIdentity' \in Nat
  BY <1>2 DEF TypeInv, BoundsOK
<1>7. CASE LoseRequest(d)
  <2>1. UNCHANGED <<server, late>>
    BY <1>7 DEF LoseRequest
  <2> QED
    BY <1>4, <1>5, <1>6, <2>1 DEF Shape, TypeInv, ServerOK, LateOK, server
<1>8. CASE LoseReply(d)
  <2>1. PICK ok \in BOOLEAN : Handle(request[d], ok)
    BY <1>8 DEF LoseReply
  <2>2. ServerOK' /\ Absorbed(request[d]) /\ served' = served /\ used' = used
    BY <1>3, <2>1, HandleFacts DEF TypeInv, IdentityInv
  <2>3. step[d] = "reply" /\ late' = late
    BY <1>8 DEF LoseReply
  <2> QED
    BY <1>4, <1>5, <1>6, <2>2, <2>3 DEF Shape, TypeInv, LateOK
<1>9. CASE Delay(d)
  <2>1. step[d] = "reply" /\ late' = late \cup {request[d]} /\ UNCHANGED server
    BY <1>9 DEF Delay
  <2>2. LateOK'
    BY <1>3, <2>1 DEF TypeInv, LateOK
  <2> QED
    BY <1>4, <1>5, <1>6, <2>1, <2>2 DEF Shape, TypeInv, ServerOK, server
<1> QED
  BY <1>7, <1>8, <1>9

\* Every step of a device has it.
LEMMA OperateShape ==
  ASSUME TypeInv, IdentityInv, HeldInv, NEW d \in Devices, Operate(d)
  PROVE  Shape(d) /\ TypeInv'
  BY StartShape, StatusShape, ServeShape, LostShape DEF Operate

-----------------------------------------------------------------------------
(* The shape keeps the invariant                                           *)

\* What every part of the proof below uses.
LEMMA ShapeFacts ==
  ASSUME TypeInv, TypeInv', KeyInv, NEW d \in Devices, Shape(d)
  PROVE  /\ \A e \in Devices : keys[e].identity \in Nat /\ keys[e].opkCounter \in Nat
         /\ \A e \in Devices : keys'[e].identity \in Nat /\ keys'[e].opkCounter \in Nat
         /\ lastIdentity \in Nat /\ lastIdentity' \in {lastIdentity, lastIdentity + 1}
         /\ bundle.identity \in Nat /\ bundle'.identity \in Nat
         /\ \A k \in bundle.opks \cup bundle'.opks \cup served : k \in AnyKey
         /\ \A r \in late \cup late' : r \in Requests
         /\ \A e \in Devices : request[e] \in Requests /\ request'[e] \in Requests
  BY DEF TypeInv, DeviceOK, ServerOK, LateOK, KeyStores, Bundles, Shape, DeviceStep

\* A key that is offered after the step was offered before, or d's request brought it.
LEMMA ShapeBundle ==
  ASSUME KeyInv, NEW d \in Devices, Shape(d)
  PROVE  /\ bundle'.identity = bundle.identity
              \/ (step[d] = "reply" /\ bundle'.identity = request[d].identity)
         /\ \A k \in bundle'.opks :
              /\ k.by = bundle'.identity
              /\ \/ k \in bundle.opks
                 \/ step[d] = "reply" /\ k.by = request[d].identity /\ k.id \in Ids(request[d])
  BY DEF KeyInv, IdentityInv, Shape, Absorbed

\* A request is late only once its device has given it up and the server has not handled it.
LEMMA ShapeLate ==
  ASSUME NEW d \in Devices, Shape(d)
  PROVE  \A r \in late' :
           r \in late \/ (/\ step[d] = "reply" /\ step'[d] # "reply" /\ r = request[d]
                          /\ bundle' = bundle)
  BY DEF Shape

\* Identities stay those that were generated, each of one device.
LEMMA IdentityKept ==
  ASSUME TypeInv, TypeInv', KeyInv, NEW d \in Devices, Shape(d)
  PROVE  IdentityInv'
<1>1. step[d] = "reply" => request[d].identity \in 1 .. lastIdentity
  BY ShapeFacts DEF KeyInv, IdentityInv, HeldInv, NoIdentity
<1>2. bundle'.identity <= lastIdentity'
  BY <1>1, ShapeFacts, ShapeBundle DEF KeyInv, IdentityInv
<1>3. \A e \in Devices : keys'[e].identity <= lastIdentity'
  BY ShapeFacts DEF KeyInv, IdentityInv, Shape, DeviceStep, OthersKept, Extends
<1>4. \A e, f \in Devices :
        e # f /\ keys'[e].identity = keys'[f].identity => keys'[e].identity = NoIdentity
  <2>1. CASE lastIdentity' = lastIdentity /\ Extends(keys[d], keys'[d])
    BY <2>1 DEF KeyInv, IdentityInv, Shape, DeviceStep, OthersKept, Extends
  <2>2. CASE lastIdentity' = lastIdentity + 1 /\ keys'[d].identity = lastIdentity'
    BY <2>2, ShapeFacts DEF KeyInv, IdentityInv, Shape, DeviceStep, OthersKept
  <2> QED
    BY <2>1, <2>2 DEF Shape, DeviceStep
<1>5. \A k \in bundle'.opks : k.by = bundle'.identity
  BY ShapeBundle
<1>6. \A k \in bundle'.opks \cup served' : k.by \in 1 .. lastIdentity'
  <2> SUFFICES ASSUME NEW k \in bundle'.opks \cup served' PROVE k.by \in 1 .. lastIdentity
    BY ShapeFacts
  <2> QED
    BY <1>1, ShapeBundle DEF KeyInv, IdentityInv, Shape
<1>7. \A r \in late' : r.identity \in 1 .. lastIdentity'
  <2> SUFFICES ASSUME NEW r \in late' PROVE r.identity \in 1 .. lastIdentity
    BY ShapeFacts
  <2> QED
    BY <1>1, ShapeLate DEF KeyInv, IdentityInv
<1> QED
  BY <1>2, <1>3, <1>4, <1>5, <1>6, <1>7 DEF IdentityInv

\* What is known of a device's identity stays true: of another device nothing changes,
\* and a new identity of d was never used.
LEMMA HeldKept ==
  ASSUME TypeInv, TypeInv', KeyInv, NEW d \in Devices, Shape(d)
  PROVE  HeldInv'
<1> SUFFICES ASSUME NEW e \in Devices
             PROVE  /\ step'[e] = "reply" =>
                         /\ request'[e].identity = keys'[e].identity
                         /\ keys'[e].identity # NoIdentity
                         /\ Covered(keys'[e], request'[e])
                    /\ \A r \in late' : Covered(keys'[e], r)
                    /\ \A k \in bundle'.opks \cup served' :
                         k.by = keys'[e].identity => k.id <= keys'[e].opkCounter
                    /\ \A k \in bundle'.opks :
                         k.by = keys'[e].identity => k.id \in keys'[e].opks
  BY DEF HeldInv, Covered, Ids
<1>1. CASE keys'[e].identity = lastIdentity + 1
  <2>1. e = d
    BY <1>1, ShapeFacts DEF Shape, DeviceStep, OthersKept, KeyInv, IdentityInv
  <2>2. bundle' = bundle /\ late' = late /\ served' = served
    BY <1>1, <2>1, ShapeFacts DEF Shape, DeviceStep, KeyInv, IdentityInv, Extends
  <2>3. /\ \A k \in bundle'.opks \cup served' : k.by # keys'[e].identity
        /\ \A r \in late' : r.identity # keys'[e].identity
    BY <1>1, <2>2, ShapeFacts DEF KeyInv, IdentityInv
  <2> QED
    BY <2>1, <2>3 DEF Covered, Shape, DeviceStep, JustSent
<1>2. CASE keys'[e].identity # lastIdentity + 1
  <2>1. Extends(keys[e], keys'[e])
    BY <1>2, ShapeFacts DEF Shape, DeviceStep, OthersKept, Extends
  <2>2. \A r \in Requests : Covered(keys[e], r) => Covered(keys'[e], r)
    BY <2>1, ShapeFacts DEF Covered, Extends, Requests
  <2>3. \A r \in late : Covered(keys'[e], r)
    BY <2>2, ShapeFacts DEF KeyInv, HeldInv
  <2>4. step[d] = "reply" => Covered(keys'[e], request[d])
    <3>1. CASE e = d
      BY <2>2, <3>1, ShapeFacts DEF KeyInv, HeldInv
    <3>2. CASE e # d
      BY <2>1, <3>2 DEF Covered, Extends, KeyInv, HeldInv, IdentityInv
    <3> QED
      BY <3>1, <3>2
  <2>5. \A r \in late' : Covered(keys'[e], r)
    BY <2>3, <2>4, ShapeLate
  <2>6. ASSUME NEW k \in bundle.opks \cup served, k.by = keys'[e].identity
        PROVE  /\ k.id <= keys'[e].opkCounter
               /\ k \in bundle.opks => k.id \in keys'[e].opks
    <3>1. k.id \in Nat /\ k.by = keys[e].identity
      BY <2>1, <2>6, ShapeFacts DEF AnyKey, Extends
    <3> QED
      BY <2>1, <3>1, ShapeFacts DEF KeyInv, HeldInv, Extends
  <2>7. ASSUME NEW k \in bundle'.opks, k \notin bundle.opks, k.by = keys'[e].identity
        PROVE  k.id <= keys'[e].opkCounter /\ k.id \in keys'[e].opks
    <3>1. step[d] = "reply" /\ k.by = request[d].identity /\ k.id \in Ids(request[d])
      BY <2>7, ShapeBundle
    <3>2. k.id <= request[d].last
      BY <3>1, IdsFacts, ShapeFacts
    <3>3. k.id \in Nat /\ request[d].last \in Nat
      BY <2>7, ShapeFacts DEF AnyKey, Requests
    <3> QED
      BY <2>4, <2>7, <3>1, <3>2, <3>3, ShapeFacts DEF Covered
  <2>8. step'[e] = "reply" =>
          /\ request'[e].identity = keys'[e].identity /\ keys'[e].identity # NoIdentity
          /\ Covered(keys'[e], request'[e])
    BY DEF Shape, DeviceStep, OthersKept, JustSent, KeyInv, HeldInv
  <2> QED
    BY <2>5, <2>6, <2>7, <2>8 DEF Shape
<1> QED
  BY <1>1, <1>2

\* What is under way stays unused, and nothing is offered that was served.
LEMMA UnusedKept ==
  ASSUME TypeInv, TypeInv', KeyInv, NEW d \in Devices, Shape(d)
  PROVE  UnusedInv' /\ ServedOnce'
<1>1. \A k \in bundle'.opks \cup served' :
        \/ k \in bundle.opks \cup served
        \/ step[d] = "reply" /\ k.by = request[d].identity /\ k.id \in Ids(request[d])
  BY ShapeBundle DEF Shape
<1>2. \A r \in late : step[d] = "reply" => Disjoint(request[d], r)
  BY DEF KeyInv, UnusedInv
<1>3. ASSUME NEW e \in Devices, e # d, step[d] = "reply", step[e] = "reply"
      PROVE  request[e].identity # request[d].identity
  BY <1>3 DEF KeyInv, HeldInv, IdentityInv
<1>4. ASSUME step'[d] = "reply", NEW n \in Ids(request'[d])
      PROVE  /\ \A k \in bundle'.opks \cup served' :
                  k.by = request'[d].identity => k.id # n
             /\ \A r \in late' : r.identity = request'[d].identity => n \notin Ids(r)
  <2>1. /\ request'[d].identity = keys'[d].identity /\ keys'[d].identity # NoIdentity
        /\ n > keys[d].opkCounter /\ n \in Nat
    BY <1>4, ShapeFacts, IdsFacts DEF Shape, DeviceStep, JustSent
  <2>2. CASE keys'[d].identity = keys[d].identity
    <3>1. \A k \in bundle.opks \cup served :
            k.by = keys[d].identity => k.id <= keys[d].opkCounter
      BY DEF KeyInv, HeldInv
    <3>2. step[d] = "reply" => request[d].last <= keys[d].opkCounter
      BY DEF KeyInv, HeldInv, Covered
    <3>3. \A r \in late' : r \in late
      BY <1>4, ShapeLate
    <3>4. \A r \in late : r.identity = keys[d].identity => r.last <= keys[d].opkCounter
      BY DEF KeyInv, HeldInv, Covered
    <3>5. \A r \in late : r.identity = keys[d].identity => n \notin Ids(r)
      BY <2>1, <3>4, ShapeFacts DEF Requests, Ids
    <3>6. step[d] = "reply" => n \notin Ids(request[d])
      BY <2>1, <3>2, ShapeFacts DEF Requests, Ids
    <3> QED
      BY <1>1, <2>1, <2>2, <3>1, <3>3, <3>5, <3>6, ShapeFacts DEF AnyKey
  <2>3. CASE keys'[d].identity # keys[d].identity
    <3>1. keys'[d].identity = lastIdentity + 1 /\ bundle' = bundle /\ late' = late
      BY <2>3 DEF Shape, DeviceStep, Extends
    <3> QED
      BY <2>1, <3>1, ShapeFacts DEF KeyInv, IdentityInv, Shape
  <2> QED
    BY <2>2, <2>3
<1>5. ASSUME NEW r \in late' PROVE \A k \in bundle'.opks \cup served' : k.by = r.identity => k.id \notin Ids(r)
  <2>1. CASE r \in late
    BY <1>1, <1>2, <2>1 DEF KeyInv, UnusedInv, Unused, Disjoint
  <2>2. CASE r \notin late
    BY <1>5, <2>2, ShapeLate DEF KeyInv, UnusedInv, Unused, Shape
  <2> QED
    BY <2>1, <2>2
<1>6. ASSUME NEW e \in Devices, step'[e] = "reply"
      PROVE  \A k \in bundle'.opks \cup served' :
               k.by = request'[e].identity => k.id \notin Ids(request'[e])
  <2>1. CASE e = d
    BY <1>4, <1>6, <2>1
  <2>2. CASE e # d
    BY <1>1, <1>3, <1>6, <2>2 DEF KeyInv, UnusedInv, Unused, Shape, DeviceStep, OthersKept
  <2> QED
    BY <2>1, <2>2
<1>7. ASSUME NEW r \in late', NEW s \in late', r # s PROVE Disjoint(r, s)
  BY <1>2, <1>7, ShapeLate DEF KeyInv, UnusedInv, Disjoint
<1>8. ASSUME NEW e \in Devices, NEW r \in late', step'[e] = "reply"
      PROVE  Disjoint(request'[e], r)
  <2>1. CASE e = d
    BY <1>4, <1>8, <2>1 DEF Disjoint
  <2>2. CASE e # d
    BY <1>3, <1>8, <2>2, ShapeLate
       DEF KeyInv, UnusedInv, Disjoint, Shape, DeviceStep, OthersKept
  <2> QED
    BY <2>1, <2>2
<1>9. UnusedInv'
  BY <1>5, <1>6, <1>7, <1>8 DEF UnusedInv, Unused, Disjoint, Ids
<1>10. ServedOnce'
  <2> SUFFICES ASSUME NEW k \in bundle'.opks, k \in served PROVE FALSE
    BY DEF ServedOnce, Shape
  <2>1. k \notin bundle.opks
    BY DEF KeyInv, ServedOnce
  <2>2. step[d] = "reply" /\ k.by = request[d].identity /\ k.id \in Ids(request[d])
    BY <2>1, ShapeBundle
  <2> QED
    BY <2>2 DEF KeyInv, UnusedInv, Unused
<1> QED
  BY <1>9, <1>10

-----------------------------------------------------------------------------
(* Peers, lost bundles and late requests                                   *)

\* A peer takes at most one one-time prekey, from the offer to the served.
LEMMA FetchKept ==
  ASSUME TypeInv, KeyInv, FetchBundle
  PROVE  TypeInv' /\ KeyInv'
<1>1. UNCHANGED <<accepted, device, late, bounds>>
  BY DEF FetchBundle
<1>2. /\ bundle' \in Bundles /\ bundle'.identity = bundle.identity
      /\ bundle'.opks \subseteq bundle.opks
      /\ served \subseteq served' /\ served' \subseteq served \cup bundle.opks
      /\ served' \cap bundle'.opks = {}
  <2>1. CASE UNCHANGED <<bundle, served>>
    BY <2>1 DEF TypeInv, ServerOK, KeyInv, ServedOnce
  <2>2. CASE ~UNCHANGED <<bundle, served>>
    <3>1. PICK k \in First(bundle.opks) :
            /\ bundle' = [bundle EXCEPT !.opks = @ \ {k}]
            /\ served' = served \cup {k}
      BY <2>2 DEF FetchBundle
    <3>2. k \in bundle.opks
      BY DEF First
    <3>3. /\ bundle' \in Bundles /\ bundle'.identity = bundle.identity
          /\ bundle'.opks = bundle.opks \ {k}
      BY <3>1 DEF TypeInv, ServerOK, Bundles
    <3> QED
      BY <3>1, <3>2, <3>3 DEF KeyInv, ServedOnce
  <2> QED
    BY <2>1, <2>2
<1>3. IsFiniteSet(bundle'.opks) /\ Cardinality(bundle'.opks) <= MaxOpks
  <2>1. IsFiniteSet(bundle.opks) /\ Cardinality(bundle.opks) <= MaxOpks
    BY DEF TypeInv, ServerOK
  <2>2. IsFiniteSet(bundle'.opks) /\ Cardinality(bundle'.opks) <= Cardinality(bundle.opks)
    BY <1>2, <2>1, FS_Subset
  <2>3. Cardinality(bundle'.opks) \in Nat /\ Cardinality(bundle.opks) \in Nat
    BY <2>1, <2>2, FS_CardinalityType
  <2> QED
    BY <2>1, <2>2, <2>3, ConstantsAssumption
<1>4. TypeInv'
  <2>1. used' \subseteq [key : AnyKey, at : Nat]
    BY DEF FetchBundle, TypeInv, ServerOK, Bundles, BoundsOK
  <2>2. served' \subseteq AnyKey
    BY <1>2 DEF TypeInv, ServerOK, Bundles
  <2>3. DeviceOK' /\ LateOK' /\ BoundsOK'
    BY <1>1 DEF TypeInv, DeviceOK, LateOK, BoundsOK, device, bounds
  <2> QED
    BY <1>1, <1>2, <1>3, <2>1, <2>2, <2>3 DEF TypeInv, ServerOK, device
<1>5. \A k \in bundle'.opks \cup served' : k \in bundle.opks \cup served
  BY <1>2
<1>6. IdentityInv'
  BY <1>1, <1>2, <1>5 DEF KeyInv, IdentityInv, device
<1>7. HeldInv'
  BY <1>1, <1>2, <1>5 DEF KeyInv, HeldInv, Covered, Ids, device
<1>8. UnusedInv'
  BY <1>1, <1>5 DEF KeyInv, UnusedInv, Unused, Disjoint, Ids, device
<1> QED
  BY <1>2, <1>4, <1>6, <1>7, <1>8 DEF KeyInv, ServedOnce

\* A wiped bundle offers nothing.
LEMMA RemoveKept ==
  ASSUME TypeInv, KeyInv, RemoveBundle
  PROVE  TypeInv' /\ KeyInv'
<1>1. /\ bundle' = NoBundle /\ wipes' = wipes + 1
      /\ UNCHANGED <<served, used, accepted, device, late, clock, resets, lost>>
  BY DEF RemoveBundle
<1>2. /\ NoBundle \in Bundles /\ NoBundle.opks = {} /\ NoBundle.identity = 0
  BY DEF NoBundle, Bundles, NoIdentity, Key, AnyKey
<1>3. IsFiniteSet(bundle'.opks) /\ Cardinality(bundle'.opks) <= MaxOpks
  BY <1>1, <1>2, FS_EmptySet, ConstantsAssumption
<1>4. TypeInv'
  <2>1. DeviceOK' /\ LateOK' /\ BoundsOK'
    BY <1>1 DEF TypeInv, DeviceOK, LateOK, BoundsOK, device
  <2> QED
    BY <1>1, <1>2, <1>3, <2>1 DEF TypeInv, ServerOK, device
<1>5. lastIdentity \in Nat
  BY DEF TypeInv
<1>6. IdentityInv'
  BY <1>1, <1>2, <1>5 DEF KeyInv, IdentityInv, device
<1>7. HeldInv'
  BY <1>1, <1>2 DEF KeyInv, HeldInv, Covered, Ids, device
<1>8. UnusedInv'
  BY <1>1, <1>2 DEF KeyInv, UnusedInv, Unused, Disjoint, Ids, device
<1> QED
  BY <1>1, <1>2, <1>4, <1>6, <1>7, <1>8 DEF KeyInv, ServedOnce

\* A late request is handled like one on time, without its device.
LEMMA LateKept ==
  ASSUME TypeInv, KeyInv, ServeLate
  PROVE  TypeInv' /\ KeyInv'
<1>1. PICK r \in late : /\ late' = late \ {r}
                        /\ \E ok \in BOOLEAN : Handle(r, ok)
                        /\ UNCHANGED <<device, bounds>>
  BY DEF ServeLate
<1>2. PICK ok \in BOOLEAN : Handle(r, ok)
  BY <1>1
<1>3. /\ r \in Requests /\ FullSize(r) /\ ServerOK
      /\ \A k \in bundle.opks : k.by = bundle.identity
  BY DEF TypeInv, LateOK, KeyInv, IdentityInv
<1>4. ServerOK' /\ Absorbed(r) /\ served' = served /\ used' = used
  BY <1>2, <1>3, HandleFacts
<1>5. TypeInv'
  <2>1. DeviceOK' /\ LateOK' /\ BoundsOK'
    BY <1>1 DEF TypeInv, DeviceOK, LateOK, BoundsOK, device, bounds
  <2> QED
    BY <1>1, <1>4, <2>1 DEF TypeInv, device
<1>6. r.identity \in 1 .. lastIdentity
  BY DEF KeyInv, IdentityInv
<1>7. \A k \in bundle'.opks \cup served' :
        k \in bundle.opks \cup served \/ (k.by = r.identity /\ k.id \in Ids(r))
  BY <1>4 DEF Absorbed
<1>8. IdentityInv'
  BY <1>1, <1>4, <1>6, <1>7 DEF KeyInv, IdentityInv, Absorbed, device, TypeInv
<1>9. HeldInv'
  <2> SUFFICES ASSUME NEW d \in Devices
               PROVE  /\ \A k \in bundle'.opks \cup served' :
                           k.by = keys[d].identity => k.id <= keys[d].opkCounter
                      /\ \A k \in bundle'.opks : k.by = keys[d].identity => k.id \in keys[d].opks
    BY <1>1 DEF KeyInv, HeldInv, Covered, Ids, device
  <2>1. Covered(keys[d], r)
    BY DEF KeyInv, HeldInv
  <2>2. \A n \in Ids(r) : n <= r.last /\ n \in Nat
    BY <1>3, IdsFacts
  <2>3. r.last \in Nat /\ keys[d].opkCounter \in Nat
    BY <1>3 DEF TypeInv, DeviceOK, KeyStores, Requests
  <2>4. \A k \in bundle'.opks : k \in bundle.opks \/ (k.by = r.identity /\ k.id \in Ids(r))
    BY <1>4 DEF Absorbed
  <2> QED
    BY <1>7, <2>1, <2>2, <2>3, <2>4 DEF KeyInv, HeldInv, Covered
<1>10. UnusedInv'
  <2>1. ASSUME NEW s \in late'
        PROVE  \A k \in bundle'.opks \cup served' : k.by = s.identity => k.id \notin Ids(s)
    BY <1>1, <1>7, <2>1 DEF KeyInv, UnusedInv, Unused, Disjoint
  <2>2. ASSUME NEW d \in Devices, step[d] = "reply"
        PROVE  \A k \in bundle'.opks \cup served' :
                 k.by = request[d].identity => k.id \notin Ids(request[d])
    BY <1>7, <2>2 DEF KeyInv, UnusedInv, Unused, Disjoint
  <2> QED
    BY <1>1, <2>1, <2>2 DEF KeyInv, UnusedInv, Unused, Disjoint, Ids, device
<1>11. ServedOnce'
  <2> SUFFICES ASSUME NEW k \in bundle'.opks, k \in served PROVE FALSE
    BY <1>4 DEF ServedOnce
  <2>1. k \notin bundle.opks
    BY DEF KeyInv, ServedOnce
  <2>2. k.by = r.identity /\ k.id \in Ids(r)
    BY <1>4, <2>1 DEF Absorbed
  <2> QED
    BY <2>2 DEF KeyInv, UnusedInv, Unused
<1> QED
  BY <1>5, <1>8, <1>9, <1>10, <1>11 DEF KeyInv

-----------------------------------------------------------------------------
(* Theorems                                                                *)

\* No keys, no bundle, no request.
LEMMA InitKept ==
  ASSUME Init
  PROVE  TypeInv /\ KeyInv
<1>1. /\ NoBundle \in Bundles /\ NoBundle.opks = {} /\ NoBundle.identity = 0
  BY DEF NoBundle, Bundles, NoIdentity, Key, AnyKey
<1>2. IsFiniteSet(bundle.opks) /\ Cardinality(bundle.opks) <= MaxOpks
  BY <1>1, FS_EmptySet, ConstantsAssumption DEF Init
<1>3. NoKeys \in KeyStores /\ NoKeys.identity = 0 /\ NoIdentity = 0
  BY DEF NoKeys, KeyStores, States, NoIdentity
<1>4. NoRequest \in Requests /\ FullSize(NoRequest) /\ NoStatus \in [count : Nat, max : Nat]
  BY DEF NoRequest, Requests, Events, NoIdentity, FullSize, Replies, NoStatus
<1>5. TypeInv
  BY <1>1, <1>2, <1>3, <1>4
     DEF Init, TypeInv, ServerOK, DeviceOK, LateOK, BoundsOK, Steps
<1>6. KeyInv
  BY <1>1, <1>3 DEF Init, KeyInv, IdentityInv, HeldInv, UnusedInv, ServedOnce
<1> QED
  BY <1>5, <1>6

\* TypeInv and KeyInv together are inductive.
THEOREM KeysInvariant == Spec => [](TypeInv /\ KeyInv)
<1>1. ASSUME TypeInv, KeyInv, [Next]_vars PROVE TypeInv' /\ KeyInv'
  <2>1. ASSUME NEW d \in Devices, Operate(d) PROVE TypeInv' /\ KeyInv'
    <3>1. Shape(d) /\ TypeInv'
      BY <1>1, <2>1, OperateShape DEF KeyInv
    <3> QED
      BY <1>1, <3>1, IdentityKept, HeldKept, UnusedKept DEF KeyInv
  <2>2. CASE FetchBundle
    BY <1>1, <2>2, FetchKept
  <2>3. CASE RemoveBundle
    BY <1>1, <2>3, RemoveKept
  <2>4. CASE ServeLate
    BY <1>1, <2>4, LateKept
  <2>5. CASE Tick \/ UNCHANGED vars
    <3>1. /\ UNCHANGED <<server, device, late>>
          /\ clock' \in Nat /\ UNCHANGED <<resets, lost, wipes>>
      BY <1>1, <2>5 DEF Tick, TypeInv, BoundsOK, vars, bounds
    <3>2. TypeInv'
      BY <1>1, <3>1
         DEF TypeInv, ServerOK, DeviceOK, LateOK, BoundsOK, server, device
    <3>3. KeyInv'
      BY <1>1, <3>1
         DEF KeyInv, IdentityInv, HeldInv, UnusedInv, ServedOnce, Covered, Unused, Disjoint,
             Ids, server, device
    <3> QED
      BY <3>2, <3>3
  <2> QED
    BY <1>1, <2>1, <2>2, <2>3, <2>4, <2>5 DEF Next
<1>2. Init => TypeInv /\ KeyInv
  BY InitKept
<1> QED
  BY <1>1, <1>2, PTL DEF Spec

\* The bundle, the key stores and the requests keep their shape, and the pool its limit.
THEOREM KeysTyped == Spec => []TypeOK
<1>1. TypeInv => TypeOK
  BY DEF TypeInv, ServerOK, DeviceOK, LateOK, BoundsOK, TypeOK
<1> QED
  BY <1>1, KeysInvariant, PTL

\* No one-time prekey that was handed out is ever offered again.
THEOREM PreKeyServedOnce == Spec => []ServedOnce
<1>1. KeyInv => ServedOnce
  BY DEF KeyInv
<1> QED
  BY <1>1, KeysInvariant, PTL

\* Every one-time prekey that is offered can be decrypted by the device it belongs to.
THEOREM OneTimeKeysAreHeld == Spec => []OneTimeKeysHeld
<1>1. TypeInv /\ KeyInv => OneTimeKeysHeld
  <2> SUFFICES ASSUME TypeInv, KeyInv, NEW d \in Devices, keys[d].identity = bundle.identity,
                      NEW k \in bundle.opks
               PROVE  k \in KeysOf(keys[d].identity, keys[d].opks)
    BY DEF OneTimeKeysHeld
  <2>1. k \in AnyKey /\ k.by = keys[d].identity /\ k.id \in keys[d].opks
    BY DEF TypeInv, ServerOK, Bundles, KeyInv, IdentityInv, HeldInv
  <2>2. k = Key(k.by, k.id)
    BY <2>1 DEF AnyKey, Key
  <2> QED
    BY <2>1, <2>2 DEF KeysOf
<1> QED
  BY <1>1, KeysInvariant, PTL
=============================================================================
