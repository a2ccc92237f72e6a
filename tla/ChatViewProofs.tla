--------------------------- MODULE ChatViewProofs ---------------------------
(***************************************************************************)
(* Theorems about ChatView, for any number of messages, epochs, identities *)
(* and faults, and windows and pages of any size.                          *)
(***************************************************************************)
EXTENDS ChatView, WellFoundedInduction, FiniteSetTheorems, TLAPS

Message == [dir : Dirs, epoch : 1 .. MaxEpochs, key : 1 .. MaxKeys]
Run == [pc : {"idle", "fetch", "catchup", "render", "move", "history", "banner"},
        todo : SUBSET Nat, epoch : Nat, until : Nat, after : Nat, page : SUBSET Nat, more : BOOLEAN]

ServerOK ==
  /\ msgs \in Seq(Message) /\ inserted \subseteq Drawn /\ sent \subseteq inserted
  /\ lastEpoch \in 0 .. MaxEpochs /\ epoch \in {0, lastEpoch} /\ key \in 1 .. MaxKeys
  /\ \A s \in Drawn : msgs[s].epoch <= lastEpoch /\ msgs[s].key <= key

\* A message of this device is in the outbox or in the history, or was removed from them.
DbOK ==
  /\ history \subseteq Drawn /\ removed \subseteq Drawn /\ outbox \subseteq Drawn
  /\ \A s \in Drawn : (s \in outbox => ~In(s) /\ s \notin Known)
                      /\ (msgs[s].dir = "out" => s \in outbox \cup Known)
  /\ cursor \in [epoch : 0 .. lastEpoch, seq : 0 .. Len(msgs)]
  /\ trusted \in 0 .. key /\ pending \in 0 .. key

ScreenOK ==
  /\ live \in {"off", "read", "live"} /\ stage \in {"none", "opening", "keys", "open", "closed"}
  /\ OwnTextShown /\ unavailable \subseteq shown
  /\ shown \subseteq entries /\ entries \subseteq inserted
  /\ first \in Nat /\ pageEpoch \in Nat

\* The entry in hand is an own one while it is looked for: one of this device that is not in
\* the outbox has left it.
RunOK ==
  /\ run \in Run /\ run.todo \subseteq Drawn /\ run.page \subseteq Drawn
  /\ run.pc \in {"move", "history"} => run.todo # {} /\ ~In(Entry)
  /\ run.pc = "history" => (msgs[Entry].dir = "out" => Entry \in Known)

\* A banner that is due has a key to show: one was trusted before another came.
TrustOK ==
  /\ blocked \in BOOLEAN /\ bannerDue \in BOOLEAN /\ approving \in BOOLEAN
  /\ banner \in 0 .. key
  /\ bannerDue => trusted # 0
  /\ blocked => banner # 0 \/ bannerDue

Inv == ServerOK /\ DbOK /\ ScreenOK /\ RunOK /\ TrustOK

-----------------------------------------------------------------------------
(* Sets of messages                                                        *)

\* A set of messages that is not empty has a first one,
LEMMA LeastIn ==
  ASSUME NEW S \in SUBSET Nat, S # {}
  PROVE  Least(S) \in S /\ \A r \in S : Least(S) <= r
  <1> DEFINE R == {ss \in Nat \X Nat : ss[1] < ss[2]}
  <1>1. IsWellFoundedOn(R, Nat)
    BY NatLessThanWellFounded DEF OpToRel
  <1>2. \E m \in S : \A n \in S : <<n, m>> \notin R
    <2> HIDE DEF R
    <2> QED  BY <1>1, WFMin
  <1>3. PICK m \in S : \A n \in S : ~(n < m)
    BY <1>2
  <1>4. \A n \in S : m <= n
    BY <1>3
  <1>5. \E x \in S : \A r \in S : x <= r
    BY <1>4
  <1> QED  BY <1>5, Zenon DEF Least

\* and, being among those drawn, a last one.
LEMMA GreatestIn ==
  ASSUME NEW n \in Nat, NEW S \in SUBSET (1 .. n), S # {}
  PROVE  \E s \in S : \A r \in S : r <= s
  <1> DEFINE T == {n - s : s \in S}
  <1>0. \A s \in S : s \in Nat /\ s <= n /\ n - s \in Nat
    OBVIOUS
  <1>1. T \in SUBSET Nat /\ T # {}
    BY <1>0
  <1>2. PICK m \in T : \A k \in T : m <= k
    <2> HIDE DEF T
    <2>1. Least(T) \in T /\ \A k \in T : Least(T) <= k
      BY <1>1, LeastIn
    <2> QED  BY <2>1
  <1>3. PICK s \in S : m = n - s
    BY <1>2
  <1>4. \A r \in S : r <= s
    <2> TAKE r \in S
    <2>1. n - s <= n - r
      BY <1>2, <1>3
    <2>2. r \in Nat /\ s \in Nat
      BY <1>0
    <2> QED  BY <2>1, <2>2
  <1> QED  BY <1>4

\* Messages drawn are numbers, and what is stored, read or in hand was drawn.
LEMMA Sets ==
  ASSUME Inv
  PROVE  /\ Len(msgs) \in Nat /\ Drawn = 1 .. Len(msgs) /\ Drawn \subseteq Nat
         /\ \A s \in Drawn : msgs[s] \in Message
         /\ \A e \in Nat : Stored(e) \subseteq inserted
         /\ Last(Window, Stored(epoch)) \subseteq inserted
         /\ Page \subseteq Drawn
         /\ run.todo # {} => Entry \in run.todo /\ Entry \in Drawn
         /\ run.page # {} => Least(run.page) \in run.page /\ Least(run.page) \in Drawn
  <1>1. Len(msgs) \in Nat /\ Drawn = 1 .. Len(msgs) /\ Drawn \subseteq Nat
    BY DEF Inv, ServerOK, Drawn
  <1>2. \A s \in Drawn : msgs[s] \in Message
    BY DEF Inv, ServerOK, Drawn
  <1>3. \A e \in Nat : Stored(e) \subseteq inserted
    BY DEF Stored
  <1>4. Last(Window, Stored(epoch)) \subseteq inserted
    BY DEF Last, Stored
  <1>5. Page \subseteq Drawn
    BY DEF Page, First, Stored, Inv, ServerOK
  <1>6. run.todo # {} => Entry \in run.todo /\ Entry \in Drawn
    BY LeastIn DEF Inv, RunOK, Run, Entry
  <1>7. run.page # {} => Least(run.page) \in run.page /\ Least(run.page) \in Drawn
    BY LeastIn DEF Inv, RunOK, Run
  <1> QED  BY <1>1, <1>2, <1>3, <1>4, <1>5, <1>6, <1>7

-----------------------------------------------------------------------------
(* The server                                                              *)

\* A message drawn is new to the browser, but one of this device is in the outbox.
LEMMA DrawKept ==
  ASSUME Inv, NEW dir \in Dirs, DrawSeq(dir)
  PROVE  Inv'
  <1>0. PICK n : n = Len(msgs) + 1
    OBVIOUS
  <1>1. PICK e : e = (IF epoch = 0 THEN lastEpoch + 1 ELSE epoch)
    OBVIOUS
  <1>2. PICK m : m = [dir |-> dir, epoch |-> e, key |-> key]
    OBVIOUS
  <1>3. /\ e <= MaxEpochs /\ epoch' = e /\ lastEpoch' = (IF e > lastEpoch THEN e ELSE lastEpoch)
        /\ msgs' = Append(msgs, m)
        /\ outbox' = IF dir = "out" THEN outbox \cup {n} ELSE outbox
        /\ UNCHANGED <<inserted, sent, key, history, removed, cursor, trusted, pending, screen, run,
                       trust>>
    BY <1>0, <1>1, <1>2 DEF DrawSeq
  <1>4. e \in 1 .. MaxEpochs /\ lastEpoch' = e /\ lastEpoch <= e /\ m \in Message
    BY <1>1, <1>2, <1>3, ChatViewAssumption DEF Inv, ServerOK, Message
  <1>5. /\ msgs' \in Seq(Message) /\ Len(msgs') = n /\ n \in Nat
        /\ Drawn' = Drawn \cup {n} /\ n \notin Drawn
        /\ msgs'[n] = m /\ \A s \in Drawn : msgs'[s] = msgs[s]
    BY <1>0, <1>3, <1>4 DEF Inv, ServerOK, Drawn
  <1>6. m.dir = dir /\ m.epoch = e /\ m.key = key
    BY <1>2
  <1>7. \A s \in Drawn : msgs[s] \in Message /\ msgs[s].epoch \in Nat
    BY Sets DEF Message
  <1>8. \A s \in Drawn : In(s)' = In(s)
    BY <1>5 DEF In
  <1>9. (In(n)' <=> dir = "in") /\ msgs'[n].dir = dir
    BY <1>5, <1>6 DEF In
  <1>10. ServerOK'
    <2>1. /\ inserted' \subseteq Drawn' /\ sent' \subseteq inserted' /\ key' \in 1 .. MaxKeys
          /\ lastEpoch' \in 0 .. MaxEpochs /\ epoch' \in {0, lastEpoch'}
      BY <1>3, <1>4, <1>5 DEF Inv, ServerOK
    <2>2. ASSUME NEW s \in Drawn' PROVE msgs'[s].epoch <= lastEpoch' /\ msgs'[s].key <= key'
      <3>1. lastEpoch \in Nat /\ e \in Nat /\ lastEpoch' = e /\ lastEpoch <= e
            /\ key' = key /\ key \in Nat
        BY <1>3, <1>4 DEF Inv, ServerOK
      <3>2. CASE s \in Drawn
        BY <1>5, <1>7, <3>1, <3>2 DEF Inv, ServerOK
      <3>3. CASE s = n
        BY <1>5, <1>6, <3>1, <3>3
      <3> QED  BY <1>5, <3>2, <3>3
    <2> QED  BY <1>5, <2>1, <2>2 DEF ServerOK
  <1>11. DbOK'
    <2>1. cursor' \in [epoch : 0 .. lastEpoch', seq : 0 .. Len(msgs')]
      BY <1>3, <1>4, <1>5 DEF Inv, DbOK, ServerOK
    <2> QED  BY <1>3, <1>5, <1>8, <1>9, <2>1 DEF Inv, DbOK, Known
  <1>12. ScreenOK' /\ TrustOK'
    <2>1. unavailable \subseteq Drawn
      BY DEF Inv, ScreenOK, ServerOK
    <2>2. OwnTextShown'
      BY <1>3, <1>5, <2>1 DEF Inv, ScreenOK, OwnTextShown, screen
    <2> QED  BY <1>3, <2>2 DEF Inv, ScreenOK, TrustOK, screen, trust
  <1>13. RunOK'
    <2>1. run' = run /\ Entry' = Entry /\ Known' = Known
      BY <1>3 DEF Entry, Known
    <2>2. run.todo # {} => (In(Entry)' = In(Entry) /\ msgs'[Entry] = msgs[Entry])
      BY <1>5, <1>8, Sets, <2>1
    <2> QED  BY <1>5, <2>1, <2>2 DEF Inv, RunOK
  <1> QED  BY <1>10, <1>11, <1>12, <1>13 DEF Inv

\* While none is drawn, messages stay what they are.
LEMMA Same ==
  ASSUME UNCHANGED msgs
  PROVE  Drawn' = Drawn /\ Len(msgs') = Len(msgs) /\ \A s : In(s)' = In(s)
  BY DEF Drawn, In

\* Storing and broadcasting a message, the reply of send, the replacement of a row and the end
\* of the conversation keep it.
LEMMA ServerKept ==
  ASSUME Inv,
         \/ \E s \in Drawn : \/ InsertMessage(s) \/ BroadcastMessage(s)
                            \/ SendReply(s) \/ Reencrypt(s)
         \/ \E k \in 1 .. MaxKeys : EndConversation(k)
  PROVE  Inv'
  <1>1. UNCHANGED <<msgs, lastEpoch, run>>
    BY DEF InsertMessage, BroadcastMessage, SendReply, Reencrypt, EndConversation, server
  <1>2. Entry' = Entry
    BY <1>1 DEF Entry
  <1> USE <1>1, <1>2, Same
  <1>3. ASSUME NEW s \in Drawn, InsertMessage(s) PROVE Inv'
    BY <1>3 DEF InsertMessage, db, screen, trust, Inv, ServerOK, DbOK, ScreenOK, RunOK, TrustOK,
               Known, OwnTextShown
  <1>4. ASSUME NEW s \in Drawn, BroadcastMessage(s) PROVE Inv'
    <2>1. ServerOK' /\ DbOK' /\ RunOK' /\ TrustOK'
      BY <1>4 DEF BroadcastMessage, db, trust, Inv, ServerOK, DbOK, RunOK, TrustOK, Known
    <2>2. ScreenOK'
      <3>1. s \in Nat /\ msgs[s].epoch \in Nat
        BY Sets DEF Message
      <3>2. unavailable' \subseteq unavailable /\ unavailable' \subseteq shown' /\ removed' = removed
        BY <1>4 DEF BroadcastMessage, db, Inv, ScreenOK
      <3>3. OwnTextShown'
        BY <3>2 DEF Inv, ScreenOK, OwnTextShown
      <3> QED  BY <1>4, <3>1, <3>2, <3>3 DEF BroadcastMessage, Inv, ScreenOK
    <2> QED  BY <2>1, <2>2 DEF Inv
  <1>5. ASSUME NEW s \in Drawn, SendReply(s) \/ Reencrypt(s) PROVE Inv'
    <2>1. /\ UNCHANGED <<server, cursor, trusted, pending, screen, trust>>
          /\ s \in outbox /\ outbox' = outbox \ {s} /\ removed \subseteq removed'
          /\ Known' = Known \cup {s} /\ history' \subseteq history \cup {s}
          /\ removed' \subseteq removed \cup {s}
      BY <1>5 DEF SendReply, Reencrypt, Known
    <2>2. ServerOK' /\ RunOK' /\ TrustOK'
      BY <2>1 DEF server, trust, Inv, ServerOK, RunOK, TrustOK
    <2>3. DbOK'
      BY <2>1 DEF server, Inv, DbOK
    <2>4. ScreenOK'
      BY <2>1 DEF server, screen, Inv, ScreenOK, OwnTextShown
    <2> QED  BY <2>2, <2>3, <2>4 DEF Inv
  <1>6. ASSUME NEW k \in 1 .. MaxKeys, EndConversation(k) PROVE Inv'
    <2>1. key' \in 1 .. MaxKeys /\ key <= key' /\ key \in Nat /\ epoch' = 0
      BY <1>6 DEF EndConversation, Inv, ServerOK
    <2>2. UNCHANGED <<inserted, sent, db, screen, trust>>
      BY <1>6 DEF EndConversation
    <2>3. \A s \in Drawn : msgs[s].key \in Nat
      BY Sets DEF Message
    <2>4. ServerOK'
      BY <2>1, <2>2, <2>3 DEF Inv, ServerOK
    <2>5. DbOK' /\ ScreenOK'
      BY <2>1, <2>2 DEF db, screen, Inv, DbOK, ScreenOK, Known, OwnTextShown
    <2>6. RunOK' /\ TrustOK'
      BY <2>1, <2>2 DEF db, trust, Inv, RunOK, TrustOK, Known
    <2> QED  BY <2>4, <2>5, <2>6 DEF Inv
  <1> QED  BY <1>3, <1>4, <1>5, <1>6

-----------------------------------------------------------------------------
(* The page                                                                *)

\* So do the page, which mounts, joins again, drops its connection or is closed,
LEMMA JoinsKept ==
  ASSUME Inv, Joins \/ StartFails \/ Disconnect \/ Reload
  PROVE  Inv'
  <1>1. UNCHANGED <<server, db>>
    BY DEF Joins, Disconnect, Reload, Mount, Subscribe, Rejoin, OpenClient, Start, StartFails
  <1>2. ServerOK' /\ DbOK' /\ Known' = Known
    BY <1>1, Same DEF server, db, Inv, ServerOK, DbOK, Known
  <1>3. RunOK' /\ TrustOK'
    <2>1. CASE UNCHANGED <<run, trust>>
      <3>1. Entry' = Entry
        BY <2>1 DEF Entry
      <3>2. RunOK'
        BY <1>1, <1>2, <2>1, <3>1, Same DEF server, Inv, RunOK
      <3>3. TrustOK'
        BY <1>1, <2>1 DEF server, db, trust, Inv, TrustOK
      <3> QED  BY <3>2, <3>3
    <2>2. CASE Reload
      <3>1. run' = NoRun /\ ~blocked' /\ banner' = 0 /\ ~bannerDue' /\ ~approving'
            /\ blocked' \in BOOLEAN /\ bannerDue' \in BOOLEAN /\ approving' \in BOOLEAN
        BY <2>2 DEF Reload
      <3>2. NoRun \in Run /\ NoRun.pc = "idle" /\ NoRun.todo = {} /\ NoRun.page = {}
        BY DEF NoRun, Run
      <3>3. key' \in Nat
        BY <1>1 DEF server, Inv, ServerOK
      <3> QED  BY <3>1, <3>2, <3>3 DEF RunOK, TrustOK
    <2> QED  BY <2>1, <2>2 DEF Joins, Disconnect, Mount, Subscribe, Rejoin, OpenClient, Start, StartFails,
                                trust
  <1>4. ScreenOK'
    <2>1. ASSUME NEW S \in SUBSET inserted PROVE S = {} \/ Least(S) \in Nat
      BY Sets, LeastIn DEF Inv, ServerOK
    <2>2. PICK S \in SUBSET inserted : S = Last(Window, Stored(epoch))
      BY Sets
    <2>3. CASE Mount \/ Rejoin
      <3>1. Renders(S) /\ live' \in {"read", "live"} /\ stage' = stage
        BY <2>2, <2>3 DEF Mount, Rejoin
      <3>2. epoch \in Nat
        BY DEF Inv, ServerOK
      <3>3. OwnTextShown'
        BY <3>1 DEF Renders, OwnTextShown
      <3> QED  BY <1>1, <2>1, <3>1, <3>2, <3>3 DEF Renders, server, Inv, ScreenOK
    <2>4. CASE Subscribe \/ OpenClient \/ Start \/ StartFails \/ Disconnect \/ Reload
      <3>1. OwnTextShown'
        BY <1>1, <2>4 DEF Subscribe, OpenClient, Start, StartFails, Disconnect, Reload, server, db, Inv,
             ScreenOK, OwnTextShown
      <3> QED  BY <1>1, <2>4, <3>1 DEF Subscribe, OpenClient, Start, StartFails, Disconnect, Reload, server,
                    Inv, ScreenOK
    <2> QED  BY <2>3, <2>4 DEF Joins
  <1> QED  BY <1>2, <1>3, <1>4 DEF Inv

-----------------------------------------------------------------------------
(* The task of the queue                                                   *)

\* A message that is decrypted is an incoming one that can be read.
LEMMA DecryptKept ==
  ASSUME Inv, NEW s \in Drawn, In(s), Decrypt(s), UNCHANGED <<server, removed, outbox, pending>>
  PROVE  /\ DbOK' /\ Known \subseteq Known'
         /\ trusted # 0 => trusted' # 0
  <1>1. Drawn' = Drawn /\ Len(msgs') = Len(msgs) /\ lastEpoch' = lastEpoch /\ key' = key
        /\ \A r : In(r)' = In(r)
    BY Same DEF server
  <1>2. /\ msgs[s] \in Message /\ msgs[s].epoch <= lastEpoch /\ msgs[s].key <= key
        /\ s \in 1 .. Len(msgs) /\ Len(msgs) \in Nat
        /\ cursor \in [epoch : 0 .. lastEpoch, seq : 0 .. Len(msgs)]
        /\ lastEpoch \in Nat /\ key \in Nat
    BY Sets DEF Inv, ServerOK, DbOK
  <1>3. CASE s \in history
    <2>1. UNCHANGED <<history, cursor, trusted, outbox, pending, Known>>
      BY <1>3 DEF Decrypt, Known
    <2>2. DbOK'
      BY <1>1, <2>1 DEF server, Inv, DbOK
    <2> QED  BY <2>1, <2>2
  <1>4. CASE s \notin history
    <2>1. history' = history \cup {s} /\ cursor' = Advanced(s) /\ trusted' = msgs[s].key
      BY <1>4 DEF Decrypt
    <2>2. msgs[s].key \in 1 .. key /\ msgs[s].epoch \in 0 .. lastEpoch
      BY <1>2 DEF Message
    <2>3. PICK q : q = IF cursor.epoch = msgs[s].epoch /\ cursor.seq > s THEN cursor.seq ELSE s
      OBVIOUS
    <2>4. q \in 0 .. Len(msgs)
      BY <1>2, <2>3
    <2>5. cursor' = [epoch |-> msgs[s].epoch, seq |-> q]
      BY <2>1, <2>3 DEF Advanced
    <2>6. cursor' \in [epoch : 0 .. lastEpoch', seq : 0 .. Len(msgs')]
      BY <1>1, <2>2, <2>4, <2>5
    <2>7. /\ history' \subseteq Drawn' /\ removed' \subseteq Drawn' /\ outbox' \subseteq Drawn'
          /\ Known' = Known \cup {s}
          /\ \A r \in Drawn' : (r \in outbox' => ~In(r)' /\ r \notin Known')
                               /\ (msgs'[r].dir = "out" => r \in outbox' \cup Known')
      <3>1. Known' = Known \cup {s}
        BY <2>1 DEF Known
      <3> QED  BY <1>1, <2>1, <3>1 DEF server, Inv, DbOK
    <2>8. trusted' \in 0 .. key' /\ pending' \in 0 .. key' /\ trusted' # 0
      BY <1>1, <1>2, <2>1, <2>2 DEF Inv, DbOK
    <2>9. DbOK'
      BY <2>6, <2>7, <2>8 DEF DbOK
    <2> QED  BY <2>7, <2>8, <2>9
  <1> QED  BY <1>3, <1>4

\* An identity that is not trusted came after one that is.
LEMMA ChangedKept ==
  ASSUME Inv, NEW s \in Drawn, ~Readable(s), IdentityChanged(s),
         UNCHANGED <<server, removed, outbox, banner, approving>>
  PROVE  DbOK' /\ TrustOK'
  <1>1. Drawn' = Drawn /\ Len(msgs') = Len(msgs) /\ \A r : In(r)' = In(r)
    BY Same DEF server
  <1>2. trusted # 0 /\ trusted' = trusted
    BY DEF Readable, Trusts, IdentityChanged
  <1>3. msgs[s].key \in 0 .. key
    BY Sets DEF Inv, ServerOK, Message
  <1>4. DbOK'
    BY <1>1, <1>2, <1>3 DEF IdentityChanged, server, Inv, DbOK, Known
  <1> QED  BY <1>2, <1>4 DEF IdentityChanged, server, Inv, TrustOK

\* What a step leaves alone keeps its part of the invariant.
LEMMA Frames ==
  ASSUME Inv, UNCHANGED server, removed \subseteq removed'
  PROVE  /\ ServerOK'
         /\ UNCHANGED db => DbOK'
         /\ UNCHANGED screen => ScreenOK'
         /\ UNCHANGED trust /\ (trusted # 0 => trusted' # 0) => TrustOK'
         /\ run'.pc \notin {"move", "history"} /\ run' \in Run
            /\ run'.todo \subseteq Drawn /\ run'.page \subseteq Drawn => RunOK'
         /\ UNCHANGED run /\ Known \subseteq Known' => RunOK'
  <1>1. Drawn' = Drawn /\ Len(msgs') = Len(msgs) /\ \A r : In(r)' = In(r)
    BY Same DEF server
  <1>2. UNCHANGED run => Entry' = Entry
    BY DEF Entry
  <1>3. UNCHANGED db => DbOK'
    BY <1>1 DEF server, db, Inv, DbOK, Known
  <1>4. UNCHANGED screen => ScreenOK'
    BY DEF server, screen, Inv, ScreenOK, OwnTextShown
  <1>5. UNCHANGED run /\ Known \subseteq Known' => RunOK'
    BY <1>1, <1>2 DEF server, Inv, RunOK
  <1> QED  BY <1>1, <1>3, <1>4, <1>5 DEF server, trust, Inv, ServerOK, RunOK, TrustOK

\* The beginning of a task, its fetches, and its end keep the invariant.
LEMMA FetchKept ==
  ASSUME Inv, StartTask \/ FetchMessages \/ FetchFails \/ EndTask
  PROVE  Inv'
  <1>1. UNCHANGED <<server, db, screen, trust>>
    BY DEF StartTask, FetchMessages, FetchFails, EndTask
  <1>2. run \in Run /\ run.todo \subseteq Drawn /\ run.page \subseteq Drawn
    BY DEF Inv, RunOK
  <1>3. NoRun \in Run /\ NoRun.todo = {} /\ NoRun.page = {} /\ NoRun.pc = "idle"
    BY DEF NoRun, Run
  <1>4. run'.pc \notin {"move", "history"} /\ run' \in Run
        /\ run'.todo \subseteq Drawn /\ run'.page \subseteq Drawn
    <2>1. CASE StartTask
      <3>0. \/ run' = [NoRun EXCEPT !.pc = "fetch", !.todo = Unrendered, !.epoch = pageEpoch,
                          !.until = first, !.after = IF cursor.epoch = pageEpoch THEN cursor.seq ELSE 0]
            \/ run' = [NoRun EXCEPT !.pc = "render", !.todo = Unrendered]
        BY <2>1 DEF StartTask
      <3>1. PICK after : after = IF cursor.epoch = pageEpoch THEN cursor.seq ELSE 0
        OBVIOUS
      <3>2. after \in Nat /\ first \in Nat /\ pageEpoch \in Nat
        BY <3>1 DEF Inv, DbOK, ScreenOK
      <3>3. Unrendered \subseteq Drawn /\ Unrendered \in SUBSET Nat
        BY Sets DEF Unrendered, Inv, ScreenOK, ServerOK
      <3>4. CASE run' = [NoRun EXCEPT !.pc = "render", !.todo = Unrendered]
        BY <3>3, <3>4 DEF NoRun, Run
      <3>5. CASE run' = [NoRun EXCEPT !.pc = "fetch", !.todo = Unrendered, !.epoch = pageEpoch,
                                      !.until = first, !.after = after]
        BY <3>2, <3>3, <3>5 DEF NoRun, Run
      <3> QED  BY <3>0, <3>1, <3>4, <3>5
    <2>2. CASE FetchMessages
      <3>1. PICK pg \in SUBSET Drawn : pg = Page
        BY Sets
      <3> DEFINE after == IF pg = {} THEN run.after
                          ELSE CHOOSE s \in pg : \A r \in pg : r <= s
      <3>2. after \in Nat
        <4>1. pg # {} => \E s \in pg : \A r \in pg : r <= s
          BY GreatestIn, Sets, <3>1
        <4>2. pg # {} => (CHOOSE s \in pg : \A r \in pg : r <= s) \in pg
          BY <4>1, Zenon
        <4> QED  BY <1>2, <3>1, <4>2, Sets DEF Run
      <3>3. PICK more \in BOOLEAN : more = (Cardinality(pg) = PageSize)
        OBVIOUS
      <3>4. run' = [run EXCEPT !.pc = "catchup", !.page = pg, !.more = more, !.after = after]
        <4>1. run' = [run EXCEPT !.pc = "catchup", !.page = Page, !.more = Cardinality(Page) = PageSize,
                                 !.after = IF Page = {} THEN run.after
                                           ELSE CHOOSE s \in Page : \A r \in Page : r <= s]
          BY <2>2, Zenon DEF FetchMessages
        <4>2. run' = [run EXCEPT !.pc = "catchup", !.page = pg, !.more = Cardinality(pg) = PageSize,
                                 !.after = after]
          BY <3>1, <4>1
        <4> QED  BY <3>3, <4>2, Zenon
      <3>5. pg \in SUBSET Nat
        BY <3>1, Sets
      <3> HIDE DEF after
      <3> QED  BY <1>2, <3>1, <3>2, <3>4, <3>5 DEF Run
    <2>3. CASE FetchFails
      BY <1>2, <1>3, <2>3 DEF FetchFails, Rendering, NoRun, Run
    <2>4. CASE EndTask
      BY <1>3, <2>4 DEF EndTask
    <2> QED  BY <2>1, <2>2, <2>3, <2>4
  <1> QED  BY <1>1, <1>4, Frames DEF Inv, db

\* A task goes on to render what it has in hand.
LEMMA RenderingRun ==
  ASSUME run \in Run
  PROVE  /\ Rendering \in Run /\ Rendering.pc = "render" /\ Rendering.todo = run.todo
         /\ Rendering.epoch = 0 /\ Rendering.until = 0 /\ Rendering.after = 0
         /\ Rendering.page = {} /\ Rendering.more = FALSE
  BY DEF Rendering, NoRun, Run

\* The catch-up decrypts what it can, up to a change of identity.
LEMMA CatchUpKept ==
  ASSUME Inv, CatchUp
  PROVE  Inv'
  <1>1. run \in Run /\ run.todo \subseteq Drawn /\ run.page \subseteq Drawn
    BY DEF Inv, RunOK
  <1>2. UNCHANGED <<server, removed, screen>>
    BY DEF CatchUp, db
  <1>3. RunOK'
    <2>1. \/ run' = [run EXCEPT !.pc = "fetch"]
          \/ run' = Rendering
          \/ run' = [run EXCEPT !.page = @ \ {Least(run.page)}] /\ run.pc = "catchup"
      BY DEF CatchUp
    <2>2. run'.pc \notin {"move", "history"} /\ run' \in Run
          /\ run'.todo \subseteq Drawn /\ run'.page \subseteq Drawn
      <3>1. CASE run' = Rendering
        BY <1>1, <3>1, RenderingRun
      <3>2. CASE run' = [run EXCEPT !.pc = "fetch"]
        BY <1>1, <3>2 DEF Run
      <3>3. CASE run' = [run EXCEPT !.page = @ \ {Least(run.page)}] /\ run.pc = "catchup"
        BY <1>1, <3>3 DEF Run
      <3> QED  BY <2>1, <3>1, <3>2, <3>3
    <2> QED  BY <1>2, <2>2, Frames
  <1>4. DbOK' /\ TrustOK'
    <2>1. CASE UNCHANGED <<db, trust>>
      BY <1>2, <2>1, Frames DEF db
    <2>2. ASSUME NEW s \in Drawn, In(s), Decrypt(s), UNCHANGED <<outbox, pending, trust>>
          PROVE  DbOK' /\ TrustOK'
      BY <1>2, <2>2, DecryptKept, Frames
    <2>3. ASSUME NEW s \in Drawn, ~Readable(s), IdentityChanged(s), UNCHANGED <<outbox, banner, approving>>
          PROVE  DbOK' /\ TrustOK'
      BY <1>2, <2>3, ChangedKept
    <2> QED  BY <2>1, <2>2, <2>3, Sets DEF CatchUp
  <1> QED  BY <1>2, <1>3, <1>4, Frames DEF Inv

\* Rendering an incoming entry keeps the invariant.
LEMMA RenderKept ==
  ASSUME Inv, RenderEntry
  PROVE  Inv'
  <1>1. run \in Run /\ run.todo \subseteq Drawn /\ run.page \subseteq Drawn
    BY DEF Inv, RunOK
  <1>2. /\ UNCHANGED <<server, removed, live, entries, first, unavailable, pageEpoch, stage, banner,
                       approving>>
        /\ shown' \subseteq entries /\ shown \subseteq shown'
    BY DEF RenderEntry, Fill, screen, db, Inv, ScreenOK
  <1>3. ServerOK' /\ ScreenOK'
    BY <1>2, Frames DEF server, Inv, ScreenOK, OwnTextShown
  <1>4. RunOK'
    <2>1. \/ run' = [NoRun EXCEPT !.pc = "banner"]
          \/ run' = NoRun
          \/ run' = [run EXCEPT !.todo = @ \ {Entry}, !.pc = "render"]
      BY DEF RenderEntry, Next1
    <2>2. run'.pc \notin {"move", "history"} /\ run' \in Run
          /\ run'.todo \subseteq Drawn /\ run'.page \subseteq Drawn
      <3>0. NoRun \in Run /\ NoRun.pc = "idle" /\ NoRun.todo = {} /\ NoRun.page = {}
        BY DEF NoRun, Run
      <3>1. CASE run' = [NoRun EXCEPT !.pc = "banner"] \/ run' = NoRun
        BY <3>0, <3>1 DEF Run
      <3>2. CASE run' = [run EXCEPT !.todo = @ \ {Entry}, !.pc = "render"]
        BY <1>1, <3>2 DEF Run
      <3> QED  BY <2>1, <3>1, <3>2
    <2> QED  BY <1>2, <2>2, Frames
  <1>5. DbOK' /\ TrustOK'
    <2>1. CASE UNCHANGED <<db, blocked, bannerDue>>
      BY <1>2, <2>1, Frames DEF db, trust
    <2>2. ASSUME NEW s \in Drawn, In(s), Decrypt(s), UNCHANGED <<outbox, pending, blocked, bannerDue>>
          PROVE  DbOK' /\ TrustOK'
      BY <1>2, <2>2, DecryptKept, Frames DEF trust
    <2>3. ASSUME NEW s \in Drawn, ~Readable(s), IdentityChanged(s), UNCHANGED outbox
          PROVE  DbOK' /\ TrustOK'
      BY <1>2, <2>3, ChangedKept
    <2> QED  BY <2>1, <2>2, <2>3, Sets DEF RenderEntry
  <1> QED  BY <1>3, <1>4, <1>5 DEF Inv

\* An own entry of this device is in the outbox or in the history, whichever acknowledgement
\* comes first, if it was not removed from them.
LEMMA OwnKept ==
  ASSUME Inv, FindOwn \/ ReadOwn
  PROVE  Inv'
  <1>1. run \in Run /\ run.todo \subseteq Drawn /\ run.page \subseteq Drawn
        /\ run.todo # {} /\ ~In(Entry) /\ Entry \in Drawn
    BY Sets DEF FindOwn, ReadOwn, Inv, RunOK
  <1>2. CASE FindOwn
    <2>1. PICK pc \in {"move", "history"} : pc = IF Entry \in outbox THEN "move" ELSE "history"
      OBVIOUS
    <2>2. run' = [run EXCEPT !.pc = pc] /\ UNCHANGED <<server, db, screen, trust>>
      BY <1>2, <2>1 DEF FindOwn
    <2>3. run' \in Run /\ run'.todo = run.todo /\ run'.page = run.page /\ run'.pc = pc
      BY <1>1, <2>1, <2>2 DEF Run
    <2>4. Entry' = Entry
      BY <2>3 DEF Entry
    <2>5. pc = "history" /\ msgs[Entry].dir = "out" => Entry \in Known
      BY <1>1, <2>1 DEF Inv, DbOK
    <2>6. RunOK'
      BY <1>1, <2>1, <2>2, <2>3, <2>4, <2>5, Same DEF RunOK, Known, server, db
    <2>7. trusted' = trusted
      BY <2>2 DEF db
    <2> QED  BY <2>2, <2>6, <2>7, Frames DEF Inv, db
  <1>3. CASE ReadOwn
    <2>1. run' = [run EXCEPT !.todo = run.todo \ {Entry}, !.pc = "render"]
          /\ UNCHANGED <<server, removed, cursor, trusted, pending, live, entries, first, pageEpoch,
                         stage, trust>>
      BY <1>3 DEF ReadOwn, Next1
    <2>2. run' \in Run /\ run'.todo \subseteq Drawn /\ run'.page \subseteq Drawn /\ run'.pc = "render"
      BY <1>1, <2>1 DEF Run
    <2>3. RunOK'
      BY <2>1, <2>2, Frames
    <2>4. ScreenOK'
      <3>1. \/ unavailable' = unavailable
            \/ /\ run.pc = "history" /\ Entry \notin history
               /\ unavailable' = unavailable \cup ({Entry} \cap entries)
        BY <1>3 DEF ReadOwn, HistoryEntry
      <3>2. shown' = shown \cup ({Entry} \cap entries)
        BY <1>3 DEF ReadOwn, Fill
      <3>3. \A s \in unavailable' : msgs[s].dir = "out" => s \in removed
        BY <3>1 DEF Inv, ScreenOK, OwnTextShown, RunOK, Known
      <3>4. OwnTextShown'
        BY <2>1, <3>3 DEF OwnTextShown, server
      <3> QED  BY <2>1, <3>1, <3>2, <3>4 DEF server, Inv, ScreenOK
    <2>5. DbOK'
      <3>1. \/ UNCHANGED <<history, outbox, Known>>
            \/ /\ history' = history \cup {Entry} /\ outbox' = outbox \ {Entry}
               /\ Known' = Known \cup {Entry}
        BY <1>3 DEF ReadOwn, Known
      <3> QED  BY <1>1, <2>1, <3>1, Same DEF server, Inv, DbOK
    <2> QED  BY <2>1, <2>3, <2>4, <2>5, Frames DEF Inv
  <1> QED  BY <1>2, <1>3

\* A message that cannot be read ends the loop or the task.
LEMMA FailsKept ==
  ASSUME Inv, RenderFails
  PROVE  Inv'
  <1>1. UNCHANGED <<server, db, screen, trust>>
    BY DEF RenderFails
  <1>2. run'.pc \notin {"move", "history"} /\ run' \in Run
        /\ run'.todo \subseteq Drawn /\ run'.page \subseteq Drawn
    BY DEF RenderFails, NoRun, Run
  <1> QED  BY <1>1, <1>2, Frames DEF Inv, db

-----------------------------------------------------------------------------
(* Approval, and the other tabs                                            *)

\* The banner and the approval, here or in another tab, keep the invariant,
LEMMA ApprovalKept ==
  ASSUME Inv, ShowIdentityChanged \/ ApproveIdentity \/ Approved \/ OtherTabApproves
  PROVE  Inv'
  <1>1. UNCHANGED <<server, history, removed, outbox, cursor, screen, run>>
    BY DEF ShowIdentityChanged, ApproveIdentity, Approved, OtherTabApproves, db
  <1>2. ServerOK' /\ ScreenOK' /\ RunOK'
    BY <1>1, Frames DEF Known
  <1>3. /\ trusted' \in 0 .. key /\ pending' \in 0 .. key
        /\ trusted # 0 => trusted' # 0
    BY DEF ShowIdentityChanged, ApproveIdentity, Approved, OtherTabApproves, Accepts, db, Inv, DbOK,
           ServerOK
  <1>4. DbOK'
    BY <1>1, <1>3, Same DEF server, Inv, DbOK, Known
  <1>5. TrustOK'
    <2>1. CASE ShowIdentityChanged
      <3>1. ShownKey(pending) \in 0 .. key /\ ShownKey(pending) # 0
        BY <2>1 DEF ShowIdentityChanged, ShownKey, Inv, DbOK, TrustOK
      <3> QED  BY <1>1, <2>1, <3>1 DEF ShowIdentityChanged, server, Inv, TrustOK
    <2>2. CASE ApproveIdentity
      BY <1>1, <1>3, <2>2 DEF ApproveIdentity, server, Inv, TrustOK
    <2>3. CASE Approved
      <3>1. key \in Nat
        BY DEF Inv, ServerOK
      <3>2. key' = key /\ trusted' = trusted
        BY <1>1, <2>3 DEF Approved, server, db
      <3>3. blocked' \in BOOLEAN /\ bannerDue' \in BOOLEAN /\ approving' \in BOOLEAN /\ ~blocked'
        BY <2>3, Zenon DEF Approved, Inv, TrustOK
      <3>4. banner' \in 0 .. key'
        BY <2>3, <3>1, <3>2 DEF Approved
      <3>5. bannerDue' => trusted' # 0
        BY <2>3, <3>2, Zenon DEF Approved, Inv, TrustOK
      <3> QED  BY <3>3, <3>4, <3>5, Zenon DEF TrustOK
    <2>4. CASE OtherTabApproves
      BY <1>1, <1>3, <2>4 DEF OtherTabApproves, server, trust, Inv, TrustOK
    <2> QED  BY <2>1, <2>2, <2>3, <2>4
  <1> QED  BY <1>2, <1>4, <1>5 DEF Inv

\* and so does another tab that decrypts,
LEMMA OtherTabKept ==
  ASSUME Inv, OtherTabDecrypts
  PROVE  Inv'
  <1>1. PICK s \in Stored(epoch) :
          In(s) /\ Decrypt(s) /\ UNCHANGED <<server, removed, outbox, pending, screen, run, trust>>
    BY DEF OtherTabDecrypts
  <1>2. s \in Drawn
    BY Sets DEF Stored, Inv, ServerOK
  <1> QED  BY <1>1, <1>2, DecryptKept, Frames DEF Inv

\* or a history that is cleared: what it held was removed.
LEMMA ClearKept ==
  ASSUME Inv, ClearHistory
  PROVE  Inv'
  <1>1. /\ UNCHANGED <<server, outbox, cursor, trusted, pending, screen, run, trust>>
        /\ history' = {} /\ removed' = removed \cup history /\ Known' = Known
    BY DEF ClearHistory, Known
  <1>2. ServerOK' /\ ScreenOK' /\ RunOK' /\ TrustOK'
    BY <1>1, Frames DEF Inv
  <1>3. DbOK'
    BY <1>1, Same DEF server, Inv, DbOK
  <1> QED  BY <1>2, <1>3 DEF Inv

-----------------------------------------------------------------------------
(* Theorems                                                                *)

\* Every step keeps the invariant.
LEMMA InvKept ==
  ASSUME Inv, [Next]_vars
  PROVE  Inv'
  <1>1. CASE UNCHANGED vars
    <2>1. UNCHANGED <<server, db, screen, trust, run>>
      BY <1>1 DEF vars
    <2>2. UNCHANGED <<removed, trusted, history>> /\ Known' = Known
      BY <2>1 DEF db, Known
    <2> QED  BY <2>1, <2>2, Frames DEF Inv
  <1>2. CASE Next
    BY <1>2, DrawKept, ServerKept, JoinsKept, FetchKept, CatchUpKept, RenderKept, OwnKept,
       FailsKept, ApprovalKept, OtherTabKept, ClearKept DEF Next, Task
  <1> QED  BY <1>1, <1>2

\* The messages of this device are in its outbox or its history, or were removed from them; a
\* banner that is due has a key to show, and what is in hand was drawn.
THEOREM ViewInvariant == Spec => []Inv
  <1>1. Init => Inv
    <2>1. NoRun \in Run /\ NoRun.todo = {} /\ NoRun.page = {} /\ NoRun.pc = "idle"
      BY DEF NoRun, Run
    <2> SUFFICES ASSUME Init PROVE Inv
      OBVIOUS
    <2>2. Len(msgs) = 0 /\ Drawn = {} /\ msgs \in Seq(Message)
      BY DEF Init, Drawn
    <2>3. ServerOK
      BY <2>2, ChatViewAssumption DEF Init, ServerOK
    <2>4. DbOK
      BY <2>2 DEF Init, DbOK
    <2>5. ScreenOK
      BY DEF Init, ScreenOK, OwnTextShown
    <2>6. RunOK
      BY <2>1 DEF Init, RunOK
    <2>7. TrustOK
      <3>1. blocked \in BOOLEAN /\ bannerDue \in BOOLEAN /\ approving \in BOOLEAN
            /\ ~blocked /\ ~bannerDue
        BY Zenon DEF Init
      <3>2. banner \in 0 .. key
        BY DEF Init
      <3> QED  BY <3>1, <3>2, Zenon DEF TrustOK
    <2> QED  BY <2>3, <2>4, <2>5, <2>6, <2>7 DEF Inv
  <1> QED  BY <1>1, InvKept, PTL DEF Spec

\* Every variable has its type, for any bounds.
THEOREM TypeCorrect == Spec => []TypeOK
  <1>1. Inv => TypeOK
    <2> SUFFICES ASSUME Inv PROVE TypeOK
      OBVIOUS
    <2>1. msgs \in Seq([dir : Dirs, epoch : 1 .. MaxEpochs, key : 1 .. MaxKeys])
      BY DEF Inv, ServerOK, Message
    <2> QED  BY <2>1 DEF Inv, ServerOK, DbOK, ScreenOK, RunOK, TrustOK, TypeOK
  <1> QED  BY <1>1, ViewInvariant, PTL

\* The text of a message of this device is found, in whatever order the reply of send, the
\* stream and the other tabs acknowledge it, unless its row was replaced or cleared.
THEOREM OwnTextIsFound == Spec => []OwnTextShown
  <1>1. Inv => OwnTextShown
    BY DEF Inv, ScreenOK, OwnTextShown
  <1> QED  BY <1>1, ViewInvariant, PTL

\* A page that holds messages back shows, or is about to show, the identity to approve.
THEOREM BlockedHasBanner == Spec => []BlockedCanApprove
  <1>1. Inv => BlockedCanApprove
    BY DEF Inv, TrustOK, BlockedCanApprove
  <1> QED  BY <1>1, ViewInvariant, PTL

-----------------------------------------------------------------------------
(* The cursor                                                              *)

\* What the conversation holds now
Now == Stored(epoch)

\* Epochs follow each other as their messages do; what the cursor and a task have to do
\* with was stored.
OrderInv ==
  /\ \A r, s \in Drawn : r < s => msgs[r].epoch <= msgs[s].epoch
  /\ cursor.seq # 0 => cursor.seq \in inserted /\ msgs[cursor.seq].epoch = cursor.epoch
  /\ run.after \in inserted \cup {0}
  /\ run.todo \cup run.page \subseteq inserted /\ \A s \in run.page : s <= run.after

\* What is shown was decrypted; a page without a controller has done nothing yet.
PageInv ==
  /\ IF entries = {} THEN first = 0 ELSE first \in entries
  /\ \A s \in shown : In(s) => s \in Known
  /\ run.pc = "idle" => run = NoRun
  /\ run.pc = "fetch" => run.page = {}
  /\ live = "read" => stage = "none"
  /\ stage = "none" => /\ queue = <<>> /\ run = NoRun /\ live # "live"
                       /\ ~caught /\ ~approving /\ ~bannerDue /\ ~blocked /\ banner = 0

\* Nothing is stored that the page would have to catch up with.
NoneBefore == \A r \in Now : first <= r

\* Messages are broadcast in order, and a page that listens has those from its first one on.
SentInv ==
  /\ \A s \in sent, r \in Drawn : r < s /\ msgs[r].epoch = msgs[s].epoch => r \in sent
  /\ live # "off" => \A r \in Now \cap sent : entries # {} /\ (first <= r => r \in entries)

\* The entries from the first one on have no gap; those before it are decrypted once the
\* page has caught up.
EntriesInv ==
  /\ \A s \in entries \cap Now, r \in Now : first <= r /\ r < s => r \in entries
  /\ pageEpoch = epoch \/ NoneBefore
  /\ caught => \A r \in Now : In(r) /\ r < first => r \in Known

\* A catch-up that has read to its end has everything before the first entry; a task has
\* all entries that came before it and are not decrypted.
TaskInv ==
  /\ run.todo \subseteq entries /\ run.until \in {0, first}
  /\ run.pc \in {"fetch", "catchup"} => run.epoch = epoch \/ NoneBefore
  /\ \A r \in Now : In(r) /\ r <= run.after => r \in Known \cup run.page
  /\ run.pc = "catchup" /\ ~run.more => \A r \in Now : r < first => r <= run.after
  /\ run.pc # "idle" =>
       \A r \in entries \cap Now :
         In(r) /\ first <= r =>
           r \in Known \cup run.todo \/ \A t \in run.todo \cap Now : t < r

CoverInv == SentInv /\ EntriesInv /\ TaskInv /\ Covered

\* The sets of the window and of an answer are made of numbers that were drawn.
LEMMA FiniteDrawn ==
  ASSUME Inv, NEW S \in SUBSET Drawn
  PROVE  IsFiniteSet(S) /\ Cardinality(S) \in Nat
  <1>1. IsFiniteSet(1 .. Len(msgs))
    BY Sets, FS_Interval
  <1>2. IsFiniteSet(S)
    BY <1>1, Sets, FS_Subset
  <1> QED  BY <1>2, FS_CardinalityType

\* The window has no gap up to the last message, and it is not empty.
LEMMA LastFacts ==
  ASSUME Inv, NEW S \in SUBSET Drawn
  PROVE  /\ Last(Window, S) \subseteq S
         /\ S # {} => Last(Window, S) # {}
         /\ \A s \in Last(Window, S), r \in S : s <= r => r \in Last(Window, S)
  <1>1. Window \in Nat /\ Window > 0
    BY ChatViewAssumption
  <1>2. S \subseteq Nat
    BY Sets
  <1>3. ASSUME S # {} PROVE Last(Window, S) # {}
    <2>1. PICK s \in S : \A r \in S : r <= s
      BY <1>3, GreatestIn, Sets
    <2>2. {r \in S : r > s} = {}
      <3> SUFFICES ASSUME NEW r \in S, r > s PROVE FALSE
        OBVIOUS
      <3>1. r \in Nat /\ s \in Nat /\ r <= s
        BY <1>2, <2>1
      <3> QED  BY <3>1
    <2>3. Cardinality({r \in S : r > s}) = 0
      BY <2>2, FS_EmptySet
    <2> QED  BY <1>1, <2>3 DEF Last
  <1>4. ASSUME NEW s \in Last(Window, S), NEW r \in S, s <= r PROVE r \in Last(Window, S)
    <2>1. s \in S /\ Cardinality({x \in S : x > s}) < Window
      BY DEF Last
    <2>2. {x \in S : x > r} \subseteq {x \in S : x > s}
      <3> SUFFICES ASSUME NEW x \in S, x > r PROVE x > s
        OBVIOUS
      <3>1. x \in Nat /\ r \in Nat /\ s \in Nat
        BY <1>2, <2>1
      <3> QED  BY <1>4, <3>1
    <2>3. /\ IsFiniteSet({x \in S : x > s}) /\ Cardinality({x \in S : x > s}) \in Nat
          /\ Cardinality({x \in S : x > r}) \in Nat
      BY FiniteDrawn
    <2>4. Cardinality({x \in S : x > r}) <= Cardinality({x \in S : x > s})
      BY <2>2, <2>3, FS_Subset
    <2> QED  BY <1>1, <2>1, <2>3, <2>4 DEF Last
  <1> QED  BY <1>3, <1>4 DEF Last

\* An answer has no gap, and if it is not full it has everything.
LEMMA FirstFacts ==
  ASSUME Inv, NEW S \in SUBSET Drawn
  PROVE  /\ First(PageSize, S) \subseteq S
         /\ \A s \in First(PageSize, S), r \in S : r <= s => r \in First(PageSize, S)
         /\ Cardinality(First(PageSize, S)) # PageSize => First(PageSize, S) = S
  <1> DEFINE P == First(PageSize, S)
             Below(s) == {r \in S : r < s}
  <1>1. PageSize \in Nat /\ PageSize > 0
    BY ChatViewAssumption
  <1>2. S \subseteq Nat
    BY Sets
  <1>3. P = {s \in S : Cardinality(Below(s)) < PageSize}
    BY DEF First
  <1>4. P \subseteq S /\ P \subseteq Drawn /\ \A s : Below(s) \subseteq S /\ Below(s) \subseteq Drawn
    BY <1>3
  <1> HIDE DEF P
  <1>5. /\ IsFiniteSet(P) /\ Cardinality(P) \in Nat
        /\ \A s : IsFiniteSet(Below(s)) /\ Cardinality(Below(s)) \in Nat
    <2> HIDE DEF Below
    <2> QED  BY <1>4, FiniteDrawn
  <1>6. ASSUME NEW s \in P, NEW r \in S, r <= s PROVE r \in P
    <2>1. s \in S /\ Cardinality(Below(s)) < PageSize
      BY <1>3
    <2>2. Below(r) \subseteq Below(s)
      <3> SUFFICES ASSUME NEW x \in S, x < r PROVE x < s
        OBVIOUS
      <3>1. x \in Nat /\ r \in Nat /\ s \in Nat
        BY <1>2, <2>1
      <3> QED  BY <1>6, <3>1
    <2> HIDE DEF Below
    <2>3. Cardinality(Below(r)) <= Cardinality(Below(s))
      BY <1>5, <2>2, FS_Subset
    <2>4. Cardinality(Below(r)) \in Nat /\ Cardinality(Below(s)) \in Nat
      BY <1>5
    <2>5. Cardinality(Below(r)) < PageSize
      BY <1>1, <2>1, <2>3, <2>4
    <2> QED  BY <1>3, <2>5
  <1>7. ASSUME P # S PROVE Cardinality(P) = PageSize
    <2>1. PICK D \in SUBSET Nat : D = S \ P
      BY <1>2
    <2>2. D # {}
      BY <1>4, <1>7, <2>1
    <2>3. PICK t \in D : \A r \in D : t <= r
      BY <2>2, LeastIn
    <2>4. t \in S /\ t \notin P /\ Cardinality(Below(t)) >= PageSize
      <3> HIDE DEF Below
      <3>1. t \in S /\ t \notin P
        BY <2>1
      <3>2. ~(Cardinality(Below(t)) < PageSize) /\ Cardinality(Below(t)) \in Nat
        BY <1>3, <1>5, <3>1
      <3> QED  BY <1>1, <3>1, <3>2
    <2>5. Below(t) \subseteq P
      BY <1>2, <2>1, <2>3, <2>4
    <2>6. Cardinality(P) >= PageSize
      BY <1>1, <1>5, <2>4, <2>5, FS_Subset
    <2>7. P # {}
      BY <1>1, <2>6, FS_EmptySet
    <2>8. PICK g \in P : \A r \in P : r <= g
      BY <1>4, <2>7, GreatestIn, Sets
    <2>9. P \subseteq Below(g) \cup {g}
      BY <1>2, <1>4, <2>8
    <2>10. Cardinality(Below(g)) < PageSize /\ g \notin Below(g)
      BY <1>2, <1>3, <1>4
    <2>11. IsFiniteSet(Below(g) \cup {g}) /\ Cardinality(Below(g) \cup {g}) = Cardinality(Below(g)) + 1
      <3> HIDE DEF Below
      <3> QED  BY <1>5, <2>10, FS_AddElement
    <2>12. Cardinality(P) <= Cardinality(Below(g)) + 1
      <3> HIDE DEF Below
      <3> QED  BY <2>9, <2>11, FS_Subset
    <2> QED  BY <1>1, <1>5, <2>6, <2>10, <2>12
  <1> QED  BY <1>4, <1>6, <1>7 DEF P

\* What the conversation holds was stored, under a positive number, for the current epoch,
\* which is the last one.
LEMMA NowFacts ==
  ASSUME Inv
  PROVE  /\ Now \subseteq inserted /\ inserted \subseteq Drawn /\ entries \subseteq inserted
         /\ sent \subseteq inserted /\ Drawn \subseteq Nat \ {0} /\ Now \subseteq Nat
         /\ \A r \in Now : msgs[r].epoch = epoch
         /\ \A r \in inserted : msgs[r].epoch = epoch => r \in Now
         /\ Now # {} => epoch = lastEpoch /\ epoch # 0
         /\ lastEpoch \in Nat /\ epoch \in {0, lastEpoch}
         /\ \A s \in Drawn : msgs[s].epoch \in Nat \ {0} /\ msgs[s].epoch <= lastEpoch
  <1>1. inserted \subseteq Drawn /\ entries \subseteq inserted /\ sent \subseteq inserted
        /\ Drawn \subseteq Nat \ {0} /\ lastEpoch \in Nat /\ epoch \in {0, lastEpoch}
    <2>1. Drawn \subseteq Nat \ {0}
      BY DEF Inv, ServerOK, Drawn
    <2> QED  BY <2>1 DEF Inv, ServerOK, ScreenOK
  <1>2. \A s \in Drawn : msgs[s].epoch \in Nat \ {0} /\ msgs[s].epoch <= lastEpoch
    <2>1. \A s \in Drawn : msgs[s] \in Message /\ msgs[s].epoch <= lastEpoch
      BY DEF Inv, ServerOK, Drawn
    <2> QED  BY <2>1 DEF Message
  <1>3. Now = {s \in inserted : msgs[s].epoch = epoch}
    BY DEF Now, Stored
  <1> QED  BY <1>1, <1>2, <1>3

\* What was stored for another epoch came before.
LEMMA Older ==
  ASSUME Inv, OrderInv, NEW s \in Drawn, msgs[s].epoch # epoch, NEW r \in Now
  PROVE  s < r
  <1>1. s \in Nat /\ r \in Nat /\ r \in Drawn
    BY NowFacts
  <1>2. msgs[s].epoch < msgs[r].epoch /\ msgs[s].epoch \in Nat /\ msgs[r].epoch \in Nat
    BY NowFacts, <1>1
  <1>3. ~(r < s)
    BY <1>1, <1>2 DEF OrderInv
  <1> QED  BY <1>1, <1>2, <1>3

\* While messages are stored in order, a new one comes after all others.
LEMMA Later ==
  ASSUME Inv, OrderInv, NEW s \in Drawn, InsertMessage(s), mishap' = "none"
  PROVE  /\ \A x \in inserted : x < s
         /\ Now' = Now \cup {s} /\ mishap = "none" /\ s \in Nat \ {0}
         /\ Drawn' = Drawn /\ \A r : In(r)' = In(r)
  <1>1. /\ s \notin inserted /\ msgs[s].epoch = epoch /\ inserted' = inserted \cup {s}
        /\ mishap = "none" /\ \A r \in Now : ~(r > s)
        /\ msgs' = msgs /\ epoch' = epoch
    BY DEF InsertMessage, Mishap, Now
  <1>2. ASSUME NEW x \in inserted PROVE x < s
    <2>1. x \in Nat /\ s \in Nat /\ x # s /\ x \in Drawn
      BY <1>1, NowFacts
    <2>2. CASE x \in Now
      BY <1>1, <2>1, <2>2
    <2>3. CASE x \notin Now
      <3>1. msgs[x].epoch # msgs[s].epoch /\ msgs[x].epoch <= lastEpoch /\ epoch = lastEpoch
            /\ msgs[x].epoch \in Nat /\ msgs[s].epoch \in Nat
        BY <1>1, <2>1, <2>3, NowFacts
      <3>2. ~(s < x)
        BY <1>1, <2>1, <3>1 DEF OrderInv
      <3> QED  BY <2>1, <3>2
    <2> QED  BY <2>2, <2>3
  <1>3. Now' = Now \cup {s}
    BY <1>1 DEF Now, Stored
  <1> QED  BY <1>1, <1>2, <1>3, NowFacts, Same

\* A step that leaves the server alone leaves what it holds.
LEMMA NowSame ==
  ASSUME UNCHANGED server
  PROVE  Now' = Now /\ Drawn' = Drawn /\ epoch' = epoch /\ \A r : In(r)' = In(r)
  BY Same DEF server, Now, Stored

\* A step that leaves the rows alone leaves what was decrypted.
LEMMA KnownSame ==
  ASSUME UNCHANGED <<history, removed>>
  PROVE  Known' = Known
  BY DEF Known

\* What keeps the numbers in order
LEMMA OrderFrame ==
  ASSUME OrderInv, UNCHANGED <<msgs, cursor>>, inserted \subseteq inserted',
         run'.after = run.after, run'.page \subseteq run.page, run'.todo \subseteq run.todo
  PROVE  OrderInv'
  BY Same DEF OrderInv

\* What keeps a page as it is
LEMMA PageFrame ==
  ASSUME PageInv, UNCHANGED <<msgs, entries, first, shown, run, live, stage, queue, caught, trust>>,
         Known \subseteq Known'
  PROVE  PageInv'
  BY Same DEF PageInv, trust

\* What the page has of the messages is not disturbed when the conversation, or the page's
\* connection, ends.
LEMMA ViewFrame ==
  ASSUME Inv, SentInv, EntriesInv, UNCHANGED <<sent, entries, first, pageEpoch>>,
         Now' \subseteq Now, \A r \in Now : In(r)' = In(r), Known \subseteq Known',
         epoch' = epoch \/ Now' = {},
         live' # "off" => live # "off",
         caught' => \/ caught
                    \/ \A r \in Now : In(r) /\ r < first => r \in Known',
         \A s \in sent, r \in Drawn' : r < s /\ msgs'[r].epoch = msgs'[s].epoch => r \in sent
  PROVE  SentInv' /\ EntriesInv'
  <1>1. SentInv'
    BY DEF SentInv
  <1>2. EntriesInv'
    BY DEF EntriesInv, NoneBefore
  <1> QED  BY <1>1, <1>2

\* Nor is what its task knows.
LEMMA TaskFrame ==
  ASSUME TaskInv, UNCHANGED <<entries, first, run>>, Known \subseteq Known',
         Now' \subseteq Now, \A r \in Now : In(r)' = In(r), epoch' = epoch \/ Now' = {}
  PROVE  TaskInv'
  BY DEF TaskInv, NoneBefore

\* The cursor is at a message that was stored, whichever message is decrypted.
LEMMA DecryptOrder ==
  ASSUME OrderInv, NEW s \in inserted, Decrypt(s), UNCHANGED removed
  PROVE  /\ cursor'.seq # 0 => cursor'.seq \in inserted /\ msgs[cursor'.seq].epoch = cursor'.epoch
         /\ s \in Known' /\ Known \subseteq Known'
  <1>0. s \in history' /\ history \subseteq history'
    BY DEF Decrypt
  <1>1. CASE s \in history
    BY <1>0, <1>1 DEF Decrypt, OrderInv, Known
  <1>2. CASE s \notin history
    <2>1. cursor' = Advanced(s)
      BY <1>2 DEF Decrypt
    <2>2. PICK q : q = IF cursor.epoch = msgs[s].epoch /\ cursor.seq > s THEN cursor.seq ELSE s
      OBVIOUS
    <2>3. cursor'.epoch = msgs[s].epoch /\ cursor'.seq = q
      BY <2>1, <2>2 DEF Advanced
    <2>4. q # 0 => q \in inserted /\ msgs[q].epoch = msgs[s].epoch
      BY <2>2 DEF OrderInv
    <2> QED  BY <1>0, <2>3, <2>4 DEF Known
  <1> QED  BY <1>1, <1>2

\* Decrypting a message keeps the cursor covered if those before it were decrypted.
LEMMA DecryptCovers ==
  ASSUME Inv, OrderInv, NEW s \in inserted, Decrypt(s), UNCHANGED <<server, removed>>,
         Covered => \A r \in Now : s \in Now /\ In(r) /\ r < s => r \in Known
  PROVE  Covered => Covered'
  <1>1. CASE s \in history
    BY <1>1, NowSame DEF Decrypt, Covered, server, Stored, Known
  <1>2. CASE s \notin history
    <2>1. cursor' = Advanced(s)
      BY <1>2 DEF Decrypt
    <2>2. PICK q : q = IF cursor.epoch = msgs[s].epoch /\ cursor.seq > s THEN cursor.seq ELSE s
      OBVIOUS
    <2>3. cursor'.epoch = msgs[s].epoch /\ cursor'.seq = q
      BY <2>1, <2>2 DEF Advanced
    <2>4. cursor.seq \in Nat /\ s \in Nat /\ s # 0
      BY NowFacts DEF Inv, DbOK
    <2>5. s \in Known' /\ Known \subseteq Known'
      BY DecryptOrder
    <2>6. ASSUME Covered PROVE Covered'
      <3> SUFFICES ASSUME NEW r \in Stored(cursor'.epoch), In(r), r <= cursor'.seq
                   PROVE  r \in Known'
        BY NowSame DEF Covered, server, Stored
      <3>1. r \in Now /\ s \in Now /\ msgs[s].epoch = epoch
        BY <2>3, NowFacts DEF Stored, Now
      <3>2. r \in Nat
        BY <3>1, NowFacts
      <3>3. CASE r <= s
        BY <2>4, <2>5, <2>6, <3>1, <3>2, <3>3
      <3>4. CASE s < r
        <4>1. cursor.epoch = msgs[s].epoch /\ q = cursor.seq
          BY <2>2, <2>3, <2>4, <3>2, <3>4
        <4> QED  BY <2>3, <2>5, <2>6, <4>1 DEF Covered
      <3> QED  BY <2>4, <3>2, <3>3, <3>4
    <2> QED  BY <2>6
  <1> QED  BY <1>1, <1>2

CursorInv == OrderInv /\ PageInv /\ (mishap = "none" => CoverInv)

\* A message drawn is the last one, and not stored.
LEMMA DrawCursor ==
  ASSUME Inv, CursorInv, NEW dir \in Dirs, DrawSeq(dir)
  PROVE  CursorInv'
  <1>0. PICK n : n = Len(msgs) + 1
    OBVIOUS
  <1>1. PICK e : e = (IF epoch = 0 THEN lastEpoch + 1 ELSE epoch)
    OBVIOUS
  <1>2. PICK m : m = [dir |-> dir, epoch |-> e, key |-> key]
    OBVIOUS
  <1>3. /\ epoch' = e /\ msgs' = Append(msgs, m) /\ m.epoch = e
        /\ UNCHANGED <<inserted, sent, cursor, screen, queue, run, trust, caught, mishap>>
        /\ Known' = Known
    BY <1>0, <1>1, <1>2, KnownSame DEF DrawSeq
  <1>4. /\ Drawn' = Drawn \cup {n} /\ n \in Nat /\ msgs'[n] = m
        /\ \A s \in Drawn : s < n /\ msgs'[s] = msgs[s]
    BY <1>0, <1>3 DEF Inv, ServerOK, Drawn
  <1>5. lastEpoch <= e /\ (epoch = 0 => lastEpoch < e) /\ e \in Nat /\ lastEpoch \in Nat
    BY <1>1, NowFacts
  <1>6. \A s \in Drawn : In(s)' = In(s)
    BY <1>4 DEF In
  <1>7. \A s \in Drawn : msgs[s].epoch \in Nat /\ msgs[s].epoch <= e /\ s \in Nat
    BY <1>5, NowFacts
  <1>8. \A r, s \in Drawn' : r < s => msgs'[r].epoch <= msgs'[s].epoch
    <2> SUFFICES ASSUME NEW r \in Drawn', NEW s \in Drawn', r < s
                 PROVE  msgs'[r].epoch <= msgs'[s].epoch
      OBVIOUS
    <2>1. r \in Drawn
      BY <1>4, <1>7
    <2>2. CASE s = n
      BY <1>3, <1>4, <1>7, <2>1, <2>2
    <2>3. CASE s \in Drawn
      BY <1>4, <2>1, <2>3 DEF CursorInv, OrderInv
    <2> QED  BY <1>4, <2>2, <2>3
  <1>9. OrderInv'
    BY <1>3, <1>4, <1>8, NowFacts DEF CursorInv, OrderInv
  <1>10. PageInv'
    <2>1. \A s \in shown : s \in Drawn
      BY NowFacts DEF Inv, ScreenOK
    <2> QED  BY <1>3, <1>6, <2>1 DEF CursorInv, PageInv, screen, trust
  <1>11. \A x : Stored(x)' \subseteq Stored(x) /\ (x # epoch => Stored(x)' = {})
    <2> SUFFICES ASSUME NEW x, NEW s \in inserted, msgs[s].epoch = x, x = e
                 PROVE  x = epoch
      BY <1>3, <1>4, NowFacts DEF Stored
    <2> QED  BY <1>1, <1>5, NowFacts
  <1>12. Now' \subseteq Now /\ (epoch' = epoch \/ Now' = {})
    <2>1. Now' = Stored(e)'
      BY <1>3 DEF Now, Stored
    <2>2. CASE e = epoch
      BY <1>3, <1>11, <2>1, <2>2 DEF Now
    <2>3. CASE e # epoch
      BY <1>11, <2>1, <2>3
    <2> QED  BY <2>2, <2>3
  <1>13. ASSUME CoverInv PROVE CoverInv'
    <2>1. \A s \in sent, r \in Drawn' : r < s /\ msgs'[r].epoch = msgs'[s].epoch => r \in sent
      <3> SUFFICES ASSUME NEW s \in sent, NEW r \in Drawn', r < s, msgs'[r].epoch = msgs'[s].epoch
                   PROVE  r \in sent
        OBVIOUS
      <3>1. s \in Drawn /\ r \in Drawn
        BY <1>4, <1>7, NowFacts
      <3> QED  BY <1>4, <1>13, <3>1 DEF CoverInv, SentInv
    <2>2. \A r \in Now : In(r)' = In(r)
      BY <1>6, NowFacts
    <2>3. SentInv' /\ EntriesInv'
      BY <1>3, <1>12, <1>13, <2>1, <2>2, ViewFrame DEF CoverInv, screen
    <2>4. TaskInv'
      BY <1>3, <1>12, <1>13, <2>2, TaskFrame DEF CoverInv, screen
    <2>5. Covered'
      <3>0. PICK c : c = cursor.epoch
        OBVIOUS
      <3> SUFFICES ASSUME NEW s \in Stored(c)', In(s)', s <= cursor.seq
                   PROVE  s \in Known
        BY <1>3, <3>0 DEF Covered, Stored
      <3>1. s \in Stored(c)
        BY <1>11
      <3>2. s \in Drawn
        BY <3>1, NowFacts DEF Stored
      <3> QED  BY <1>6, <1>13, <3>0, <3>1, <3>2 DEF CoverInv, Covered
    <2> QED  BY <2>3, <2>4, <2>5 DEF CoverInv
  <1> QED  BY <1>3, <1>9, <1>10, <1>13 DEF CursorInv

\* A message stored in order is beyond the cursor, and beyond all that was read.
LEMMA InsertCursor ==
  ASSUME Inv, CursorInv, NEW s \in Drawn, InsertMessage(s)
  PROVE  CursorInv'
  <1>1. /\ UNCHANGED <<msgs, sent, epoch, cursor, screen, queue, run, trust, caught>>
        /\ inserted \subseteq inserted' /\ Known' = Known
    BY KnownSame DEF InsertMessage, db
  <1>2. OrderInv' /\ PageInv'
    BY <1>1, OrderFrame, PageFrame DEF CursorInv, screen
  <1>3. ASSUME mishap' = "none" PROVE CoverInv'
    <2>1. /\ \A x \in inserted : x < s
          /\ Now' = Now \cup {s} /\ mishap = "none" /\ s \in Nat \ {0}
          /\ Drawn' = Drawn /\ \A r : In(r)' = In(r)
      BY <1>3, Later DEF CursorInv
    <2>2. CoverInv /\ OrderInv /\ PageInv
      BY <2>1 DEF CursorInv
    <2>3. UNCHANGED <<cursor, live, entries, first, shown, pageEpoch, run, caught, sent, msgs, epoch>>
      BY <1>1 DEF screen
    <2>4. s \notin sent /\ s \notin entries /\ s \notin run.page
      BY <2>1, <2>2, NowFacts DEF OrderInv
    <2>5. first < s
      BY <2>1, <2>2, NowFacts DEF PageInv
    <2>6. \A r \in Now : r < s /\ r \in Nat
      BY <2>1, NowFacts
    <2>7. run.after < s /\ cursor.seq < s
      BY <2>1, <2>2 DEF OrderInv
    <2>8. first \in Nat /\ run.after \in Nat /\ cursor.seq \in Nat
      BY DEF Inv, ScreenOK, RunOK, Run, DbOK
    <2>9. SentInv'
      BY <2>1, <2>2, <2>3, <2>4 DEF CoverInv, SentInv
    <2>10. EntriesInv'
      <3>1. \A t \in entries \cap Now', r \in Now' : first <= r /\ r < t => r \in entries
        BY <2>1, <2>2, <2>4, <2>6 DEF CoverInv, EntriesInv
      <3>2. NoneBefore => NoneBefore'
        BY <2>1, <2>3, <2>5, <2>8 DEF NoneBefore
      <3>3. caught => \A r \in Now' : In(r) /\ r < first => r \in Known
        BY <2>1, <2>2, <2>5, <2>8 DEF CoverInv, EntriesInv
      <3> QED  BY <1>1, <2>1, <2>2, <2>3, <3>1, <3>2, <3>3 DEF CoverInv, EntriesInv
    <2>11. TaskInv'
      <3>1. run.pc \in {"fetch", "catchup"} => run.epoch = epoch \/ NoneBefore'
        BY <2>1, <2>2, <2>3, <2>5, <2>8 DEF CoverInv, TaskInv, NoneBefore
      <3>2. \A r \in Now' : In(r) /\ r <= run.after => r \in Known \cup run.page
        BY <2>1, <2>2, <2>7, <2>8 DEF CoverInv, TaskInv
      <3>3. run.pc = "catchup" /\ ~run.more => \A r \in Now' : r < first => r <= run.after
        BY <2>1, <2>2, <2>5, <2>8 DEF CoverInv, TaskInv
      <3>4. run.todo \cap Now' = run.todo \cap Now /\ entries \cap Now' = entries \cap Now
        BY <2>1, <2>2, <2>4 DEF CoverInv, TaskInv
      <3> QED  BY <1>1, <2>1, <2>2, <2>3, <3>1, <3>2, <3>3, <3>4 DEF CoverInv, TaskInv
    <2>12. Covered'
      <3> SUFFICES ASSUME NEW r \in Stored(cursor.epoch)', In(r), r <= cursor.seq
                   PROVE  r \in Known
        BY <1>1, <2>1, <2>3 DEF Covered
      <3>1. r \in inserted' /\ inserted' = inserted \cup {s}
        BY DEF Stored, InsertMessage
      <3>2. r # s
        BY <2>1, <2>7, <2>8
      <3>3. r \in Stored(cursor.epoch)
        BY <2>3, <3>1, <3>2 DEF Stored
      <3> QED  BY <2>2, <3>3 DEF CoverInv, Covered
    <2> QED  BY <2>9, <2>10, <2>11, <2>12 DEF CoverInv
  <1> QED  BY <1>2, <1>3 DEF CursorInv

\* A message broadcast in order is the newest entry of a page that listens; the first entry
\* of a page that had none has nothing before it.
LEMMA BroadcastCursor ==
  ASSUME Inv, CursorInv, NEW s \in Drawn, BroadcastMessage(s)
  PROVE  CursorInv'
  <1>1. /\ UNCHANGED <<msgs, inserted, epoch, lastEpoch, cursor, live, stage, run, trust, caught>>
        /\ Known' = Known /\ s \in inserted /\ s \notin sent /\ sent' = sent \cup {s}
        /\ shown' \subseteq shown /\ (live = "off" => queue' = queue)
        /\ (live # "live" => queue' = queue)
        /\ IF live = "live"
           THEN /\ entries' = entries \cup {s} /\ first' = (IF entries = {} THEN s ELSE first)
                /\ pageEpoch' = msgs[s].epoch
           ELSE UNCHANGED <<entries, first, pageEpoch>>
    BY KnownSame DEF BroadcastMessage, db
  <1>2. /\ Now' = Now /\ Drawn' = Drawn /\ \A r : In(r)' = In(r)
    BY <1>1, Same DEF Now, Stored
  <1>3. OrderInv /\ PageInv
    BY DEF CursorInv
  <1>4. OrderInv'
    BY <1>1, <1>3, OrderFrame
  <1>5. PageInv'
    <2>1. IF entries' = {} THEN first' = 0 ELSE first' \in entries'
      BY <1>1, <1>3 DEF PageInv
    <2> QED  BY <1>1, <1>2, <1>3, <2>1 DEF PageInv, trust
  <1>6. ASSUME mishap' = "none" PROVE CoverInv'
    <2>1. /\ mishap = "none" /\ ~Overtaken(s) /\ (live = "read" => s \in entries)
          /\ (live = "live" => ~(msgs[s].epoch < pageEpoch))
      BY <1>6 DEF BroadcastMessage, Mishap
    <2>2. CoverInv
      BY <2>1 DEF CursorInv
    <2>3. \A r \in Drawn : r < s /\ msgs[r].epoch = msgs[s].epoch => r \in sent
      BY <2>1 DEF Overtaken
    <2>4. \A r \in Now : r < s /\ s \in Now => r \in sent
      BY <2>3, NowFacts
    <2>5. s \in Nat \ {0} /\ first \in Nat /\ \A r \in Now : r \in Nat
      BY NowFacts DEF Inv, ScreenOK
    <2>6. UNCHANGED <<cursor, live, run, caught, msgs, epoch>> /\ Known' = Known
      BY <1>1
    <2>7. ASSUME live = "live", entries = {} PROVE \A r \in Now : s <= r
      <3>1. \A r \in Now : r \notin sent
        BY <2>2, <2>7 DEF CoverInv, SentInv
      <3>2. CASE s \in Now
        BY <2>4, <2>5, <3>1, <3>2
      <3>3. CASE s \notin Now
        BY <1>1, <1>3, <2>5, <3>3, Older, NowFacts
      <3> QED  BY <3>2, <3>3
    <2>8. SentInv'
      <3>1. \A t \in sent', r \in Drawn : r < t /\ msgs[r].epoch = msgs[t].epoch => r \in sent'
        BY <1>1, <2>2, <2>3 DEF CoverInv, SentInv
      <3>2. ASSUME live # "off", NEW r \in Now \cap sent'
            PROVE  entries' # {} /\ (first' <= r => r \in entries')
        <4>1. CASE r \in sent
          BY <1>1, <2>2, <3>2, <4>1 DEF CoverInv, SentInv
        <4>2. CASE r = s
          BY <1>1, <2>1, <3>2, <4>2 DEF Inv, ScreenOK
        <4> QED  BY <1>1, <3>2, <4>1, <4>2
      <3> QED  BY <1>2, <2>6, <3>1, <3>2 DEF SentInv
    <2>9. NoneBefore => NoneBefore'
      BY <1>1, <1>2, <2>7 DEF NoneBefore
    <2>10. EntriesInv'
      <3>1. ASSUME NEW t \in entries' \cap Now, NEW r \in Now, first' <= r, r < t
            PROVE  r \in entries'
        <4>1. CASE t \in entries
          BY <1>1, <2>2, <3>1, <4>1 DEF CoverInv, EntriesInv
        <4>2. CASE t = s /\ t \notin entries
          <5>1. live = "live" /\ r \in sent
            BY <1>1, <2>4, <3>1, <4>2
          <5>2. CASE entries = {}
            BY <2>2, <5>1, <5>2, <3>1 DEF CoverInv, SentInv
          <5>3. CASE entries # {}
            BY <1>1, <2>2, <3>1, <5>1, <5>3 DEF CoverInv, SentInv
          <5> QED  BY <5>2, <5>3
        <4> QED  BY <1>1, <3>1, <4>1, <4>2
      <3>2. pageEpoch' = epoch \/ NoneBefore'
        <4>1. CASE live # "live" \/ NoneBefore
          BY <1>1, <2>2, <2>9, <4>1 DEF CoverInv, EntriesInv, NoneBefore
        <4>2. CASE live = "live" /\ ~NoneBefore
          <5>1. pageEpoch = epoch /\ Now # {}
            BY <2>2, <4>2 DEF CoverInv, EntriesInv, NoneBefore
          <5>2. msgs[s].epoch = epoch
            BY <2>1, <4>2, <5>1, NowFacts
          <5> QED  BY <1>1, <4>2, <5>2
        <4> QED  BY <4>1, <4>2
      <3>3. ASSUME caught, NEW r \in Now, In(r), r < first' PROVE r \in Known
        <4>1. CASE first' = first
          BY <2>2, <3>3, <4>1 DEF CoverInv, EntriesInv
        <4>2. CASE first' # first
          <5>1. live = "live" /\ entries = {} /\ first' = s
            BY <1>1, <4>2
          <5> QED  BY <2>5, <2>7, <3>3, <5>1
        <4> QED  BY <4>1, <4>2
      <3> QED  BY <1>2, <2>6, <3>1, <3>2, <3>3 DEF EntriesInv
    <2>11. TaskInv'
      <3>1. run.todo \subseteq entries' /\ run.until \in {0, first'}
        BY <1>1, <1>3, <2>2 DEF CoverInv, TaskInv, PageInv
      <3>2. run.pc \in {"fetch", "catchup"} => run.epoch = epoch \/ NoneBefore'
        BY <2>2, <2>9 DEF CoverInv, TaskInv
      <3>3. ASSUME run.pc = "catchup", ~run.more, NEW r \in Now, r < first' PROVE r <= run.after
        <4>1. CASE first' = first
          BY <2>2, <3>3, <4>1 DEF CoverInv, TaskInv
        <4>2. CASE first' # first
          <5>1. live = "live" /\ entries = {} /\ first' = s
            BY <1>1, <4>2
          <5> QED  BY <2>5, <2>7, <3>3, <5>1
        <4> QED  BY <4>1, <4>2
      <3>4. ASSUME run.pc # "idle", NEW r \in entries' \cap Now, In(r), first' <= r,
                   r \notin Known \cup run.todo, NEW t \in run.todo \cap Now
            PROVE  t < r
        <4>1. t \in entries /\ first' = first
          BY <1>1, <2>2 DEF CoverInv, TaskInv
        <4>2. CASE r \in entries
          BY <2>2, <3>4, <4>1, <4>2 DEF CoverInv, TaskInv
        <4>3. CASE r \notin entries
          BY <2>2, <2>5, <3>4, <4>1, <4>3 DEF CoverInv, EntriesInv
        <4> QED  BY <4>2, <4>3
      <3> QED  BY <1>2, <2>2, <2>6, <3>1, <3>2, <3>3, <3>4 DEF CoverInv, TaskInv
    <2>12. Covered'
      BY <1>1, <1>2, <2>2 DEF CoverInv, Covered, Stored
    <2> QED  BY <2>8, <2>10, <2>11, <2>12 DEF CoverInv
  <1> QED  BY <1>4, <1>5, <1>6 DEF CursorInv

\* The end of the conversation leaves nothing to catch up with; an own message that is
\* acknowledged, a row that is replaced and a history that is cleared are no concern of the
\* cursor.
LEMMA EndCursor ==
  ASSUME Inv, CursorInv,
         \/ \E k \in 1 .. MaxKeys : EndConversation(k)
         \/ \E s \in Drawn : SendReply(s) \/ Reencrypt(s)
         \/ ClearHistory
  PROVE  CursorInv'
  <1>1. /\ UNCHANGED <<msgs, inserted, sent, cursor, screen, queue, run, trust, caught, mishap>>
        /\ Known \subseteq Known'
    BY DEF EndConversation, SendReply, Reencrypt, ClearHistory, server, db, Known
  <1>2. Drawn' = Drawn /\ \A r : In(r)' = In(r)
    BY <1>1, Same
  <1>3. epoch' = epoch \/ epoch' = 0
    BY DEF EndConversation, SendReply, Reencrypt, ClearHistory, server
  <1>4. \A x : Stored(x)' \subseteq Stored(x)
    BY <1>1, <1>3, NowFacts DEF Stored
  <1>5. Now' \subseteq Now /\ (epoch' = epoch \/ Now' = {})
    BY <1>1, <1>3, NowFacts DEF Now, Stored
  <1>6. OrderInv' /\ PageInv'
    BY <1>1, OrderFrame, PageFrame DEF CursorInv, screen
  <1>7. ASSUME CoverInv PROVE CoverInv'
    <2>1. SentInv' /\ EntriesInv'
      BY <1>1, <1>2, <1>5, <1>7, ViewFrame DEF CoverInv, SentInv, screen
    <2>2. TaskInv'
      BY <1>1, <1>2, <1>5, <1>7, TaskFrame DEF CoverInv, screen
    <2>3. Covered'
      <3>1. PICK c : c = cursor.epoch
        OBVIOUS
      <3>2. Covered' <=> \A s \in Stored(c)' : In(s) /\ s <= cursor.seq => s \in Known'
        BY <1>1, <1>2, <3>1 DEF Covered, Stored
      <3> QED  BY <1>1, <1>4, <1>7, <3>1, <3>2 DEF CoverInv, Covered
    <2> QED  BY <2>1, <2>2, <2>3 DEF CoverInv
  <1> QED  BY <1>1, <1>6, <1>7 DEF CursorInv

\* So do the page's steps that render nothing, and the approval of an identity.
LEMMA QuietCursor ==
  ASSUME Inv, CursorInv,
         \/ Subscribe \/ OpenClient \/ Start \/ StartFails \/ Disconnect
         \/ ShowIdentityChanged \/ ApproveIdentity \/ Approved \/ OtherTabApproves
         \/ UNCHANGED vars
  PROVE  CursorInv'
  <1>1. /\ UNCHANGED <<server, cursor, entries, first, shown, pageEpoch, run, caught, mishap>>
        /\ Known' = Known
    BY KnownSame DEF Subscribe, OpenClient, Start, StartFails, Disconnect, ShowIdentityChanged,
       ApproveIdentity, Approved, OtherTabApproves, db, screen, vars
  <1>2. /\ live' # "off" => live # "off"
        /\ live' = "read" => stage' = "none"
        /\ stage' = "none" => stage = "none"
        /\ stage' = "none" => /\ queue' = <<>> /\ live' # "live"
                              /\ ~approving' /\ ~bannerDue' /\ ~blocked' /\ banner' = 0
    BY DEF Subscribe, OpenClient, Start, StartFails, Disconnect, ShowIdentityChanged,
           ApproveIdentity, Approved, OtherTabApproves, CursorInv, PageInv, screen, trust, vars
  <1>3. Now' = Now /\ Drawn' = Drawn /\ epoch' = epoch /\ \A r : In(r)' = In(r)
    BY <1>1, NowSame
  <1>4. OrderInv'
    BY <1>1, OrderFrame DEF CursorInv, server
  <1>5. PageInv'
    BY <1>1, <1>2, <1>3 DEF CursorInv, PageInv
  <1>6. ASSUME CoverInv PROVE CoverInv'
    <2>1. SentInv' /\ EntriesInv'
      BY <1>1, <1>2, <1>3, <1>6, ViewFrame DEF CoverInv, SentInv, server
    <2>2. TaskInv'
      BY <1>1, <1>3, <1>6, TaskFrame DEF CoverInv
    <2>3. Covered'
      BY <1>1, <1>3, <1>6 DEF CoverInv, Covered, Stored, server
    <2> QED  BY <2>1, <2>2, <2>3 DEF CoverInv
  <1> QED  BY <1>1, <1>4, <1>5, <1>6 DEF CursorInv

\* Another tab decrypts; past a gap it is a mishap.
LEMMA OtherTabCursor ==
  ASSUME Inv, CursorInv, OtherTabDecrypts
  PROVE  CursorInv'
  <1>1. PICK s \in Stored(epoch) :
          /\ Decrypt(s)
          /\ mishap' = "none" => /\ mishap = "none"
                                 /\ \A r \in Now : In(r) /\ r < s => r \in Known
          /\ UNCHANGED <<server, removed, screen, queue, run, trust, caught>>
    BY DEF OtherTabDecrypts, Mishap, Now
  <1>2. s \in inserted
    BY NowFacts DEF Now
  <1>3. /\ cursor'.seq # 0 => cursor'.seq \in inserted /\ msgs[cursor'.seq].epoch = cursor'.epoch
        /\ Known \subseteq Known'
    BY <1>1, <1>2, DecryptOrder DEF CursorInv
  <1>4. Now' = Now /\ Drawn' = Drawn /\ epoch' = epoch /\ \A r : In(r)' = In(r)
    BY <1>1, NowSame
  <1>5. OrderInv' /\ PageInv'
    BY <1>1, <1>3, <1>4, PageFrame DEF CursorInv, OrderInv, server, screen
  <1>6. ASSUME mishap' = "none" PROVE CoverInv'
    <2>1. CoverInv
      BY <1>1, <1>6 DEF CursorInv
    <2>2. SentInv' /\ EntriesInv'
      BY <1>1, <1>3, <1>4, <2>1, ViewFrame DEF CoverInv, SentInv, server, screen
    <2>3. TaskInv'
      BY <1>1, <1>3, <1>4, <2>1, TaskFrame DEF CoverInv, screen
    <2>4. Covered'
      BY <1>1, <1>2, <1>6, <2>1, DecryptCovers DEF CursorInv, CoverInv
    <2> QED  BY <2>2, <2>3, <2>4 DEF CoverInv
  <1> QED  BY <1>5, <1>6 DEF CursorInv

\* A page that mounts has the newest messages, and nothing of an earlier one.
LEMMA MountCursor ==
  ASSUME Inv, CursorInv, Mount \/ Rejoin \/ Reload
  PROVE  CursorInv'
  <1>1. UNCHANGED <<server, db>> /\ Known' = Known
    BY KnownSame DEF Mount, Rejoin, Reload, db
  <1>2. Now' = Now /\ Drawn' = Drawn /\ epoch' = epoch /\ \A r : In(r)' = In(r)
    BY <1>1, NowSame
  <1>3. Covered => Covered'
    BY <1>1, <1>2 DEF Covered, Stored, server, db
  <1>4. PICK S \in SUBSET inserted : S = Last(Window, Now)
    BY Sets DEF Now
  <1>5. /\ S \subseteq Now /\ (Now # {} => S # {})
        /\ \A s \in S, r \in Now : s <= r => r \in S
    BY <1>4, LastFacts, NowFacts
  <1>6. S # {} => Least(S) \in S /\ \A r \in S : Least(S) <= r
    BY <1>5, NowFacts, LeastIn
  <1>7. NoRun.after = 0 /\ NoRun.page = {} /\ NoRun.pc = "idle" /\ NoRun.todo = {} /\ NoRun.until = 0
    BY DEF NoRun
  <1>8. CASE Mount
    <2>1. /\ live = "off" /\ stage = "none" /\ live' = "read" /\ stage' = "none"
          /\ Renders(S) /\ UNCHANGED <<queue, run, trust, caught, mishap>>
      BY <1>4, <1>8 DEF Mount, Now
    <2>2. /\ entries' = S /\ first' = IF S = {} THEN 0 ELSE Least(S)
          /\ shown' = {} /\ pageEpoch' = epoch
      BY <2>1 DEF Renders
    <2>3. PageInv /\ run = NoRun /\ ~caught
      BY <2>1 DEF CursorInv, PageInv
    <2>4. OrderInv'
      BY <1>1, <2>1, OrderFrame DEF CursorInv, server, db
    <2>5. PageInv'
      BY <1>6, <1>7, <2>1, <2>2, <2>3 DEF PageInv, trust
    <2>6. ASSUME CoverInv PROVE CoverInv'
      <3>1. \A r \in Now : S # {} /\ (first' <= r => r \in S)
        BY <1>5, <1>6, <2>2
      <3>2. SentInv'
        BY <1>1, <1>2, <2>2, <2>6, <3>1 DEF CoverInv, SentInv, server
      <3>3. EntriesInv'
        BY <1>2, <2>1, <2>2, <2>3, <3>1 DEF EntriesInv
      <3>4. TaskInv'
        BY <1>1, <1>2, <1>7, <2>1, <2>3, <2>6 DEF CoverInv, TaskInv, db
      <3> QED  BY <1>3, <2>6, <3>2, <3>3, <3>4 DEF CoverInv
    <2> QED  BY <2>1, <2>4, <2>5, <2>6 DEF CursorInv
  <1>9. CASE Rejoin
    <2>1. /\ live' = "live" /\ stage' = stage /\ stage # "none" /\ Renders(S)
          /\ UNCHANGED <<run, trust, caught>> /\ mishap' = "other"
      BY <1>4, <1>9 DEF Rejoin, Now, Mishap
    <2>2. entries' = S /\ shown' = {} /\ first' = IF S = {} THEN 0 ELSE Least(S)
      BY <2>1 DEF Renders
    <2>3. OrderInv'
      BY <1>1, <2>1, OrderFrame DEF CursorInv, server, db
    <2>4. PageInv'
      BY <1>6, <2>1, <2>2 DEF CursorInv, PageInv
    <2> QED  BY <2>1, <2>3, <2>4 DEF CursorInv
  <1>10. CASE Reload
    <2>1. /\ live' = "off" /\ stage' = "none" /\ entries' = {} /\ first' = 0 /\ shown' = {}
          /\ pageEpoch' = 0 /\ queue' = <<>> /\ run' = NoRun
          /\ ~blocked' /\ banner' = 0 /\ ~bannerDue' /\ ~approving' /\ ~caught'
          /\ mishap' = mishap
      BY <1>10 DEF Reload
    <2>2. OrderInv'
      BY <1>1, <1>2, <1>7, <2>1 DEF CursorInv, OrderInv, server, db
    <2>3. PageInv'
      BY <1>7, <2>1 DEF PageInv
    <2>4. \A r \in Now : r \in Nat \ {0}
      BY NowFacts
    <2>5. ASSUME CoverInv PROVE CoverInv'
      <3>1. SentInv'
        BY <1>1, <1>2, <2>1, <2>5 DEF CoverInv, SentInv, server
      <3>2. EntriesInv'
        BY <1>2, <2>1, <2>4 DEF EntriesInv, NoneBefore
      <3>3. TaskInv'
        BY <1>2, <1>7, <2>1, <2>4 DEF TaskInv
      <3> QED  BY <1>3, <2>5, <3>1, <3>2, <3>3 DEF CoverInv
    <2> QED  BY <2>1, <2>2, <2>3, <2>5 DEF CursorInv
  <1> QED  BY <1>8, <1>9, <1>10

\* A task begins with all entries that are not shown; it asks for what comes after the
\* cursor, in the epoch of the page.
LEMMA StartCursor ==
  ASSUME Inv, CursorInv, StartTask
  PROVE  CursorInv'
  <1>1. /\ run.pc = "idle" /\ queue # <<>> /\ Known' = Known
        /\ UNCHANGED <<server, db, screen, trust, mishap>>
    BY KnownSame DEF StartTask, db
  <1>2. PICK after : after = IF cursor.epoch = pageEpoch THEN cursor.seq ELSE 0
    OBVIOUS
  <1>3. /\ \/ run' = [NoRun EXCEPT !.pc = "fetch", !.todo = Unrendered, !.epoch = pageEpoch,
                                    !.until = first, !.after = after]
           \/ run' = [NoRun EXCEPT !.pc = "render", !.todo = Unrendered]
        /\ caught' => caught \/ pageEpoch = 0
    BY <1>2, Zenon DEF StartTask
  <1>4. /\ run'.pc \in {"fetch", "render"} /\ run'.todo = Unrendered /\ run'.page = {}
        /\ run'.until \in {0, first} /\ run'.after \in {0, after}
        /\ run'.pc = "fetch" => run'.epoch = pageEpoch
    BY <1>3 DEF NoRun
  <1>5. Now' = Now /\ Drawn' = Drawn /\ epoch' = epoch /\ \A r : In(r)' = In(r)
    BY <1>1, NowSame
  <1>6. cursor.seq \in Nat /\ after \in Nat /\ after \in {0, cursor.seq}
    BY <1>2 DEF Inv, DbOK
  <1>7. OrderInv'
    <2>1. run'.todo \subseteq inserted
      BY <1>4, NowFacts DEF Unrendered
    <2> QED  BY <1>1, <1>4, <1>5, <1>6, <2>1 DEF CursorInv, OrderInv, server, db
  <1>8. PageInv'
    <2>1. stage # "none"
      BY <1>1 DEF CursorInv, PageInv
    <2> QED  BY <1>1, <1>4, <1>5, <2>1 DEF CursorInv, PageInv, screen, db
  <1>9. ASSUME CoverInv PROVE CoverInv'
    <2>1. OrderInv /\ PageInv /\ SentInv /\ EntriesInv /\ Covered
      BY <1>9 DEF CursorInv, CoverInv
    <2>2. caught' => \/ caught
                     \/ \A r \in Now : In(r) /\ r < first => r \in Known'
      <3>1. CASE pageEpoch = 0
        <4>1. NoneBefore
          BY <2>1, <3>1, NowFacts DEF EntriesInv, NoneBefore
        <4>2. first \in Nat /\ Now \subseteq Nat
          BY NowFacts DEF Inv, ScreenOK
        <4> QED  BY <4>1, <4>2 DEF NoneBefore
      <3> QED  BY <1>3, <3>1
    <2>3. SentInv' /\ EntriesInv'
      BY <1>1, <1>5, <2>1, <2>2, ViewFrame DEF SentInv, server, db, screen
    <2>4. ASSUME NEW r \in Now, In(r), r <= run'.after PROVE r \in Known
      <3>1. r \in Nat /\ r # 0
        BY NowFacts
      <3>2. run'.after = cursor.seq /\ cursor.seq # 0
        BY <1>4, <1>6, <2>4, <3>1
      <3>3. cursor.seq \in Drawn /\ msgs[cursor.seq].epoch = cursor.epoch
        BY <2>1, <3>2, NowFacts DEF OrderInv
      <3>4. CASE cursor.epoch = epoch
        BY <2>1, <2>4, <3>2, <3>4 DEF Covered, Now
      <3>5. CASE cursor.epoch # epoch
        BY <1>6, <2>1, <2>4, <3>1, <3>2, <3>3, <3>5, Older
      <3> QED  BY <3>4, <3>5
    <2>5. TaskInv'
      <3>1. run'.todo \subseteq entries /\ run'.until \in {0, first}
        BY <1>4 DEF Unrendered
      <3>2. run'.pc = "fetch" => run'.epoch = epoch \/ NoneBefore
        BY <1>4, <2>1 DEF EntriesInv
      <3>3. \A r \in entries \cap Now : In(r) => r \in Known \cup run'.todo
        BY <1>4, <2>1 DEF Unrendered, PageInv
      <3>4. NoneBefore' = NoneBefore
        BY <1>1, <1>5 DEF NoneBefore, screen
      <3> QED  BY <1>1, <1>3, <1>4, <1>5, <2>4, <3>1, <3>2, <3>3, <3>4 DEF TaskInv, screen
    <2>6. Covered'
      BY <1>1, <1>5, <2>1 DEF Covered, Stored, server, db
    <2> QED  BY <2>3, <2>5, <2>6 DEF CoverInv
  <1> QED  BY <1>1, <1>7, <1>8, <1>9 DEF CursorInv

\* An answer has no gap, and one that is not full reaches the last message.
LEMMA FetchCursor ==
  ASSUME Inv, CursorInv, FetchMessages
  PROVE  CursorInv'
  <1>1. /\ run.pc = "fetch" /\ UNCHANGED <<server, db, screen, queue, trust, caught, mishap>>
        /\ Known' = Known
    BY KnownSame DEF FetchMessages, db
  <1> DEFINE S == {s \in Stored(run.epoch) : s > run.after}
  <1>2. PICK P : P = Page
    OBVIOUS
  <1>3. PICK after : after = IF P = {} THEN run.after
                             ELSE CHOOSE s \in P : \A r \in P : r <= s
    OBVIOUS
  <1>4. run' = [run EXCEPT !.pc = "catchup", !.page = P, !.more = Cardinality(P) = PageSize,
                           !.after = after]
    <2>1. run' = [run EXCEPT !.pc = "catchup", !.page = Page, !.more = Cardinality(Page) = PageSize,
                             !.after = IF Page = {} THEN run.after
                                       ELSE CHOOSE s \in Page : \A r \in Page : r <= s]
      BY Zenon DEF FetchMessages
    <2> QED  BY <1>2, <1>3, <2>1
  <1>5. /\ run'.pc = "catchup" /\ run'.page = P /\ run'.more = (Cardinality(P) = PageSize)
        /\ run'.after = after /\ run'.todo = run.todo /\ run'.until = run.until
        /\ run'.epoch = run.epoch
    BY <1>4 DEF Inv, RunOK, Run
  <1>6. S \subseteq inserted /\ S \in SUBSET Drawn /\ run.after \in Nat
    BY NowFacts DEF Stored, Inv, RunOK, Run
  <1>7. /\ P \subseteq S
        /\ \A s \in P, r \in S : r <= s => r \in P
        /\ Cardinality(P) # PageSize => P = S
    <2>1. P = First(PageSize, S)
      BY <1>2 DEF Page
    <2> HIDE DEF S
    <2> QED  BY <1>6, <2>1, FirstFacts
  <1>8. P # {} => after \in P /\ \A r \in P : r <= after
    <2>1. ASSUME P # {} PROVE \E s \in P : \A r \in P : r <= s
      BY <1>6, <1>7, <2>1, GreatestIn, Sets
    <2> HIDE DEF S
    <2> QED  BY <1>3, <2>1, Zenon
  <1>9. P = {} => after = run.after
    BY <1>3
  <1>10. Now' = Now /\ Drawn' = Drawn /\ epoch' = epoch /\ \A r : In(r)' = In(r)
    BY <1>1, NowSame
  <1>11. after \in inserted \cup {0} /\ P \subseteq inserted /\ \A s \in P : s <= after
    BY <1>6, <1>7, <1>8, <1>9 DEF CursorInv, OrderInv
  <1>12. OrderInv'
    BY <1>1, <1>5, <1>10, <1>11 DEF CursorInv, OrderInv, server, db
  <1>13. PageInv'
    <2>1. NoRun.pc = "idle"
      BY DEF NoRun
    <2>2. stage # "none"
      BY <1>1, <2>1 DEF CursorInv, PageInv
    <2> QED  BY <1>1, <1>5, <1>10, <2>2 DEF CursorInv, PageInv, screen, db
  <1>14. ASSUME CoverInv PROVE CoverInv'
    <2>1. OrderInv /\ PageInv /\ SentInv /\ EntriesInv /\ Covered /\ TaskInv
      BY <1>14 DEF CursorInv, CoverInv
    <2>2. SentInv' /\ EntriesInv'
      BY <1>1, <1>10, <2>1, ViewFrame DEF SentInv, server, db, screen
    <2>3. run.page = {} /\ (run.epoch = epoch \/ NoneBefore)
      BY <1>1, <2>1 DEF PageInv, TaskInv
    <2>4. \A r \in Now : r \in Nat
      BY NowFacts
    <2>5. run.epoch = epoch => S = {r \in Now : r > run.after}
      BY DEF Now
    <2>6. run.epoch # epoch => S = {}
      BY DEF Stored
    <2>7. after \in Nat /\ run.after <= after /\ first \in Nat
      BY <1>6, <1>7, <1>8, <1>9, Sets DEF Inv, ScreenOK
    <2> HIDE DEF S
    <2>8. ASSUME NEW r \in Now, In(r), r <= after PROVE r \in Known \cup P
      <3>1. CASE r <= run.after
        BY <2>1, <2>3, <2>8, <3>1 DEF TaskInv
      <3>2. CASE r > run.after
        <4>1. P # {}
          BY <1>6, <1>9, <2>4, <2>8, <3>2
        <4>2. run.epoch = epoch
          BY <1>7, <2>6, <4>1
        <4> QED  BY <1>7, <1>8, <2>5, <2>8, <3>2, <4>1, <4>2
      <3> QED  BY <1>6, <2>4, <3>1, <3>2
    <2>9. ASSUME Cardinality(P) # PageSize, NEW r \in Now, r < first PROVE r <= after
      <3>1. run.epoch = epoch
        BY <2>3, <2>4, <2>7, <2>9 DEF NoneBefore
      <3>2. P = S
        BY <1>7, <2>9
      <3>3. CASE r \in P
        BY <1>8, <3>3
      <3>4. CASE r \notin P
        BY <1>6, <2>4, <2>5, <2>7, <3>1, <3>2, <3>4
      <3> QED  BY <3>3, <3>4
    <2>10. TaskInv'
      <3>1. NoneBefore' = NoneBefore
        BY <1>1, <1>10 DEF NoneBefore, screen
      <3> QED  BY <1>1, <1>5, <1>10, <2>1, <2>3, <2>8, <2>9, <3>1 DEF TaskInv, screen, db
    <2>11. Covered'
      BY <1>1, <1>10, <2>1 DEF Covered, Stored, server, db
    <2> QED  BY <2>2, <2>10, <2>11 DEF CoverInv
  <1> QED  BY <1>1, <1>12, <1>13, <1>14 DEF CursorInv

\* A catch-up decrypts in order, and it ends when it has reached the first entry.
LEMMA CatchUpCursor ==
  ASSUME Inv, CursorInv, CatchUp
  PROVE  CursorInv'
  <1>1. run.pc = "catchup" /\ UNCHANGED <<server, removed, screen, queue>>
    BY DEF CatchUp, IdentityChanged, db
  <1>2. PICK s : s = Least(run.page)
    OBVIOUS
  <1>3. run.page # {} => s \in run.page /\ s \in inserted /\ \A r \in run.page : s <= r
    BY <1>2, LeastIn DEF CursorInv, OrderInv, Inv, RunOK, Run
  <1>4. Now' = Now /\ Drawn' = Drawn /\ epoch' = epoch /\ \A r : In(r)' = In(r)
    BY <1>1, NowSame
  <1>5. run.after \in Nat /\ run.page \subseteq Nat /\ first \in Nat /\ \A r \in Now : r \in Nat
    BY NowFacts DEF Inv, RunOK, Run, ScreenOK
  <1>6. \A r \in run.page : r <= run.after
    BY DEF CursorInv, OrderInv
  <1>7. stage # "none"
    <2>1. NoRun.pc = "idle"
      BY DEF NoRun
    <2> QED  BY <1>1, <2>1 DEF CursorInv, PageInv
  <1>8. /\ run'.todo = run.todo /\ run'.pc \in {"fetch", "catchup", "render"}
        /\ run'.pc # "render" =>
             /\ run'.after = run.after /\ run'.until = run.until /\ run'.epoch = run.epoch
             /\ run'.more = run.more
        /\ run'.pc = "fetch" => run.page = {} /\ run'.page = {}
        /\ run'.pc = "catchup" => run'.page = run.page \ {s}
        /\ run'.pc = "render" => run'.page = {} /\ run'.after = 0 /\ run'.until = 0
    <2>1. \/ run.page = {} /\ run' = [run EXCEPT !.pc = "fetch"]
          \/ run' = Rendering
          \/ run' = [run EXCEPT !.page = @ \ {s}]
      BY <1>2 DEF CatchUp
    <2>2. CASE run.page = {} /\ run' = [run EXCEPT !.pc = "fetch"]
      BY <2>2 DEF Inv, RunOK, Run
    <2>3. CASE run' = Rendering
      BY <2>3, RenderingRun DEF Inv, RunOK
    <2>4. CASE run' = [run EXCEPT !.page = @ \ {s}]
      BY <1>1, <2>4 DEF Inv, RunOK, Run
    <2> QED  BY <2>1, <2>2, <2>3, <2>4
  <1>9. /\ mishap' = "none" => mishap = "none"
        /\ \/ UNCHANGED <<history, cursor>>
                /\ (run'.pc = "catchup" /\ mishap' = "none" => ~In(s) \/ s \in Known)
           \/ s \in inserted /\ s \in run.page /\ Decrypt(s)
    <2>1. CASE UNCHANGED <<db, mishap>> /\ run' \in {[run EXCEPT !.pc = "fetch"], Rendering}
      <3>1. run'.pc # "catchup"
        BY <2>1, RenderingRun DEF Inv, RunOK, Run
      <3> QED  BY <2>1, <3>1 DEF db
    <2>2. CASE UNCHANGED <<db, mishap>> /\ ~In(s)
      BY <2>2 DEF db
    <2>3. CASE run.page # {} /\ In(s) /\ Decrypt(s) /\ UNCHANGED mishap
      BY <1>3, <2>3
    <2>4. CASE IdentityChanged(s) /\ run' = Rendering /\ UNCHANGED mishap
      <3>1. run'.pc # "catchup"
        BY <2>4, RenderingRun DEF Inv, RunOK
      <3> QED  BY <2>4, <3>1 DEF IdentityChanged
    <2>5. CASE UNCHANGED db /\ Mishap(s \notin Known)
      BY <2>5 DEF db, Mishap
    <2> QED  BY <1>2, <2>1, <2>2, <2>3, <2>4, <2>5 DEF CatchUp
  <1>10. /\ Known \subseteq Known'
         /\ run'.pc = "catchup" /\ mishap' = "none" => ~In(s) \/ s \in Known'
         /\ cursor'.seq # 0 => cursor'.seq \in inserted /\ msgs[cursor'.seq].epoch = cursor'.epoch
    <2>1. CASE /\ UNCHANGED <<history, cursor>>
               /\ run'.pc = "catchup" /\ mishap' = "none" => ~In(s) \/ s \in Known
      BY <1>1, <2>1, KnownSame DEF CursorInv, OrderInv
    <2>2. CASE s \in inserted /\ Decrypt(s)
      BY <1>1, <2>2, DecryptOrder DEF CursorInv
    <2> QED  BY <1>9, <2>1, <2>2
  <1>11. OrderInv'
    BY <1>1, <1>4, <1>8, <1>10 DEF CursorInv, OrderInv, server
  <1>12. PageInv'
    BY <1>1, <1>4, <1>7, <1>8, <1>10 DEF CursorInv, PageInv, screen
  <1>13. ASSUME mishap' = "none" PROVE CoverInv'
    <2>1. OrderInv /\ PageInv /\ SentInv /\ EntriesInv /\ Covered /\ TaskInv
      BY <1>9, <1>13 DEF CursorInv, CoverInv
    <2>2. ASSUME NEW r \in Now, In(r), r <= run.after, r < s PROVE r \in Known
      <3>1. r \in Known \cup run.page
        BY <2>1, <2>2 DEF TaskInv
      <3>2. ASSUME r \in run.page PROVE FALSE
        <4>1. s \in Nat /\ s <= r
          BY <1>3, <1>5, <3>2
        <4> QED  BY <1>5, <2>2, <4>1
      <3> QED  BY <3>1, <3>2
    <2>3. caught' => \/ caught
                     \/ \A r \in Now : In(r) /\ r < first => r \in Known'
      <3>1. CASE caught' => caught
        BY <3>1
      <3>2. CASE IF run.page = {} THEN ~run.more ELSE PastWindow(s)
        <4> SUFFICES ASSUME NEW r \in Now, In(r), r < first PROVE r \in Known
          BY <1>10
        <4>1. CASE run.page = {}
          BY <1>1, <2>1, <3>2, <4>1 DEF TaskInv
        <4>2. CASE run.page # {}
          <5>1. s >= first /\ s \in Nat /\ s <= run.after
            BY <1>3, <1>5, <1>6, <2>1, <3>2, <4>2 DEF PastWindow, TaskInv
          <5> QED  BY <1>5, <2>2, <5>1
        <4> QED  BY <4>1, <4>2
      <3> QED  BY <1>2, <3>1, <3>2 DEF CatchUp
    <2>4. SentInv' /\ EntriesInv'
      BY <1>1, <1>4, <1>10, <2>1, <2>3, ViewFrame DEF SentInv, server, screen
    <2>5. ASSUME NEW r \in Now, In(r), r <= run'.after PROVE r \in Known' \cup run'.page
      <3>1. run'.pc # "render" /\ r <= run.after
        BY <1>8, <2>5, NowFacts
      <3>2. r \in Known \cup run.page
        BY <2>1, <2>5, <3>1 DEF TaskInv
      <3>3. run.page \subseteq run'.page \cup {s} /\ (r = s => r \in Known' \cup run'.page)
        <4>1. CASE run'.pc = "fetch"
          BY <1>8, <1>10, <3>2, <4>1
        <4>2. CASE run'.pc = "catchup"
          BY <1>8, <1>10, <1>13, <2>5, <4>2
        <4> QED  BY <1>8, <3>1, <4>1, <4>2
      <3> QED  BY <1>10, <3>2, <3>3
    <2>6. TaskInv'
      <3>1. NoneBefore' = NoneBefore
        BY <1>1, <1>4 DEF NoneBefore, screen
      <3> QED  BY <1>1, <1>4, <1>8, <1>10, <2>1, <2>5, <3>1 DEF TaskInv, screen
    <2>7. Covered'
      <3>1. CASE UNCHANGED <<history, cursor>>
        BY <1>1, <1>4, <2>1, <3>1, KnownSame DEF Covered, Stored, server
      <3>2. CASE s \in inserted /\ s \in run.page /\ Decrypt(s)
        <4>1. \A r \in Now : In(r) /\ r < s => r \in Known
          <5> SUFFICES ASSUME NEW r \in Now, In(r), r < s PROVE r \in Known
            OBVIOUS
          <5>1. r <= run.after
            BY <1>5, <1>6, <3>2
          <5> QED  BY <2>2, <5>1
        <4> QED  BY <1>1, <2>1, <3>2, <4>1, DecryptCovers
      <3> QED  BY <1>9, <3>1, <3>2
    <2> QED  BY <2>4, <2>6, <2>7 DEF CoverInv
  <1> QED  BY <1>11, <1>12, <1>13 DEF CursorInv

\* A task that only goes on to its next step keeps what it has.
LEMMA GoesOn ==
  ASSUME Inv, CursorInv, run.pc # "idle",
         NEW pc \in {"move", "history"},
         run' = [run EXCEPT !.pc = pc],
         UNCHANGED <<server, cursor, screen, caught>>, Known' = Known
  PROVE  OrderInv' /\ PageInv' /\ (CoverInv => CoverInv')
  <1>1. /\ run'.pc = pc /\ run'.todo = run.todo /\ run'.epoch = run.epoch
        /\ run'.until = run.until /\ run'.after = run.after /\ run'.page = run.page
    BY DEF Inv, RunOK, Run
  <1>2. Now' = Now /\ Drawn' = Drawn /\ epoch' = epoch /\ \A r : In(r)' = In(r)
    BY NowSame
  <1>3. OrderInv'
    BY <1>1, <1>2 DEF CursorInv, OrderInv, server
  <1>4. stage # "none"
    <2>1. NoRun.pc = "idle"
      BY DEF NoRun
    <2> QED  BY <2>1 DEF CursorInv, PageInv
  <1>5. PageInv'
    BY <1>1, <1>2, <1>4 DEF CursorInv, PageInv, screen
  <1>6. ASSUME CoverInv PROVE CoverInv'
    <2>1. SentInv' /\ EntriesInv'
      BY <1>2, <1>6, ViewFrame DEF CoverInv, SentInv, server, screen
    <2>2. TaskInv'
      BY <1>1, <1>2, <1>6 DEF CoverInv, TaskInv, screen
    <2>3. Covered'
      BY <1>2, <1>6 DEF CoverInv, Covered, Stored, server
    <2> QED  BY <2>1, <2>2, <2>3 DEF CoverInv
  <1> QED  BY <1>3, <1>5, <1>6

\* A task that ends, or waits for the banner, has nothing in hand any more.
LEMMA Ends ==
  ASSUME Inv, CursorInv, run.pc # "idle",
         run' \in {NoRun, [NoRun EXCEPT !.pc = "banner"]},
         UNCHANGED <<server, cursor, screen, caught>>, Known' = Known
  PROVE  OrderInv' /\ PageInv' /\ (CoverInv => CoverInv')
  <1>1. /\ run'.pc \in {"idle", "banner"} /\ run'.todo = {} /\ run'.until = 0
        /\ run'.after = 0 /\ run'.page = {} /\ (run'.pc = "idle" => run' = NoRun)
    BY DEF NoRun
  <1>2. Now' = Now /\ Drawn' = Drawn /\ epoch' = epoch /\ \A r : In(r)' = In(r)
    BY NowSame
  <1>3. OrderInv'
    BY <1>1, <1>2 DEF CursorInv, OrderInv, server
  <1>4. stage # "none"
    <2>1. NoRun.pc = "idle"
      BY DEF NoRun
    <2> QED  BY <2>1 DEF CursorInv, PageInv
  <1>5. PageInv'
    BY <1>1, <1>2, <1>4 DEF CursorInv, PageInv, screen
  <1>6. ASSUME CoverInv PROVE CoverInv'
    <2>1. SentInv' /\ EntriesInv'
      BY <1>2, <1>6, ViewFrame DEF CoverInv, SentInv, server, screen
    <2>2. \A r \in Now : r \in Nat \ {0}
      BY NowFacts
    <2>3. TaskInv'
      BY <1>1, <1>2, <2>2 DEF TaskInv
    <2>4. Covered'
      BY <1>2, <1>6 DEF CoverInv, Covered, Stored, server
    <2> QED  BY <2>1, <2>3, <2>4 DEF CoverInv
  <1> QED  BY <1>3, <1>5, <1>6

\* Nor do a fetch that fails, the look into the outbox, an entry that cannot be read and the
\* end of the task move the cursor.
LEMMA PassCursor ==
  ASSUME Inv, CursorInv, FetchFails \/ FindOwn \/ RenderFails \/ EndTask
  PROVE  CursorInv'
  <1>0. UNCHANGED <<server, cursor, screen, caught>> /\ Known' = Known
    BY KnownSame DEF FetchFails, FindOwn, RenderFails, EndTask, db
  <1>1. CASE FetchFails
    <2>1. /\ run.pc = "fetch" /\ mishap' = "other"
          /\ run'.pc = "render" /\ run'.todo = run.todo /\ run'.after = 0 /\ run'.page = {}
      BY <1>1, RenderingRun DEF FetchFails, Mishap, Inv, RunOK
    <2>2. Drawn' = Drawn /\ \A r : In(r)' = In(r)
      BY <1>0, NowSame
    <2>3. OrderInv'
      BY <1>0, <2>1, <2>2 DEF CursorInv, OrderInv, server
    <2>4. stage # "none"
      <3>1. NoRun.pc = "idle"
        BY DEF NoRun
      <3> QED  BY <2>1, <3>1 DEF CursorInv, PageInv
    <2>5. PageInv'
      BY <1>0, <2>1, <2>2, <2>4 DEF CursorInv, PageInv, screen
    <2> QED  BY <2>1, <2>3, <2>5 DEF CursorInv
  <1>2. CASE FindOwn
    <2>1. PICK pc \in {"move", "history"} : run' = [run EXCEPT !.pc = pc]
      BY <1>2 DEF FindOwn
    <2>2. run.pc = "render" /\ mishap' = mishap
      BY <1>2 DEF FindOwn
    <2>3. OrderInv' /\ PageInv' /\ (CoverInv => CoverInv')
      BY <1>0, <2>1, <2>2, GoesOn
    <2> QED  BY <2>2, <2>3 DEF CursorInv
  <1>3. CASE RenderFails \/ EndTask
    <2>1. /\ run' \in {NoRun, [NoRun EXCEPT !.pc = "banner"]} /\ run.pc # "idle"
          /\ mishap' = mishap
      BY <1>3 DEF RenderFails, EndTask
    <2>2. OrderInv' /\ PageInv' /\ (CoverInv => CoverInv')
      BY <1>0, <2>1, Ends
    <2> QED  BY <2>1, <2>2 DEF CursorInv
  <1> QED  BY <1>1, <1>2, <1>3

\* An own message is acknowledged and shown; the cursor is about those of the peer.
LEMMA OwnCursor ==
  ASSUME Inv, CursorInv, ReadOwn
  PROVE  CursorInv'
  <1>1. PICK e : e = Entry
    OBVIOUS
  <1>2. /\ run.pc \in {"move", "history"} /\ run' = [run EXCEPT !.todo = @ \ {e}, !.pc = "render"]
        /\ shown' = shown \cup ({e} \cap entries) /\ Known \subseteq Known'
        /\ UNCHANGED <<server, cursor, live, entries, first, pageEpoch, stage, queue, trust, caught,
                       mishap>>
    BY <1>1 DEF ReadOwn, Fill, Next1, Known
  <1>3. ~In(e)
    BY <1>1, <1>2 DEF Inv, RunOK
  <1>4. /\ run'.pc = "render" /\ run'.todo = run.todo \ {e} /\ run'.epoch = run.epoch
        /\ run'.until = run.until /\ run'.after = run.after /\ run'.page = run.page
    BY <1>2 DEF Inv, RunOK, Run
  <1>5. Now' = Now /\ Drawn' = Drawn /\ epoch' = epoch /\ \A r : In(r)' = In(r)
    BY <1>2, NowSame
  <1>6. OrderInv'
    BY <1>2, <1>4, <1>5 DEF CursorInv, OrderInv, server
  <1>7. stage # "none"
    <2>1. NoRun.pc = "idle"
      BY DEF NoRun
    <2> QED  BY <1>2, <2>1 DEF CursorInv, PageInv
  <1>8. PageInv'
    BY <1>2, <1>3, <1>4, <1>5, <1>7 DEF CursorInv, PageInv
  <1>9. ASSUME CoverInv PROVE CoverInv'
    <2>1. SentInv' /\ EntriesInv'
      BY <1>2, <1>5, <1>9, ViewFrame DEF CoverInv, SentInv, server
    <2>2. TaskInv'
      BY <1>2, <1>3, <1>4, <1>5, <1>9 DEF CoverInv, TaskInv
    <2>3. Covered'
      BY <1>2, <1>5, <1>9 DEF CoverInv, Covered, Stored, server
    <2> QED  BY <2>1, <2>2, <2>3 DEF CoverInv
  <1> QED  BY <1>2, <1>6, <1>8, <1>9 DEF CursorInv

\* An entry is decrypted when everything before it was: by the catch-up what comes before
\* the first entry, by this task or an earlier one the entries from there on.
LEMMA RenderCursor ==
  ASSUME Inv, CursorInv, RenderEntry
  PROVE  CursorInv'
  <1>1. /\ run.pc = "render"
        /\ UNCHANGED <<server, live, entries, first, pageEpoch, stage, queue, caught>>
    BY DEF RenderEntry
  <1>2. PICK e : e = Entry
    OBVIOUS
  <1>3. CASE /\ UNCHANGED <<history, removed, cursor, screen, mishap>>
             /\ run' \in {NoRun, [NoRun EXCEPT !.pc = "banner"]}
    BY <1>1, <1>3, Ends, KnownSame DEF CursorInv
  <1>4. CASE /\ run.todo # {} /\ In(e) /\ Decrypt(e) /\ UNCHANGED removed
             /\ shown' = shown \cup ({e} \cap entries)
             /\ run' = [run EXCEPT !.todo = @ \ {e}, !.pc = "render"]
             /\ mishap' = "none" => mishap = "none" /\ (caught \/ e \in history)
    <2>1. e \in run.todo /\ \A t \in run.todo : e <= t
      BY <1>2, <1>4, LeastIn DEF Inv, RunOK, Run, Entry
    <2>2. /\ run'.pc = "render" /\ run'.todo = run.todo \ {e} /\ run'.epoch = run.epoch
          /\ run'.until = run.until /\ run'.after = run.after /\ run'.page = run.page
      BY <1>4 DEF Inv, RunOK, Run
    <2>3. Now' = Now /\ Drawn' = Drawn /\ epoch' = epoch /\ \A r : In(r)' = In(r)
      BY <1>1, NowSame
    <2>4. stage # "none"
      <3>1. NoRun.pc = "idle"
        BY DEF NoRun
      <3> QED  BY <1>1, <3>1 DEF CursorInv, PageInv
    <2>5. /\ e \in inserted /\ e \in Known' /\ Known \subseteq Known'
          /\ cursor'.seq # 0 => cursor'.seq \in inserted /\ msgs[cursor'.seq].epoch = cursor'.epoch
      BY <1>4, <2>1, DecryptOrder DEF CursorInv, OrderInv
    <2>6. OrderInv'
      BY <1>1, <2>2, <2>3, <2>5 DEF CursorInv, OrderInv, server
    <2>7. PageInv'
      BY <1>1, <1>4, <2>2, <2>3, <2>4, <2>5 DEF CursorInv, PageInv
    <2>8. ASSUME CoverInv, caught \/ e \in history PROVE CoverInv'
      <3>1. OrderInv /\ PageInv /\ SentInv /\ EntriesInv /\ Covered /\ TaskInv
        BY <2>8 DEF CursorInv, CoverInv
      <3>2. SentInv' /\ EntriesInv'
        BY <1>1, <2>3, <2>5, <3>1, ViewFrame DEF SentInv, server
      <3>3. TaskInv'
        BY <1>1, <2>2, <2>3, <2>5, <3>1 DEF TaskInv
      <3>4. Covered'
        <4>1. CASE e \in history
          BY <1>1, <1>4, <2>3, <3>1, <4>1, KnownSame DEF Decrypt, Covered, Stored, server
        <4>2. ASSUME caught, NEW r \in Now, e \in Now, In(r), r < e PROVE r \in Known
          <5>1. CASE r < first
            BY <3>1, <4>2, <5>1 DEF EntriesInv
          <5>2. CASE first <= r
            <6>1. r \in entries \cap Now
              BY <2>1, <3>1, <4>2, <5>2 DEF EntriesInv, TaskInv
            <6>2. r \in Known \cup run.todo \/ e < r
              BY <1>1, <2>1, <3>1, <4>2, <5>2, <6>1 DEF TaskInv
            <6>3. r \in Nat /\ e \in Nat
              BY <4>2, NowFacts
            <6> QED  BY <2>1, <4>2, <6>2, <6>3
          <5>3. r \in Nat /\ first \in Nat
            BY <4>2, NowFacts DEF Inv, ScreenOK
          <5> QED  BY <5>1, <5>2, <5>3
        <4> QED  BY <1>1, <1>4, <2>5, <2>8, <3>1, <4>1, <4>2, DecryptCovers
      <3> QED  BY <3>2, <3>3, <3>4 DEF CoverInv
    <2> QED  BY <1>4, <2>6, <2>7, <2>8 DEF CursorInv
  <1>5. \/ /\ UNCHANGED <<history, removed, cursor, screen, mishap>>
           /\ run' \in {NoRun, [NoRun EXCEPT !.pc = "banner"]}
        \/ /\ run.todo # {} /\ In(e) /\ Decrypt(e) /\ UNCHANGED removed
           /\ shown' = shown \cup ({e} \cap entries)
           /\ run' = [run EXCEPT !.todo = @ \ {e}, !.pc = "render"]
           /\ mishap' = "none" => mishap = "none" /\ (caught \/ e \in history)
    BY <1>2 DEF RenderEntry, IdentityChanged, Fill, Next1, db, screen
  <1> QED  BY <1>3, <1>4, <1>5

\* No step disturbs what keeps the cursor covered.
LEMMA CursorNext ==
  ASSUME Inv, CursorInv, [Next]_vars
  PROVE  CursorInv'
  BY DrawCursor, InsertCursor, BroadcastCursor, EndCursor, QuietCursor, OtherTabCursor, MountCursor,
     StartCursor, FetchCursor, CatchUpCursor, RenderCursor, PassCursor, OwnCursor
     DEF Next, Task, Joins

\* The inductive invariant, which is more than the property: the entries of the page have no
\* gap, and whatever comes before the message in hand was decrypted or is in hand too.
THEOREM CursorInvariant == Spec => [](Inv /\ CursorInv)
  <1>1. Init => CursorInv
    <2> SUFFICES ASSUME Init PROVE CursorInv
      OBVIOUS
    <2>1. Now = {} /\ Drawn = {}
      BY DEF Init, Now, Stored, Drawn
    <2>2. NoRun.after = 0 /\ NoRun.page = {} /\ NoRun.pc = "idle" /\ NoRun.todo = {} /\ NoRun.until = 0
      BY DEF NoRun
    <2>3. OrderInv
      BY <2>1, <2>2 DEF Init, OrderInv
    <2>4. PageInv
      BY <2>2 DEF Init, PageInv
    <2>5. SentInv /\ EntriesInv /\ TaskInv
      BY <2>1, <2>2 DEF Init, SentInv, EntriesInv, TaskInv
    <2>6. Covered
      BY DEF Init, Covered, Stored
    <2> QED  BY <2>3, <2>4, <2>5, <2>6 DEF CursorInv, CoverInv
  <1>2. Inv /\ CursorInv /\ [Next]_vars => CursorInv'
    BY CursorNext
  <1> QED  BY <1>1, <1>2, ViewInvariant, PTL DEF Spec

\* Unless one of the mishaps happened, no message of the peer is behind the cursor without
\* having been decrypted, with any number of messages, reloads, epochs and
\* identities and any window and page: the catch-up of the next visit misses nothing.
THEOREM CursorIsCovered == Spec => []CoveredUnlessMishap
  <1>1. CursorInv => CoveredUnlessMishap
    BY DEF CursorInv, CoverInv, CoveredUnlessMishap
  <1> QED  BY <1>1, CursorInvariant, PTL

\* Nor does a page that has caught up miss what the server has broadcast: what comes before
\* its first entry was decrypted, and from there on it has the entries.
THEOREM NoneIsMissed == Spec => []NothingMissed
  <1>1. Inv /\ CursorInv => NothingMissed
    <2> SUFFICES ASSUME Inv, CursorInv, live = "live", caught, mishap = "none",
                        NEW s \in Stored(epoch) \cap sent, In(s)
                 PROVE  s \in Known \cup Unrendered
      BY DEF NothingMissed
    <2>1. s \in Now \cap sent /\ s \in Nat /\ first \in Nat
      BY NowFacts DEF Now, Inv, ScreenOK
    <2>2. CASE s < first
      BY <2>1, <2>2 DEF CursorInv, CoverInv, EntriesInv
    <2>3. CASE first <= s
      <3>1. s \in entries
        BY <2>1, <2>3 DEF CursorInv, CoverInv, SentInv
      <3>2. s \in shown => s \in Known
        BY DEF CursorInv, PageInv
      <3> QED  BY <3>1, <3>2 DEF Unrendered
    <2> QED  BY <2>1, <2>2, <2>3
  <1> QED  BY <1>1, CursorInvariant, PTL

=============================================================================
