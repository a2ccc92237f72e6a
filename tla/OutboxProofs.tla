---------------------------- MODULE OutboxProofs ----------------------------
(***************************************************************************)
(* Theorems about Outbox, for any calls under way at once, any messages,   *)
(* and any number of attempts, epochs, resets and faults.                  *)
(***************************************************************************)
EXTENDS Outbox, WellFoundedInduction, TLAPS

USE DEF texts, unsent

Steps ==
  {"idle", "open", "identity", "encrypt", "bundle", "commit", "send", "store", "reply",
   "supersede", "drop", "ack", "move"}
Replies == {"none", "ok", "invalid", "superseded", "stale_epoch", "in_flight"}
Calls ==
  [pc : Steps, op : {"send", "flush"}, msg : Msgs \cup {0}, rows : SUBSET Rows, row : Rows,
   opened : Nat, epoch : Nat, identity : Nat, attempt : 0 .. MaxAttempts - 1, reply : Replies]

RowsOK == outbox \subseteq Rows /\ history \subseteq Rows /\ stored \subseteq Rows

\* An epoch that is open is the last one.
NumbersOK ==
  /\ epoch \in Nat /\ lastEpoch \in Nat /\ (epoch = 0 \/ epoch = lastEpoch)
  /\ identity \in Nat /\ published \in Nat /\ lastIdentity \in Nat
  /\ identity \in 1 .. lastIdentity /\ published \in 1 .. lastIdentity
  /\ session \in Nat /\ lastNonce \in Nat /\ resets \in Nat /\ faults \in Nat

PlacesOK ==
  /\ state \in {"ready", "superseded", "resetting"} /\ lock \in Tasks \cup {Free, Page}
  /\ peer \in {"none", "known", "changed"}
  /\ typed \subseteq Msgs

CallsOK ==
  /\ task \in [Tasks -> Calls]
  /\ \A t \in Tasks : /\ task[t].op = "send" => task[t].msg \in typed
                      /\ task[t].pc = "idle" => task[t].op = "flush"

TypeInv == RowsOK /\ NumbersOK /\ PlacesOK /\ CallsOK

-----------------------------------------------------------------------------
(* Calls                                                                   *)

\* A set of rows that is not empty has an oldest one.
LEMMA OldestRow ==
  ASSUME NEW S \in SUBSET Rows, S # {}
  PROVE  \E x \in S : \A y \in S : x.msg <= y.msg
  <1> DEFINE T == {x.msg : x \in S}
             R == {ss \in Nat \X Nat : ss[1] < ss[2]}
  <1>1. T \subseteq Nat /\ T # {}
    BY DEF Rows
  <1>2. IsWellFoundedOn(R, Nat)
    BY NatLessThanWellFounded DEF OpToRel
  <1>3. \E m \in T : \A n \in T : <<n, m>> \notin R
    <2> HIDE DEF R, T
    <2> QED  BY <1>1, <1>2, WFMin
  <1>4. PICK m \in T : \A n \in T : ~(n < m)
    BY <1>1, <1>3
  <1>5. PICK x \in S : x.msg = m
    BY <1>4
  <1>6. \A y \in S : x.msg <= y.msg
    <2> TAKE y \in S
    <2>1. y.msg \in Nat /\ m \in Nat /\ ~(y.msg < m)
      BY <1>1, <1>4
    <2> QED  BY <1>5, <2>1
  <1> QED  BY <1>6

\* A call that goes on with row r
Takes(k, r, s) ==
  [k EXCEPT !.rows = k.rows \ {r}, !.row = r, !.attempt = 0, !.epoch = k.opened, !.pc = s]

\* The call that follows: none, or the same one with a row of those that were left.
LEMMA NextRowIs ==
  ASSUME NEW k \in Calls
  PROVE  \/ WithNextRow(k) = Idle
         \/ \E r \in k.rows, s \in {"send", "encrypt"} :
              /\ s = "send" \/ r.epoch # k.opened \/ r.identity # k.identity
              /\ WithNextRow(k) = Takes(k, r, s)
  <1> DEFINE r == CHOOSE x \in k.rows : \A y \in k.rows : x.msg <= y.msg
             s == IF r.epoch = k.opened /\ r.identity = k.identity THEN "send" ELSE "encrypt"
  <1>1. CASE k.rows = {}
    BY <1>1 DEF WithNextRow
  <1>2. CASE k.rows # {}
    <2>1. r \in k.rows
      BY <1>2, OldestRow DEF Calls
    <2>2. WithNextRow(k) = Takes(k, r, s)
      BY <1>2, Zenon DEF WithNextRow, Takes
    <2>3. s \in {"send", "encrypt"} /\ (s = "send" \/ r.epoch # k.opened \/ r.identity # k.identity)
      OBVIOUS
    <2> QED  BY <2>1, <2>2, <2>3
  <1> QED  BY <1>1, <1>2

\* The empty call and the empty row are of their types.
LEMMA IdleIsCall == Idle \in Calls /\ NoRow \in Rows
  BY OutboxAssumption DEF Idle, NoRow, Rows, Calls, Steps, Replies

\* Taking the next row keeps a call of its type.
LEMMA NextRowType ==
  ASSUME NEW k \in Calls
  PROVE  WithNextRow(k) \in Calls
  <1>1. CASE WithNextRow(k) = Idle
    BY <1>1, IdleIsCall
  <1>2. ASSUME NEW r \in k.rows, NEW s \in {"send", "encrypt"}
        PROVE  Takes(k, r, s) \in Calls
    <2>1. r \in Rows /\ k.rows \ {r} \in SUBSET Rows /\ 0 \in 0 .. MaxAttempts - 1
      BY OutboxAssumption DEF Calls
    <2>2. s \in Steps
      BY DEF Steps
    <2> QED  BY <2>1, <2>2 DEF Calls, Takes
  <1> QED  BY <1>1, <1>2, NextRowIs

-----------------------------------------------------------------------------
(* Types                                                                   *)

\* Only call t changes, to k.
Becomes(t, k) == task' = [task EXCEPT ![t] = k]

\* A step that sets one call leaves the others alone.
LEMMA BecomesIs ==
  ASSUME CallsOK, NEW t \in Tasks, NEW k, Becomes(t, k)
  PROVE  task'[t] = k /\ \A u \in Tasks : u # t => task'[u] = task[u]
  BY DEF Becomes, CallsOK

\* A step that sets one call of the right type keeps the calls so.
LEMMA BecomesType ==
  ASSUME CallsOK, NEW t \in Tasks, NEW k \in Calls, Becomes(t, k), typed \subseteq typed',
         k.op = "send" => k.msg \in typed', k.pc = "idle" => k.op = "flush"
  PROVE  CallsOK'
  BY BecomesIs DEF Becomes, CallsOK

\* How a step changes the record of its call
LEMMA Updates ==
  ASSUME CallsOK, NEW t \in Tasks, NEW s \in Steps, NEW e \in Nat
  PROVE  /\ Goto(t, s) => Becomes(t, [task[t] EXCEPT !.pc = s])
         /\ Retry(t, s, e) =>
              Becomes(t, [task[t] EXCEPT !.pc = s, !.epoch = e, !.attempt = @ + 1, !.reply = "none"])
         /\ \A kind \in Replies :
              Answer(t, kind, e) =>
                \E f \in {e, task[t].epoch} :
                  /\ kind = "stale_epoch" => f = e
                  /\ Becomes(t, [task[t] EXCEPT !.pc = "reply", !.reply = kind, !.epoch = f])
  <1>1. task \in [Tasks -> Calls] /\ task[t] \in Calls
    BY DEF CallsOK
  <1>4. Goto(t, s) => Becomes(t, [task[t] EXCEPT !.pc = s])
    BY <1>1 DEF Goto, Becomes, Calls
  <1>5. Retry(t, s, e) =>
          Becomes(t, [task[t] EXCEPT !.pc = s, !.epoch = e, !.attempt = @ + 1, !.reply = "none"])
    BY <1>1 DEF Retry, Becomes, Calls
  <1>6. ASSUME NEW kind \in Replies, Answer(t, kind, e)
        PROVE  \E f \in {e, task[t].epoch} :
                 /\ kind = "stale_epoch" => f = e
                 /\ Becomes(t, [task[t] EXCEPT !.pc = "reply", !.reply = kind, !.epoch = f])
    <2>1. CASE kind = "stale_epoch"
      BY <1>1, <1>6, <2>1 DEF Answer, Becomes, Calls
    <2>2. CASE kind # "stale_epoch"
      BY <1>1, <1>6, <2>2 DEF Answer, Becomes, Calls
    <2> QED  BY <2>1, <2>2
  <1> QED  BY <1>4, <1>5, <1>6

\* A call that goes on with another row stays what it is.
LEMMA NextRowKeeps ==
  ASSUME NEW k \in Calls
  PROVE  \/ WithNextRow(k).op = "flush"
         \/ /\ WithNextRow(k).op = k.op /\ WithNextRow(k).msg = k.msg
            /\ WithNextRow(k).pc # "idle"
  <1> DEFINE n == WithNextRow(k)
  <1> HIDE DEF n
  <1>1. CASE n = Idle
    BY <1>1 DEF Idle, n
  <1>2. ASSUME NEW r \in k.rows, NEW s \in {"send", "encrypt"}, n = Takes(k, r, s)
        PROVE  n.op = k.op /\ n.msg = k.msg /\ n.pc # "idle"
    BY <1>2 DEF Takes, Calls
  <1> QED  BY <1>1, <1>2, NextRowIs DEF n

\* The end of a call, its next row and its next step keep the types of the calls,
LEMMA EndType ==
  ASSUME CallsOK, NEW t \in Tasks, UNCHANGED typed,
         End(t) \/ NextRow(t) \/ \E s \in Steps \ {"idle"} : Goto(t, s)
  PROVE  CallsOK'
  <1>1. task[t] \in Calls /\ (task[t].op = "send" => task[t].msg \in typed)
    BY DEF CallsOK
  <1>2. CASE End(t)
    <2>1. Becomes(t, Idle) /\ Idle \in Calls /\ Idle.op = "flush"
      BY <1>2, IdleIsCall DEF End, Becomes, Idle
    <2> HIDE DEF Idle
    <2> QED  BY <2>1, BecomesType
  <1>3. CASE NextRow(t)
    <2>1. Becomes(t, WithNextRow(task[t]))
      BY <1>3 DEF NextRow, Becomes
    <2> QED  BY <1>1, <2>1, NextRowType, NextRowKeeps, BecomesType
  <1>4. ASSUME NEW s \in Steps \ {"idle"}, Goto(t, s) PROVE CallsOK'
    <2> DEFINE k == [task[t] EXCEPT !.pc = s]
    <2>1. k \in Calls /\ k.op = task[t].op /\ k.msg = task[t].msg /\ k.pc # "idle"
      BY <1>1 DEF Calls
    <2>2. Becomes(t, k)
      BY <1>4, IdleIsCall, Updates
    <2> HIDE DEF k
    <2> QED  BY <1>1, <2>1, <2>2, BecomesType
  <1> QED  BY <1>2, <1>3, <1>4

\* and so does an exception,
LEMMA ThrowType ==
  ASSUME CallsOK, NEW t \in Tasks, UNCHANGED typed, Throw(t)
  PROVE  CallsOK'
  BY EndType DEF Throw

\* and an answer of the server,
LEMMA AnswerType ==
  ASSUME CallsOK, NEW t \in Tasks, NEW kind \in Replies, NEW e \in Nat, UNCHANGED typed,
         Answer(t, kind, e)
  PROVE  CallsOK'
  <1>1. task[t] \in Calls /\ (task[t].op = "send" => task[t].msg \in typed)
    BY DEF CallsOK
  <1>2. PICK f \in {e, task[t].epoch} :
          Becomes(t, [task[t] EXCEPT !.pc = "reply", !.reply = kind, !.epoch = f])
    <2>1. "idle" \in Steps
      BY DEF Steps
    <2> QED  BY <2>1, Updates
  <1> DEFINE k == [task[t] EXCEPT !.pc = "reply", !.reply = kind, !.epoch = f]
  <1>3. k \in Calls /\ k.op = task[t].op /\ k.msg = task[t].msg /\ k.pc # "idle"
    BY <1>1 DEF Calls, Steps
  <1> HIDE DEF k
  <1>4. Becomes(t, k)
    BY <1>2 DEF k
  <1> QED  BY <1>1, <1>3, <1>4, BecomesType

\* and one more attempt.
LEMMA RetryType ==
  ASSUME CallsOK, NEW t \in Tasks, NEW s \in {"encrypt", "send"}, NEW e \in Nat, UNCHANGED typed,
         Retry(t, s, e), GoesOn(t)
  PROVE  CallsOK'
  <1>1. task[t] \in Calls /\ (task[t].op = "send" => task[t].msg \in typed)
    BY DEF CallsOK
  <1> DEFINE k == [task[t] EXCEPT !.pc = s, !.epoch = e, !.attempt = @ + 1, !.reply = "none"]
  <1>2. Becomes(t, k)
    <2>1. s \in Steps
      BY DEF Steps
    <2> QED  BY <2>1, Updates
  <1>3. task[t].attempt + 1 \in 0 .. MaxAttempts - 1
    BY <1>1, OutboxAssumption DEF Calls, GoesOn
  <1>4. k \in Calls /\ k.op = task[t].op /\ k.msg = task[t].msg /\ k.pc # "idle"
    BY <1>1, <1>3 DEF Calls, Steps, Replies
  <1> HIDE DEF k
  <1> QED  BY <1>1, <1>2, <1>4, BecomesType

\* The conversation that is opened is current, or new.
LEMMA OpensIs ==
  ASSUME NumbersOK, NEW e \in 1 .. lastEpoch + 1, Current(e), Opens(e)
  PROVE  /\ e \in Nat /\ e # 0 /\ epoch' = e /\ lastEpoch' = e
         /\ \/ epoch = e /\ lastEpoch = e
            \/ epoch = 0 /\ e = lastEpoch + 1
  BY DEF NumbersOK, Current, Opens

\* The beginning of send and flushOutbox keeps the types,
LEMMA CallTypes ==
  ASSUME TypeInv, NEW t \in Tasks,
         \/ \E m \in Msgs : Send(t, m)
         \/ FlushOutbox(t) \/ OpenConversation(t) \/ FlushIdentity(t)
  PROVE  TypeInv'
  <1> USE DEF TypeInv
  <1>1. task[t] \in Calls /\ (task[t].op = "send" => task[t].msg \in typed)
    BY DEF CallsOK
  <1>2. ASSUME NEW m \in Msgs, Send(t, m) PROVE TypeInv'
    <2> DEFINE k == [Idle EXCEPT !.pc = "open", !.op = "send", !.msg = m]
    <2>1. k \in Calls /\ k.msg = m /\ k.pc # "idle"
      BY IdleIsCall DEF Calls, Steps, Idle
    <2>2. Becomes(t, k) /\ m \in typed'
      BY <1>2 DEF Send, Becomes
    <2> HIDE DEF k
    <2>3. CallsOK'
      BY <1>2, <2>1, <2>2, BecomesType DEF Send
    <2>4. UNCHANGED <<device, server, refused, unsent, bounds>> /\ typed' = typed \cup {m}
      BY <1>2 DEF Send
    <2> QED  BY <2>3, <2>4 DEF RowsOK, NumbersOK, PlacesOK, device, server, bounds
  <1>3. CASE FlushOutbox(t)
    <2> DEFINE k == [Idle EXCEPT !.pc = "open", !.rows = outbox]
    <2>1. k \in Calls /\ k.op = "flush"
      BY IdleIsCall DEF Calls, Steps, Idle, RowsOK
    <2>2. Becomes(t, k)
      BY <1>3 DEF FlushOutbox, Becomes
    <2> HIDE DEF k
    <2>3. CallsOK'
      BY <1>3, <2>1, <2>2, BecomesType DEF FlushOutbox
    <2>4. UNCHANGED <<device, server, texts, bounds>>
      BY <1>3 DEF FlushOutbox
    <2> QED  BY <2>3, <2>4 DEF RowsOK, NumbersOK, PlacesOK, device, server, bounds
  <1>4. CASE OpenConversation(t)
    <2>1. PICK e \in 1 .. lastEpoch + 1 :
            /\ Current(e) /\ Opens(e)
            /\ task' = [task EXCEPT ![t].opened = e, ![t].epoch = e,
                          ![t].pc = IF task[t].op = "send" THEN "encrypt" ELSE "identity"]
      BY <1>4 DEF OpenConversation
    <2> DEFINE s == IF task[t].op = "send" THEN "encrypt" ELSE "identity"
               k == [task[t] EXCEPT !.opened = e, !.epoch = e, !.pc = s]
    <2>2. e \in Nat /\ s \in Steps /\ s # "idle"
      BY <2>1, OpensIs DEF Steps
    <2>3. Becomes(t, k)
      BY <1>1, <2>1 DEF Becomes, CallsOK, Calls
    <2>4. k \in Calls /\ k.op = task[t].op /\ k.msg = task[t].msg /\ k.pc = s
      BY <1>1, <2>2 DEF Calls
    <2> HIDE DEF k, s
    <2>5. UNCHANGED <<device, published, stored, peer, texts, bounds>>
      BY <1>4 DEF OpenConversation
    <2>6. CallsOK'
      BY <1>1, <2>2, <2>3, <2>4, <2>5, BecomesType
    <2>7. NumbersOK'
      BY <2>1, <2>5, OpensIs DEF NumbersOK, device, bounds
    <2> QED  BY <2>5, <2>6, <2>7 DEF RowsOK, PlacesOK, device
  <1>5. CASE FlushIdentity(t)
    <2> DEFINE k == [task[t] EXCEPT !.identity = identity]
    <2>1. k \in Calls /\ k.op = task[t].op /\ k.msg = task[t].msg
      BY <1>1 DEF Calls, NumbersOK
    <2>2. Becomes(t, WithNextRow(k)) /\ WithNextRow(k) \in Calls
      BY <1>5, <2>1, NextRowType DEF FlushIdentity, Becomes
    <2>4. UNCHANGED <<device, server, texts, bounds>>
      BY <1>5 DEF FlushIdentity
    <2> HIDE DEF k
    <2>5. CallsOK'
      BY <1>1, <2>1, <2>2, <2>4, NextRowKeeps, BecomesType
    <2> QED  BY <2>4, <2>5 DEF RowsOK, NumbersOK, PlacesOK, device, server, bounds
  <1> QED  BY <1>2, <1>3, <1>4, <1>5

\* and encryptMessage,
LEMMA EncryptTypes ==
  ASSUME TypeInv, NEW t \in Tasks, EncryptMessage(t) \/ BuildSession(t) \/ CommitRow(t)
  PROVE  TypeInv'
  <1> USE DEF TypeInv
  <1>1. task[t] \in Calls /\ (task[t].op = "send" => task[t].msg \in typed)
    BY DEF CallsOK
  <1>2. CASE EncryptMessage(t) \/ BuildSession(t)
    <2>1. /\ UNCHANGED <<outbox, history, state, identity, session, lastNonce, server, typed, refused, bounds>>
          /\ lock' \in {lock, t, Free}
          /\ \/ Throw(t)
             \/ NextRow(t) /\ UNCHANGED unsent
             \/ (\E s \in Steps \ {"idle"} : Goto(t, s)) /\ UNCHANGED unsent
      <3>1. "bundle" \in Steps \ {"idle"} /\ "commit" \in Steps \ {"idle"}
        BY DEF Steps
      <3> QED  BY <1>2, <3>1 DEF EncryptMessage, BuildSession
    <2>2. CallsOK'
      BY <2>1, EndType, ThrowType
    <2> QED  BY <2>1, <2>2 DEF RowsOK, NumbersOK, PlacesOK, server, bounds
  <1>3. CASE CommitRow(t)
    <2> DEFINE r == NewRow(task[t])
               k == [task[t] EXCEPT !.row = r, !.pc = "send"]
    <2>1. r \in Rows
      <3>1. task[t].msg \in Nat /\ task[t].epoch \in Nat /\ task[t].row \in Rows
        <4>1. task[t].msg \in Msgs \cup {0} /\ Msgs \cup {0} \subseteq Nat
          BY <1>1, OutboxAssumption DEF Calls
        <4> QED  BY <1>1, <4>1 DEF Calls
      <3>2. task[t].row.msg \in Nat /\ lastNonce + 1 \in Nat /\ identity \in Nat
        BY <3>1 DEF Rows, NumbersOK
      <3> QED  BY <3>1, <3>2 DEF NewRow, Rows
    <2>2. k \in Calls /\ k.op = task[t].op /\ k.msg = task[t].msg /\ k.pc # "idle"
      BY <1>1, <2>1 DEF Calls, Steps
    <2>3. Becomes(t, k)
      BY <1>1, <1>3 DEF CommitRow, Becomes, CallsOK, Calls
    <2>4. /\ outbox' = (outbox \ {task[t].row}) \cup {r}
          /\ session' = task[t].epoch /\ lastNonce' = lastNonce + 1 /\ lock' = Free
          /\ UNCHANGED <<history, state, identity, server, texts, bounds>>
      BY <1>3 DEF CommitRow
    <2>5. session' \in Nat
      BY <1>1, <2>4 DEF Calls
    <2> HIDE DEF k, r
    <2>6. CallsOK'
      BY <1>1, <2>2, <2>3, <2>4, BecomesType
    <2> QED  BY <2>1, <2>4, <2>5, <2>6 DEF RowsOK, NumbersOK, PlacesOK, server, bounds
  <1> QED  BY <1>2, <1>3

\* and send_message on the server,
LEMMA ServerTypes ==
  ASSUME TypeInv, NEW t \in Tasks, SendMessage(t) \/ StoreMessage(t)
  PROVE  TypeInv'
  <1> USE DEF TypeInv
  <1>1. task[t] \in Calls
    BY DEF CallsOK
  <1>2. CASE SendMessage(t)
    <2>1. UNCHANGED <<device, published, stored, peer, texts, bounds>>
      BY <1>2 DEF SendMessage
    <2>2. NumbersOK' /\ CallsOK'
      <3>1. {"ok", "invalid", "superseded", "stale_epoch", "in_flight"} \subseteq Replies
            /\ "store" \in Steps \ {"idle"}
        BY DEF Replies, Steps
      <3>2. CASE /\ UNCHANGED <<epoch, lastEpoch>>
                 /\ Answer(t, "invalid", 0) \/ Answer(t, "superseded", 0)
        BY <2>1, <3>1, <3>2, AnswerType DEF NumbersOK, device, bounds
      <3>3. ASSUME NEW e \in 1 .. lastEpoch + 1, Current(e), Opens(e),
                   \/ Answer(t, "stale_epoch", e) \/ Answer(t, "ok", e) \/ Answer(t, "in_flight", e)
                   \/ Goto(t, "store")
            PROVE  NumbersOK' /\ CallsOK'
        <4>1. e \in Nat
          BY <3>3, OpensIs
        <4>2. CallsOK'
          BY <2>1, <3>1, <3>3, <4>1, AnswerType, EndType
        <4>3. NumbersOK'
          BY <2>1, <3>3, OpensIs DEF NumbersOK, device, bounds
        <4> QED  BY <4>2, <4>3
      <3> QED  BY <1>2, <3>2, <3>3 DEF SendMessage
    <2> QED  BY <2>1, <2>2 DEF RowsOK, PlacesOK, device
  <1>3. CASE StoreMessage(t)
    <2>1. /\ UNCHANGED <<device, epoch, lastEpoch, published, peer, texts, bounds>>
          /\ stored' \in {stored, stored \cup {task[t].row}}
          /\ Answer(t, "ok", epoch) \/ Answer(t, "stale_epoch", epoch)
      BY <1>3 DEF StoreMessage
    <2>2. task[t].row \in Rows
      BY <1>1 DEF Calls
    <2>3. CallsOK'
      BY <2>1, AnswerType DEF Replies, NumbersOK
    <2> QED  BY <2>1, <2>2, <2>3 DEF RowsOK, PlacesOK, NumbersOK, device, bounds
  <1> QED  BY <1>2, <1>3

\* What deliver does with a reply
LEMMA DeliverIs ==
  ASSUME NEW t \in Tasks, Deliver(t)
  PROVE  /\ task[t].pc = "reply"
         /\ UNCHANGED <<device, server, typed, refused, bounds>>
         /\ \/ /\ task[t].reply = "ok" /\ task' = [task EXCEPT ![t].pc = "ack", ![t].reply = "none"]
               /\ UNCHANGED unsent
            \/ task[t].reply # "ok" /\ Throw(t)
            \/ /\ task[t].reply = "stale_epoch" /\ GoesOn(t)
               /\ Retry(t, "encrypt", task[t].epoch) /\ UNCHANGED unsent
            \/ /\ task[t].reply = "in_flight" /\ GoesOn(t)
               /\ Retry(t, "send", task[t].epoch) /\ UNCHANGED unsent
            \/ /\ task[t].reply = "superseded" /\ task[t].row.identity # identity /\ GoesOn(t)
               /\ Retry(t, "encrypt", task[t].row.epoch) /\ UNCHANGED unsent
            \/ task[t].reply = "superseded" /\ Goto(t, "supersede") /\ UNCHANGED unsent
            \/ task[t].reply = "invalid" /\ Goto(t, "drop") /\ UNCHANGED unsent
  BY DEF Deliver, At

\* and deliver on its reply,
LEMMA DeliverTypes ==
  ASSUME TypeInv, NEW t \in Tasks, Deliver(t)
  PROVE  TypeInv'
  <1> USE DEF TypeInv
  <1>1. task[t] \in Calls /\ (task[t].op = "send" => task[t].msg \in typed)
    BY DEF CallsOK
  <1>2. UNCHANGED <<device, server, typed, bounds>>
    BY DeliverIs
  <1>3. CallsOK'
    <2>1. CASE Throw(t)
      BY <1>2, <2>1, ThrowType
    <2>2. CASE Goto(t, "supersede") \/ Goto(t, "drop")
      BY <1>2, <2>2, EndType DEF Steps
    <2>3. ASSUME GoesOn(t), NEW s \in {"encrypt", "send"}, NEW e \in Nat, Retry(t, s, e)
          PROVE  CallsOK'
      BY <1>2, <2>3, RetryType
    <2>4. CASE task' = [task EXCEPT ![t].pc = "ack", ![t].reply = "none"]
      <3> DEFINE k == [task[t] EXCEPT !.pc = "ack", !.reply = "none"]
      <3>1. Becomes(t, k)
        BY <1>1, <2>4 DEF Becomes, CallsOK, Calls
      <3>2. k \in Calls /\ k.op = task[t].op /\ k.msg = task[t].msg /\ k.pc # "idle"
        BY <1>1 DEF Calls, Steps, Replies
      <3> HIDE DEF k
      <3> QED  BY <1>1, <1>2, <2>4, <3>1, <3>2, BecomesType
    <2>5. task[t].epoch \in Nat /\ task[t].row.epoch \in Nat
      BY <1>1 DEF Calls, Rows
    <2> QED  BY <2>1, <2>2, <2>3, <2>4, <2>5, DeliverIs
  <1> QED  BY <1>2, <1>3 DEF RowsOK, NumbersOK, PlacesOK, device, server, bounds

\* and the ends of a call: superseded, dropped, acknowledged, lost,
LEMMA EndTypes ==
  ASSUME TypeInv, NEW t \in Tasks,
         \/ SetSuperseded(t) \/ DropOutboxEntry(t) \/ Acknowledge(t) \/ MoveToHistory(t) \/ GiveUp(t)
  PROVE  TypeInv'
  <1> USE DEF TypeInv
  <1>1. task[t] \in Calls /\ task[t].row \in Rows
    BY DEF CallsOK, Calls
  <1>2. CASE SetSuperseded(t)
    BY <1>2, ThrowType DEF SetSuperseded, RowsOK, NumbersOK, PlacesOK, server, bounds
  <1>3. CASE DropOutboxEntry(t)
    BY <1>3, EndType DEF DropOutboxEntry, RowsOK, NumbersOK, PlacesOK, server, bounds
  <1>4. CASE Acknowledge(t)
    <2>1. "move" \in Steps \ {"idle"}
      BY DEF Steps
    <2> QED
      BY <1>4, <2>1, EndType DEF Acknowledge, RowsOK, NumbersOK, PlacesOK, device, server, bounds
  <1>5. CASE MoveToHistory(t)
    BY <1>1, <1>5, EndType DEF MoveToHistory, RowsOK, NumbersOK, PlacesOK, server, bounds
  <1>6. CASE GiveUp(t)
    <2>1. /\ faults' = faults + 1 /\ Throw(t) /\ lock' \in {lock, Free}
          /\ stored' \in {stored, stored \cup {task[t].row}}
          /\ UNCHANGED <<outbox, history, state, identity, session, lastNonce, epoch, lastEpoch,
                         published, peer, typed, refused, lastIdentity, resets>>
      BY <1>6 DEF GiveUp
    <2> QED  BY <1>1, <2>1, ThrowType DEF RowsOK, NumbersOK, PlacesOK
  <1> QED  BY <1>2, <1>3, <1>4, <1>5, <1>6

\* and identities, the peer, and the end of a conversation.
LEMMA EnvironmentTypes ==
  ASSUME TypeInv, Environment \/ PublishIdentity
  PROVE  TypeInv'
  <1>1. UNCHANGED <<outbox, history, stored, task, typed>>
    BY DEF Environment, PublishIdentity, ResetIdentity, OtherDeviceResets, OnIdentitySuperseded,
           PeerPublishes, ApproveIdentity, EndConversation, device, server
  <1>2. NumbersOK'
    BY DEF Environment, PublishIdentity, ResetIdentity, OtherDeviceResets, OnIdentitySuperseded,
           PeerPublishes, ApproveIdentity, EndConversation, device, server, bounds, TypeInv, NumbersOK
  <1>3. PlacesOK'
    BY <1>1
    DEF Environment, PublishIdentity, ResetIdentity, OtherDeviceResets, OnIdentitySuperseded,
        PeerPublishes, ApproveIdentity, EndConversation, device, server, TypeInv, PlacesOK
  <1> QED  BY <1>1, <1>2, <1>3 DEF TypeInv, RowsOK, CallsOK

\* Types that are inductive: calls under way keep the shape of their steps, and an open
\* epoch is the last one.
THEOREM TypesKept == Spec => []TypeInv
  <1>1. Init => TypeInv
    BY IdleIsCall DEF Init, TypeInv, RowsOK, NumbersOK, PlacesOK, CallsOK, Idle
  <1>2. TypeInv /\ [Next]_vars => TypeInv'
    <2> SUFFICES ASSUME TypeInv, [Next]_vars PROVE TypeInv'
      OBVIOUS
    <2>1. CASE UNCHANGED vars
      BY <2>1 DEF vars, device, server, bounds, TypeInv, RowsOK, NumbersOK, PlacesOK, CallsOK
    <2>2. CASE Next
      BY <2>2, CallTypes, EncryptTypes, ServerTypes, DeliverTypes, EndTypes, EnvironmentTypes
      DEF Next, Step
    <2> QED  BY <2>1, <2>2
  <1> QED  BY <1>1, <1>2, PTL DEF Spec

-----------------------------------------------------------------------------
(* The rows that may still be stored                                       *)

Held(k) == k.rows \cup ({k.row} \ {NoRow})
Live == outbox \cup stored \cup UNION {Held(task[t]) : t \in Tasks}

\* An epoch that is not the current one, nor a later one
Over(e) == epoch = 0 \/ e < epoch
Older(r, e, i) == r.epoch < e \/ (r.epoch = e /\ r.identity < i)
\* A row of epoch e and identity i is newer than each of message m; with no epoch, it
\* follows rows whose epochs are over.
Newest(m, e, i) ==
  \A r \in Live : r.msg = m => IF e = 0 THEN Over(r.epoch) ELSE Older(r, e, i)

LiveOK ==
  \A r \in Live : /\ r.msg \in typed /\ r.nonce \in 1 .. lastNonce
                  /\ r.epoch <= lastEpoch /\ r.identity <= identity

\* The pending row of a message is the newest of its rows.
PendingNewest ==
  \A p \in outbox, r \in Live :
    r.msg = p.msg /\ r # p =>
      IF p.epoch = 0 THEN Over(r.epoch) ELSE Older(r, p.epoch, p.identity)

\* No two rows of a message were encrypted for the same epoch with the same identity.
EncryptedOnce ==
  \A r1, r2 \in Live :
    r1.msg = r2.msg /\ r1.epoch = r2.epoch /\ r1.identity = r2.identity /\ r1.epoch # 0 =>
      r1 = r2

StoredOK == \A r \in stored : r.epoch # 0

\* A call of send that has not queued its message yet
New(k) == k.op = "send" /\ k.row = NoRow
NewOnce == \A t, u \in Tasks : New(task[t]) /\ New(task[u]) /\ task[t].msg = task[u].msg => t = u

-----------------------------------------------------------------------------
(* What each call relies on                                                *)

HasRow == {"send", "store", "reply", "supersede", "drop", "ack", "move"}
Locked == {"bundle", "commit"}

ShapeOK(k) ==
  /\ k.pc \in HasRow => k.row # NoRow
  /\ k.pc \in {"encrypt"} \cup Locked /\ k.op = "flush" => k.row # NoRow
  /\ k.pc \in {"open", "identity"} => k.row = NoRow
  /\ k.pc = "identity" => k.op = "flush"
  /\ k.op = "send" => k.rows = {} /\ k.identity = 0
  /\ k.pc = "store" \/ (k.pc = "reply" /\ k.reply \in {"stale_epoch", "superseded"}) =>
       k.row.epoch # 0

LockOK(t) == task[t].pc \in Locked => lock = t
NewOK(k) == New(k) => \A r \in Live : r.msg # k.msg
AckOK(k) == k.pc \in {"ack", "move"} \/ (k.pc = "reply" /\ k.reply = "ok") => k.row \in stored

\* flushOutbox opens the conversation, and reads the identity, after it has read the rows.
OpenedOK(k) ==
  k.pc \notin {"idle", "open"} =>
    /\ k.opened # 0
    /\ \A x \in k.rows \cap outbox :
         /\ x.epoch <= k.opened
         /\ x.epoch = 0 => \A y \in Live : y.msg = x.msg /\ y # x => y.epoch < k.opened
IdentityOK(k) ==
  k.pc \notin {"idle", "open", "identity"} =>
    k.identity <= identity /\ \A x \in k.rows : x.identity <= k.identity

\* What is encrypted again becomes the newest row of its message, and the only pending one.
NewestOK(k) ==
  k.row # NoRow /\ (k.pc \in Locked \/ (k.pc = "encrypt" /\ k.row \in outbox)) =>
    Newest(k.row.msg, k.epoch, identity)
OnlyOK(k) ==
  k.row # NoRow /\ k.pc \in Locked => \A x \in outbox : x.msg = k.row.msg => x = k.row
StaleOK(k) ==
  k.pc = "reply" /\ k.reply = "stale_epoch" =>
    IF k.epoch = 0 THEN Over(k.row.epoch) ELSE k.row.epoch < k.epoch

CallOK(k) ==
  /\ ShapeOK(k) /\ NewOK(k) /\ AckOK(k) /\ OpenedOK(k) /\ IdentityOK(k)
  /\ NewestOK(k) /\ OnlyOK(k) /\ StaleOK(k)

\* Calls know no epoch that the server does not.
EpochOK == \A t \in Tasks : task[t].epoch <= lastEpoch /\ task[t].opened <= lastEpoch

Inv ==
  /\ LiveOK /\ PendingNewest /\ EncryptedOnce /\ OneRow /\ StoredOK /\ NewOnce
  /\ \A t \in Tasks : LockOK(t) /\ CallOK(task[t])

-----------------------------------------------------------------------------
(* Steps that encrypt nothing                                              *)

EpochMoves ==
  \/ UNCHANGED <<epoch, lastEpoch>>
  \/ epoch' = 0 /\ lastEpoch' = lastEpoch
  \/ epoch = 0 /\ epoch' = lastEpoch + 1 /\ lastEpoch' = lastEpoch + 1

\* No row is new, and no row comes back.
Quiet ==
  /\ outbox' \subseteq outbox /\ stored \subseteq stored' /\ Live' \subseteq Live
  /\ typed \subseteq typed' /\ lastNonce' = lastNonce /\ identity <= identity'
  /\ EpochMoves

\* A step that makes no row, and leaves a call with rows it had or found pending, adds no
\* live row.
LEMMA LiveFrom ==
  ASSUME NEW t \in Tasks, outbox' \subseteq outbox, stored' \subseteq stored \cup Held(task[t]),
         \A u \in Tasks : u # t => task'[u] = task[u],
         Held(task'[t]) \subseteq Held(task[t]) \cup outbox
  PROVE  Live' \subseteq Live
  <1>1. \A u \in Tasks : Held(task'[u]) \subseteq Live
    <2> TAKE u \in Tasks
    <2>1. CASE u = t
      BY <2>1 DEF Live
    <2>2. CASE u # t
      BY <2>2 DEF Live
    <2> QED  BY <2>1, <2>2
  <1>2. outbox' \subseteq Live /\ stored' \subseteq Live
    BY DEF Live
  <1>3. Live' = outbox' \cup stored' \cup UNION {Held(task'[u]) : u \in Tasks}
    BY DEF Live, Held
  <1> QED  BY <1>1, <1>2, <1>3

\* What a call holds is live.
LEMMA HeldIsLive ==
  ASSUME NEW t \in Tasks
  PROVE  /\ Held(task[t]) \subseteq Live /\ outbox \subseteq Live /\ stored \subseteq Live
         /\ task[t].row # NoRow => task[t].row \in Live
         /\ task[t].rows \subseteq Live
  BY DEF Live, Held

\* Live rows are rows.
LEMMA LiveRows ==
  ASSUME TypeInv
  PROVE  Live \subseteq Rows
  BY DEF Live, Held, TypeInv, RowsOK, CallsOK, Calls

\* What is over stays so.
LEMMA OverStays ==
  ASSUME TypeInv, EpochMoves, NEW e \in Nat, e <= lastEpoch, Over(e)
  PROVE  Over(e)'
  BY DEF TypeInv, NumbersOK, EpochMoves, Over

\* A step that makes no row keeps what the invariant says of rows,
LEMMA QuietRows ==
  ASSUME TypeInv, TypeInv', Quiet, LiveOK, PendingNewest, EncryptedOnce, OneRow
  PROVE  LiveOK' /\ PendingNewest' /\ EncryptedOnce' /\ OneRow'
  <1> USE DEF Quiet
  <1>0. Live \subseteq Rows
    BY LiveRows
  <1>1. LiveOK'
    <2> SUFFICES ASSUME NEW r \in Live'
                 PROVE  /\ r.msg \in typed' /\ r.nonce \in 1 .. lastNonce'
                        /\ r.epoch <= lastEpoch' /\ r.identity <= identity'
      BY DEF LiveOK
    <2>1. r \in Live /\ r \in Rows
      BY <1>0
    <2>2. lastEpoch <= lastEpoch'
      BY DEF EpochMoves, TypeInv, NumbersOK
    <2> QED  BY <2>1, <2>2 DEF LiveOK, TypeInv, NumbersOK, Rows
  <1>2. PendingNewest'
    <2> SUFFICES ASSUME NEW p \in outbox', NEW r \in Live', r.msg = p.msg, r # p
                 PROVE  IF p.epoch = 0 THEN Over(r.epoch)' ELSE Older(r, p.epoch, p.identity)
      BY DEF PendingNewest, Over, Older
    <2>1. p \in outbox /\ r \in Live /\ r \in Rows /\ r.epoch <= lastEpoch /\ r.epoch \in Nat
      BY <1>0 DEF LiveOK, Rows
    <2>2. IF p.epoch = 0 THEN Over(r.epoch) ELSE Older(r, p.epoch, p.identity)
      BY <2>1 DEF PendingNewest
    <2> QED  BY <2>1, <2>2, OverStays
  <1>3. EncryptedOnce'
    BY DEF EncryptedOnce
  <1>4. OneRow'
    BY DEF OneRow
  <1> QED  BY <1>1, <1>2, <1>3, <1>4

\* and of a call that does not move.
LEMMA QuietCall ==
  ASSUME TypeInv, TypeInv', Quiet, LiveOK, NEW k \in Calls, Held(k) \subseteq Live, CallOK(k)
  PROVE  CallOK(k)'
  <1> USE DEF Quiet
  <1>0. Live \subseteq Rows /\ (k.row # NoRow => k.row \in Live)
    BY LiveRows DEF Held
  <1>1. ShapeOK(k)' /\ NewOK(k)' /\ AckOK(k)'
    BY DEF CallOK, ShapeOK, NewOK, AckOK, New
  <1>2. OpenedOK(k)'
    BY DEF CallOK, OpenedOK
  <1>3. IdentityOK(k)'
    BY DEF CallOK, IdentityOK, TypeInv, NumbersOK, Calls
  <1>4. NewestOK(k)'
    <2> SUFFICES ASSUME k.row # NoRow, k.pc \in Locked \/ (k.pc = "encrypt" /\ k.row \in outbox'),
                        NEW r \in Live', r.msg = k.row.msg
                 PROVE  IF k.epoch = 0 THEN Over(r.epoch)' ELSE Older(r, k.epoch, identity')
      BY DEF NewestOK, Newest, Over, Older
    <2>1. r \in Live /\ r \in Rows /\ r.epoch \in Nat /\ r.epoch <= lastEpoch /\ r.identity \in Nat
      BY <1>0 DEF LiveOK, Rows
    <2>2. IF k.epoch = 0 THEN Over(r.epoch) ELSE Older(r, k.epoch, identity)
      BY <2>1 DEF CallOK, NewestOK, Newest
    <2>3. Older(r, k.epoch, identity) => Older(r, k.epoch, identity')
      BY <2>1 DEF Older, TypeInv, NumbersOK
    <2> QED  BY <2>1, <2>2, <2>3, OverStays
  <1>5. OnlyOK(k)'
    BY DEF CallOK, OnlyOK
  <1>6. StaleOK(k)'
    <2>1. k.pc = "reply" => k.row \in Live /\ k.row.epoch \in Nat /\ k.row.epoch <= lastEpoch
      BY <1>0 DEF CallOK, ShapeOK, HasRow, LiveOK, Rows
    <2> QED  BY <2>1, OverStays DEF CallOK, StaleOK
  <1> QED  BY <1>1, <1>2, <1>3, <1>4, <1>5, <1>6 DEF CallOK

\* What holds of a call's record holds of the call.
LEMMA CallIs ==
  ASSUME NEW u \in Tasks, NEW k, task'[u] = k, CallOK(k)'
  PROVE  CallOK(task[u])'
  BY DEF CallOK, ShapeOK, NewOK, AckOK, New, OpenedOK, IdentityOK, NewestOK, Newest, OnlyOK, StaleOK,
         Older, Over, Live, Held

\* Only call t, if any, moves; what it moves to is right, and the others keep the lock.
Moves(t) == \A u \in Tasks \ {t} : task'[u] = task[u] /\ (lock = u => lock' = u)

\* Steps of the calls that encrypt nothing keep the invariant.
LEMMA QuietStep ==
  ASSUME TypeInv, TypeInv', Inv, Quiet, StoredOK', NEW t \in Tasks, Moves(t),
         CallOK(task[t])', LockOK(t)',
         New(task'[t]) => \/ New(task[t]) /\ task'[t].msg = task[t].msg
                          \/ task'[t].msg \notin typed
  PROVE  Inv'
  <1>1. LiveOK' /\ PendingNewest' /\ EncryptedOnce' /\ OneRow'
    BY QuietRows DEF Inv
  <1>2. ASSUME NEW u \in Tasks, u # t PROVE LockOK(u)' /\ CallOK(task[u])'
    <2>1. task'[u] = task[u] /\ (lock = u => lock' = u)
      BY <1>2 DEF Moves
    <2>2. PICK k \in Calls : k = task[u]
      BY DEF TypeInv, CallsOK
    <2>3. Held(k) \subseteq Live
      BY <2>2, HeldIsLive
    <2>4. CallOK(k)
      BY <2>2 DEF Inv
    <2>5. CallOK(k)'
      BY <2>3, <2>4, QuietCall DEF Inv
    <2>6. LockOK(u)'
      BY <2>1 DEF Inv, LockOK
    <2> QED  BY <2>1, <2>2, <2>5, <2>6, CallIs
  <1>3. NewOnce'
    <2>1. \A u \in Tasks : New(task[u]) => task[u].msg \in typed
      BY DEF New, TypeInv, CallsOK
    <2>2. \A u \in Tasks : u # t => task'[u] = task[u]
      BY DEF Moves
    <2>3. \A u \in Tasks : u # t => (New(task'[u]) <=> New(task[u])) /\ task'[u].msg = task[u].msg
      BY <2>2
    <2> QED  BY <2>1, <2>3 DEF Inv, NewOnce, New
  <1> QED  BY <1>1, <1>2, <1>3 DEF Inv

\* A call that is over, or takes the next row
LEMMA IdleOK == CallOK(Idle) /\ Held(Idle) = {} /\ ~New(Idle) /\ Idle.pc = "idle"
  BY DEF CallOK, ShapeOK, NewOK, AckOK, New, OpenedOK, IdentityOK, NewestOK, OnlyOK, StaleOK, Idle,
         Locked, HasRow, Held

\* A call that takes its next row knows of it what the next step needs: its epoch and
\* identity were read after the rows.
LEMMA NextRowOK ==
  ASSUME TypeInv, Inv, NEW k \in Calls, k.rows \subseteq Live, k.op = "send" => k.rows = {},
         k.opened # 0, k.identity <= identity, \A x \in k.rows : x.identity <= k.identity,
         \A x \in k.rows \cap outbox :
           /\ x.epoch <= k.opened
           /\ x.epoch = 0 => \A y \in Live : y.msg = x.msg /\ y # x => y.epoch < k.opened
  PROVE  /\ CallOK(WithNextRow(k)) /\ ~New(WithNextRow(k))
         /\ WithNextRow(k).pc \in {"idle", "send", "encrypt"}
         /\ Held(WithNextRow(k)) \subseteq k.rows
  <1>1. CASE WithNextRow(k) = Idle
    BY <1>1, IdleOK
  <1>2. ASSUME NEW r \in k.rows, NEW s \in {"send", "encrypt"}, WithNextRow(k) = Takes(k, r, s),
               s = "send" \/ r.epoch # k.opened \/ r.identity # k.identity
        PROVE  /\ CallOK(WithNextRow(k)) /\ ~New(WithNextRow(k))
               /\ WithNextRow(k).pc \in {"idle", "send", "encrypt"}
               /\ Held(WithNextRow(k)) \subseteq k.rows
    <2> DEFINE n == Takes(k, r, s)
    <2>1. /\ n.pc = s /\ n.row = r /\ n.rows = k.rows \ {r} /\ n.epoch = k.opened
          /\ n.op = k.op /\ n.opened = k.opened /\ n.identity = k.identity
      BY DEF Takes, Calls
    <2> HIDE DEF n
    <2>2. Live \subseteq Rows /\ r \in Live /\ r \in Rows /\ r # NoRow /\ k.op = "flush"
      BY LiveRows DEF Inv, LiveOK, NoRow, Calls
    <2>3. ShapeOK(n) /\ NewOK(n) /\ AckOK(n) /\ OnlyOK(n) /\ StaleOK(n) /\ ~New(n)
      BY <2>1, <2>2 DEF ShapeOK, NewOK, AckOK, OnlyOK, StaleOK, New, Locked, HasRow
    <2>4. OpenedOK(n) /\ IdentityOK(n)
      BY <2>1 DEF OpenedOK, IdentityOK
    <2>5. NewestOK(n)
      <3> SUFFICES ASSUME s = "encrypt", r \in outbox, NEW x \in Live, x.msg = r.msg
                   PROVE  Older(x, k.opened, identity)
        BY <2>1 DEF NewestOK, Newest, Locked
      <3>1. /\ x.epoch \in Nat /\ r.epoch \in Nat /\ k.opened \in Nat /\ identity \in Nat
            /\ x.identity \in Nat /\ r.identity \in Nat /\ k.identity \in Nat
        BY <2>2 DEF Rows, Calls, TypeInv, NumbersOK
      <3>2. r.epoch <= k.opened /\ r.identity <= k.identity /\ k.identity <= identity
        OBVIOUS
      <3>3. r.epoch # k.opened \/ r.identity # k.identity
        BY <1>2
      <3>4. CASE x = r
        BY <3>1, <3>2, <3>3, <3>4 DEF Older
      <3>5. CASE x # r /\ r.epoch = 0
        BY <3>1, <3>5 DEF Older
      <3>6. CASE x # r /\ r.epoch # 0
        <4>1. Older(x, r.epoch, r.identity)
          BY <3>6 DEF Inv, PendingNewest
        <4> QED  BY <3>1, <3>2, <3>3, <4>1 DEF Older
      <3> QED  BY <3>4, <3>5, <3>6
    <2>6. Held(n) \subseteq k.rows
      BY <2>1 DEF Held
    <2> QED  BY <1>2, <2>1, <2>3, <2>4, <2>5, <2>6 DEF CallOK, n
  <1> QED  BY <1>1, <1>2, NextRowIs

\* The same of a call that is done with its row
LEMMA NextRowKept ==
  ASSUME TypeInv, Inv, NEW t \in Tasks, task[t].pc \notin {"idle", "open", "identity"}
  PROVE  LET n == WithNextRow(task[t])
         IN n \in Calls /\ CallOK(n) /\ ~New(n) /\ n.pc \notin Locked /\ Held(n) \subseteq Held(task[t])
  <1>1. task[t] \in Calls /\ task[t].rows \subseteq Live
    BY HeldIsLive DEF TypeInv, CallsOK
  <1>2. CallOK(task[t])
    BY DEF Inv
  <1>3. /\ task[t].op = "send" => task[t].rows = {}
        /\ task[t].opened # 0 /\ task[t].identity <= identity
        /\ \A x \in task[t].rows : x.identity <= task[t].identity
        /\ \A x \in task[t].rows \cap outbox :
             /\ x.epoch <= task[t].opened
             /\ x.epoch = 0 => \A y \in Live : y.msg = x.msg /\ y # x => y.epoch < task[t].opened
    BY <1>2 DEF CallOK, ShapeOK, OpenedOK, IdentityOK
  <1>4. PICK k \in Calls : k = task[t]
    BY <1>1
  <1>5. CallOK(WithNextRow(k)) /\ ~New(WithNextRow(k)) /\ Held(WithNextRow(k)) \subseteq k.rows
        /\ WithNextRow(k).pc \in {"idle", "send", "encrypt"}
    BY <1>1, <1>3, <1>4, NextRowOK
  <1>6. WithNextRow(k) \in Calls
    BY NextRowType
  <1> QED  BY <1>4, <1>5, <1>6 DEF Held, Locked

\* A step of call t that leaves it right where it was decided
LEMMA QuietMove ==
  ASSUME TypeInv, TypeInv', Inv, NEW t \in Tasks, NEW k \in Calls, Becomes(t, k), CallOK(k),
         Held(k) \subseteq Held(task[t]) \cup outbox,
         outbox' \subseteq outbox, stored' = stored,
         typed \subseteq typed', lastNonce' = lastNonce, identity <= identity', EpochMoves,
         \A u \in Tasks \ {t} : lock = u => lock' = u,
         k.pc \in Locked => lock' = t,
         New(k) => (New(task[t]) /\ k.msg = task[t].msg) \/ k.msg \notin typed
  PROVE  Inv'
  <1>1. task'[t] = k /\ \A u \in Tasks : u # t => task'[u] = task[u]
    BY BecomesIs DEF TypeInv
  <1>2. Quiet
    BY <1>1, LiveFrom DEF Quiet
  <1>3. Held(k) \subseteq Live
    BY HeldIsLive
  <1>4. CallOK(task[t])'
    BY <1>1, <1>2, <1>3, QuietCall, CallIs DEF Inv
  <1>5. StoredOK' /\ LockOK(t)' /\ Moves(t)
    BY <1>1 DEF Inv, StoredOK, LockOK, Moves
  <1> QED  BY <1>1, <1>2, <1>4, <1>5, QuietStep

\* send queues nothing yet: its message is new.
LEMMA SendKept ==
  ASSUME TypeInv, TypeInv', Inv, NEW t \in Tasks, NEW m \in Msgs, Send(t, m)
  PROVE  Inv'
  <1> DEFINE k == [Idle EXCEPT !.pc = "open", !.op = "send", !.msg = m]
  <1>1. /\ k \in Calls /\ k.pc = "open" /\ k.op = "send" /\ k.msg = m /\ k.row = NoRow /\ k.rows = {}
        /\ k.identity = 0
    BY IdleIsCall DEF Calls, Steps, Idle
  <1>2. /\ Becomes(t, k) /\ m \notin typed /\ typed' = typed \cup {m}
        /\ UNCHANGED <<outbox, stored, lastNonce, identity, epoch, lastEpoch, lock>>
    BY DEF Send, Becomes, device, server
  <1> HIDE DEF k
  <1>3. CallOK(k)
    BY <1>1, <1>2
    DEF CallOK, ShapeOK, NewOK, AckOK, OpenedOK, IdentityOK, NewestOK, OnlyOK, StaleOK, Inv, LiveOK,
        Locked, HasRow
  <1>4. Held(k) = {}
    BY <1>1 DEF Held
  <1> QED
    BY <1>1, <1>2, <1>3, <1>4, QuietMove DEF EpochMoves, TypeInv, NumbersOK, Locked

\* flushOutbox takes the rows that are pending.
LEMMA FlushKept ==
  ASSUME TypeInv, TypeInv', Inv, NEW t \in Tasks, FlushOutbox(t)
  PROVE  Inv'
  <1> DEFINE k == [Idle EXCEPT !.pc = "open", !.rows = outbox]
  <1>1. k \in Calls /\ k.pc = "open" /\ k.op = "flush" /\ k.row = NoRow /\ k.rows = outbox
    BY IdleIsCall DEF Calls, Steps, Idle, TypeInv, RowsOK
  <1>2. /\ Becomes(t, k) /\ UNCHANGED <<outbox, stored, typed, lastNonce, identity, epoch, lastEpoch, lock>>
    BY DEF FlushOutbox, Becomes, device, server
  <1> HIDE DEF k
  <1>3. CallOK(k) /\ ~New(k)
    BY <1>1
    DEF CallOK, ShapeOK, NewOK, New, AckOK, OpenedOK, IdentityOK, NewestOK, OnlyOK, StaleOK, Locked,
        HasRow
  <1>4. Held(k) \subseteq outbox
    BY <1>1 DEF Held
  <1> QED
    BY <1>1, <1>2, <1>3, <1>4, QuietMove DEF EpochMoves, TypeInv, NumbersOK, Locked

\* The epoch that is opened is later than those that are over.
LEMMA OpenKept ==
  ASSUME TypeInv, TypeInv', Inv, NEW t \in Tasks, OpenConversation(t)
  PROVE  Inv'
  <1> DEFINE c == task[t]
  <1>1. PICK e \in 1 .. lastEpoch + 1 :
          /\ Current(e) /\ Opens(e)
          /\ task' = [task EXCEPT ![t].opened = e, ![t].epoch = e,
                        ![t].pc = IF task[t].op = "send" THEN "encrypt" ELSE "identity"]
    BY DEF OpenConversation
  <1> DEFINE s == IF c.op = "send" THEN "encrypt" ELSE "identity"
             k == [c EXCEPT !.opened = e, !.epoch = e, !.pc = s]
  <1>2. c \in Calls /\ CallOK(c) /\ c.pc = "open" /\ c.rows \subseteq Live
    BY HeldIsLive DEF TypeInv, CallsOK, Inv, OpenConversation, At
  <1>3. e \in Nat /\ e # 0 /\ s \in Steps
    BY <1>1, OpensIs DEF Steps
  <1>4. Becomes(t, k)
    BY <1>1, <1>2 DEF Becomes, CallsOK, Calls, TypeInv
  <1>5. /\ k \in Calls /\ k.op = c.op /\ k.msg = c.msg /\ k.row = c.row /\ k.rows = c.rows
        /\ k.pc = s /\ k.opened = e /\ k.identity = c.identity
    BY <1>2, <1>3 DEF Calls
  <1> HIDE DEF k
  <1>6. ShapeOK(k) /\ NewOK(k) /\ AckOK(k) /\ NewestOK(k) /\ OnlyOK(k) /\ StaleOK(k)
    <2>1. c.op \in {"send", "flush"} /\ c.row = NoRow
          /\ (c.op = "send" => c.rows = {} /\ c.identity = 0)
      BY <1>2 DEF CallOK, ShapeOK, Calls
    <2>2. NewOK(c)
      BY <1>2 DEF CallOK
    <2> QED
      BY <1>5, <2>1, <2>2 DEF ShapeOK, NewOK, New, AckOK, NewestOK, OnlyOK, StaleOK, Locked, HasRow
  <1>7. OpenedOK(k)
    <2> SUFFICES ASSUME NEW x \in k.rows \cap outbox
                 PROVE  /\ x.epoch <= e
                        /\ x.epoch = 0 => \A y \in Live : y.msg = x.msg /\ y # x => y.epoch < e
      BY <1>3, <1>5 DEF OpenedOK
    <2>1. \A y \in Live : y.epoch \in Nat /\ y.epoch <= lastEpoch
      BY LiveRows DEF Inv, LiveOK, Rows
    <2>2. x \in Live
      BY <1>2, <1>5
    <2>3. lastEpoch <= e /\ (epoch # 0 => epoch = e) /\ (epoch = 0 => e = lastEpoch + 1)
      BY <1>1, OpensIs DEF TypeInv, NumbersOK
    <2>4. ASSUME x.epoch = 0, NEW y \in Live, y.msg = x.msg, y # x PROVE y.epoch < e
      <3>1. Over(y.epoch)
        BY <2>4 DEF Inv, PendingNewest
      <3> QED  BY <2>1, <2>3, <3>1 DEF Over, TypeInv, NumbersOK
    <2> QED  BY <1>3, <2>1, <2>2, <2>3, <2>4 DEF TypeInv, NumbersOK
  <1>8. IdentityOK(k)
    BY <1>2, <1>5 DEF CallOK, ShapeOK, IdentityOK, TypeInv, NumbersOK
  <1>9. Held(k) = Held(c) /\ (New(k) <=> New(c)) /\ k.pc \notin Locked
    BY <1>5 DEF Held, New, Locked
  <1>10. EpochMoves
    BY <1>1, OpensIs DEF EpochMoves, TypeInv
  <1>11. UNCHANGED <<outbox, stored, typed, lastNonce, identity, lock>>
    BY DEF OpenConversation, device
  <1> QED
    BY <1>4, <1>5, <1>6, <1>7, <1>8, <1>9, <1>10, <1>11, QuietMove DEF CallOK, TypeInv, NumbersOK

\* flushOutbox reads the identity after the rows, so none of them is of a later one.
LEMMA FlushIdentityKept ==
  ASSUME TypeInv, TypeInv', Inv, NEW t \in Tasks, FlushIdentity(t)
  PROVE  Inv'
  <1> DEFINE c == task[t]
             k == [c EXCEPT !.identity = identity]
  <1>1. c \in Calls /\ CallOK(c) /\ c.pc = "identity" /\ c.rows \subseteq Live
    BY HeldIsLive DEF TypeInv, CallsOK, Inv, FlushIdentity, At
  <1>2. /\ k \in Calls /\ k.op = c.op /\ k.row = c.row /\ k.rows = c.rows /\ k.opened = c.opened
        /\ k.identity = identity
    BY <1>1 DEF Calls, TypeInv, NumbersOK
  <1>3. Becomes(t, WithNextRow(k)) /\ UNCHANGED <<outbox, stored, typed, lastNonce, identity, epoch, lastEpoch, lock>>
    BY DEF FlushIdentity, Becomes, device, server
  <1> HIDE DEF k
  <1>4. /\ k.op = "send" => k.rows = {}
        /\ k.opened # 0 /\ \A x \in k.rows : x.identity <= identity
        /\ \A x \in k.rows \cap outbox :
             /\ x.epoch <= k.opened
             /\ x.epoch = 0 => \A y \in Live : y.msg = x.msg /\ y # x => y.epoch < k.opened
    BY <1>1, <1>2 DEF CallOK, ShapeOK, OpenedOK, Inv, LiveOK
  <1>5. PICK j \in Calls : j = k
    BY <1>2
  <1>6. /\ CallOK(WithNextRow(j)) /\ ~New(WithNextRow(j)) /\ Held(WithNextRow(j)) \subseteq j.rows
        /\ WithNextRow(j).pc \in {"idle", "send", "encrypt"}
    BY <1>1, <1>2, <1>4, <1>5, NextRowOK DEF TypeInv, NumbersOK
  <1>7. WithNextRow(k) \in Calls /\ Held(WithNextRow(k)) \subseteq Held(c)
    BY <1>2, <1>5, <1>6, NextRowType DEF Held
  <1> QED
    BY <1>3, <1>5, <1>6, <1>7, QuietMove DEF EpochMoves, TypeInv, NumbersOK, Locked

\* A call that ends, or is done with its row, leaves nothing behind that others rely on.
LEMMA EndKept ==
  ASSUME TypeInv, TypeInv', Inv, NEW t \in Tasks,
         End(t) \/ (NextRow(t) /\ task[t].pc \notin {"idle", "open", "identity"}),
         outbox' \subseteq outbox,
         UNCHANGED <<stored, typed, lastNonce, identity, epoch, lastEpoch>>,
         \A u \in Tasks \ {t} : lock = u => lock' = u
  PROVE  Inv'
  <1>1. EpochMoves /\ identity <= identity'
    BY DEF EpochMoves, TypeInv, NumbersOK
  <1>2. CASE End(t)
    <2>1. PICK k \in Calls : k = Idle
      BY IdleIsCall
    <2>2. Becomes(t, k)
      BY <1>2, <2>1 DEF End, Becomes
    <2>3. CallOK(k) /\ Held(k) = {} /\ ~New(k) /\ k.pc \notin Locked
      BY <2>1, IdleOK DEF Locked
    <2> QED  BY <1>1, <2>2, <2>3, QuietMove
  <1>3. CASE NextRow(t) /\ task[t].pc \notin {"idle", "open", "identity"}
    <2>1. PICK k \in Calls : k = WithNextRow(task[t])
      BY <1>3, NextRowKept
    <2>2. Becomes(t, k)
      BY <1>3, <2>1 DEF NextRow, Becomes
    <2>3. CallOK(k) /\ Held(k) \subseteq Held(task[t]) /\ ~New(k) /\ k.pc \notin Locked
      BY <1>3, <2>1, NextRowKept
    <2> QED  BY <1>1, <2>2, <2>3, QuietMove
  <1> QED  BY <1>2, <1>3

\* A step that only moves the call on
LEMMA GoneTo ==
  ASSUME TypeInv, NEW t \in Tasks, NEW s \in Steps, Goto(t, s)
  PROVE  \E k \in Calls :
           /\ Becomes(t, k) /\ k.pc = s /\ Held(k) = Held(task[t]) /\ (New(k) <=> New(task[t]))
           /\ k.op = task[t].op /\ k.msg = task[t].msg /\ k.row = task[t].row
           /\ k.rows = task[t].rows /\ k.opened = task[t].opened /\ k.epoch = task[t].epoch
           /\ k.identity = task[t].identity /\ k.reply = task[t].reply
  <1> DEFINE k == [task[t] EXCEPT !.pc = s]
  <1>1. task[t] \in Calls
    BY DEF TypeInv, CallsOK
  <1>2. /\ k \in Calls /\ k.pc = s
        /\ k.op = task[t].op /\ k.msg = task[t].msg /\ k.row = task[t].row
        /\ k.rows = task[t].rows /\ k.opened = task[t].opened /\ k.epoch = task[t].epoch
        /\ k.identity = task[t].identity /\ k.reply = task[t].reply
    BY <1>1 DEF Calls
  <1>3. Becomes(t, k)
    BY <1>1 DEF Goto, Becomes, Calls, TypeInv, CallsOK
  <1> HIDE DEF k
  <1> QED  BY <1>2, <1>3 DEF Held, New

\* encryptMessage looks the row up again under the lock.
LEMMA EncryptKept ==
  ASSUME TypeInv, TypeInv', Inv, NEW t \in Tasks, EncryptMessage(t)
  PROVE  Inv'
  <1> DEFINE c == task[t]
  <1>1. c \in Calls /\ CallOK(c) /\ c.pc = "encrypt"
    BY DEF TypeInv, CallsOK, Inv, EncryptMessage, At
  <1>2. UNCHANGED <<outbox, stored, typed, lastNonce, identity, epoch, lastEpoch>> /\ lock = Free
    BY DEF EncryptMessage, server
  <1>3. CASE (End(t) \/ NextRow(t)) /\ UNCHANGED lock
    BY <1>1, <1>2, <1>3, EndKept
  <1>4. ASSUME NEW s \in Locked, Goto(t, s), lock' = t, ~Replaces(c) \/ Pending(c.row)
        PROVE  Inv'
    <2>1. PICK k \in Calls :
            /\ Becomes(t, k) /\ k.pc = s /\ Held(k) = Held(c) /\ (New(k) <=> New(c))
            /\ k.op = c.op /\ k.msg = c.msg /\ k.row = c.row
            /\ k.rows = c.rows /\ k.opened = c.opened /\ k.epoch = c.epoch
            /\ k.identity = c.identity /\ k.reply = c.reply
      BY <1>4, GoneTo DEF Locked, Steps
    <2>2. k.row # NoRow => k.row \in outbox
      BY <1>4, <2>1 DEF Replaces, Pending
    <2>3. ShapeOK(k) /\ NewOK(k) /\ AckOK(k) /\ OpenedOK(k) /\ IdentityOK(k) /\ StaleOK(k)
      BY <1>1, <2>1
      DEF CallOK, ShapeOK, NewOK, New, AckOK, OpenedOK, IdentityOK, StaleOK, Locked, HasRow
    <2>4. NewestOK(k)
      BY <1>1, <2>1, <2>2 DEF CallOK, NewestOK
    <2>5. OnlyOK(k)
      BY <2>2 DEF OnlyOK, Inv, OneRow
    <2>6. \A u \in Tasks \ {t} : lock # u
      BY <1>2, OutboxAssumption DEF Free
    <2>7. EpochMoves /\ identity <= identity'
      BY <1>2 DEF EpochMoves, TypeInv, NumbersOK
    <2> QED
      BY <1>2, <1>4, <2>1, <2>3, <2>4, <2>5, <2>6, <2>7, QuietMove DEF CallOK
  <1> QED  BY <1>3, <1>4 DEF EncryptMessage, Throw, Locked

\* buildSession goes on or gives the lock back.
LEMMA BuildKept ==
  ASSUME TypeInv, TypeInv', Inv, NEW t \in Tasks, BuildSession(t)
  PROVE  Inv'
  <1> DEFINE c == task[t]
  <1>1. c \in Calls /\ CallOK(c) /\ c.pc = "bundle" /\ lock = t
    BY DEF TypeInv, CallsOK, Inv, BuildSession, At, LockOK, Locked
  <1>2. UNCHANGED <<outbox, stored, typed, lastNonce, identity, epoch, lastEpoch>>
    BY DEF BuildSession, server
  <1>3. CASE End(t)
    BY <1>1, <1>2, <1>3, EndKept
  <1>4. CASE Goto(t, "commit") /\ UNCHANGED lock
    <2>1. PICK k \in Calls :
            /\ Becomes(t, k) /\ k.pc = "commit" /\ Held(k) = Held(c) /\ (New(k) <=> New(c))
            /\ k.op = c.op /\ k.msg = c.msg /\ k.row = c.row
            /\ k.rows = c.rows /\ k.opened = c.opened /\ k.epoch = c.epoch
            /\ k.identity = c.identity /\ k.reply = c.reply
      BY <1>4, GoneTo DEF Steps
    <2>2. CallOK(k)
      BY <1>1, <2>1
      DEF CallOK, ShapeOK, NewOK, New, AckOK, OpenedOK, IdentityOK, NewestOK, OnlyOK, StaleOK, Locked,
          HasRow
    <2>3. EpochMoves /\ identity <= identity'
      BY <1>2 DEF EpochMoves, TypeInv, NumbersOK
    <2> QED  BY <1>1, <1>2, <1>4, <2>1, <2>2, <2>3, QuietMove
  <1> QED  BY <1>3, <1>4 DEF BuildSession, Throw

-----------------------------------------------------------------------------
(* The step that encrypts                                                  *)

\* What every live row of message m has to be for a row r that replaces q, or none
Supersedes(r, q) ==
  /\ r \notin Live /\ r # NoRow /\ r \in Rows
  /\ \A x \in Live :
       x.msg = r.msg => IF r.epoch = 0 THEN Over(x.epoch) ELSE Older(x, r.epoch, r.identity)
  /\ \A x \in outbox \ {q} : x.msg # r.msg
  /\ \A u \in Tasks : task[u].pc \notin Locked /\ New(task[u]) => task[u].msg # r.msg

\* The new row is the newest of its message, and its call alone holds the lock.
LEMMA CommitSupersedes ==
  ASSUME TypeInv, TypeInv', Inv, NEW t \in Tasks, CommitRow(t)
  PROVE  /\ Supersedes(NewRow(task[t]), task[t].row) /\ NewRow(task[t]).msg \in typed
         /\ \A u \in Tasks \ {t} : task[u].pc \notin Locked
  <1> DEFINE c == task[t]
             r == NewRow(c)
  <1>1. c \in Calls /\ CallOK(c) /\ c.pc = "commit" /\ lock = t
    BY DEF TypeInv, CallsOK, Inv, CommitRow, At, LockOK, Locked
  <1>2. r \in Rows
    BY DEF CommitRow, TypeInv, RowsOK
  <1>3. /\ r.nonce = lastNonce + 1 /\ r.epoch = c.epoch /\ r.identity = identity
        /\ r.msg = IF c.row # NoRow THEN c.row.msg ELSE c.msg
    BY DEF NewRow, Replaces
  <1> HIDE DEF r
  <1>4. r \notin Live /\ r # NoRow
    BY <1>3 DEF Inv, LiveOK, TypeInv, NumbersOK, NoRow
  <1>5. \A u \in Tasks \ {t} : task[u].pc \notin Locked
    BY <1>1 DEF Inv, LockOK
  <1>6. c.row = NoRow => New(c)
    BY <1>1 DEF CallOK, ShapeOK, New, Locked, Calls
  <1>7. ASSUME NEW x \in Live, x.msg = r.msg
        PROVE  IF r.epoch = 0 THEN Over(x.epoch) ELSE Older(x, r.epoch, r.identity)
    <2>1. c.row # NoRow
      BY <1>1, <1>3, <1>6, <1>7 DEF CallOK, NewOK
    <2> QED  BY <1>1, <1>3, <1>7, <2>1 DEF CallOK, NewestOK, Newest, Locked
  <1>8. ASSUME NEW x \in outbox \ {c.row} PROVE x.msg # r.msg
    <2>1. x \in Live
      BY DEF Live
    <2> QED  BY <1>1, <1>3, <1>6, <2>1 DEF CallOK, NewOK, OnlyOK, Locked
  <1>9. ASSUME NEW u \in Tasks, task[u].pc \notin Locked, New(task[u]) PROVE task[u].msg # r.msg
    <2>1. u # t
      BY <1>1, <1>9 DEF Locked
    <2>2. CASE c.row = NoRow
      BY <1>3, <1>6, <1>9, <2>1, <2>2 DEF Inv, NewOnce
    <2>3. CASE c.row # NoRow
      BY <1>3, <1>9, <2>3, HeldIsLive DEF Inv, CallOK, NewOK
    <2> QED  BY <2>2, <2>3
  <1>10. r.msg \in typed
    <2>1. CASE c.row = NoRow
      BY <1>3, <1>6, <2>1 DEF New, TypeInv, CallsOK
    <2>2. CASE c.row # NoRow
      BY <1>3, <2>2, HeldIsLive DEF Inv, LiveOK
    <2> QED  BY <2>1, <2>2
  <1> QED  BY <1>2, <1>4, <1>5, <1>7, <1>8, <1>9, <1>10 DEF Supersedes, r

\* Calls that wait for the lock, or need none, do not depend on the row that is replaced.
LEMMA CommitCall ==
  ASSUME TypeInv, TypeInv', Inv, NEW r, NEW q, Supersedes(r, q), NEW k \in Calls, CallOK(k),
         Held(k) \subseteq Live, k.pc \notin Locked, New(k) => k.msg # r.msg,
         outbox' = (outbox \ {q}) \cup {r}, Live' \subseteq Live \cup {r},
         UNCHANGED <<stored, identity, epoch, lastEpoch>>
  PROVE  CallOK(k)'
  <1>1. ShapeOK(k)' /\ NewOK(k)' /\ AckOK(k)' /\ IdentityOK(k)' /\ OnlyOK(k)' /\ StaleOK(k)'
    BY DEF CallOK, ShapeOK, NewOK, New, AckOK, IdentityOK, OnlyOK, StaleOK, Over
  <1>2. \A x \in Held(k) \cap outbox' : x \in outbox /\ x.msg # r.msg
    BY DEF Supersedes
  <1>3. OpenedOK(k)'
    BY <1>2 DEF CallOK, OpenedOK, Held
  <1>4. NewestOK(k)'
    <2> SUFFICES ASSUME k.row # NoRow, k.pc = "encrypt", k.row \in outbox', NEW x \in Live',
                        x.msg = k.row.msg
                 PROVE  IF k.epoch = 0 THEN Over(x.epoch)' ELSE Older(x, k.epoch, identity')
      BY DEF NewestOK, Newest, Over, Older, Locked
    <2>1. k.row \in outbox /\ k.row.msg # r.msg
      BY <1>2 DEF Held
    <2>2. x \in Live
      BY <2>1
    <2> QED  BY <2>1, <2>2 DEF CallOK, NewestOK, Newest, Over
  <1> QED  BY <1>1, <1>3, <1>4 DEF CallOK

\* So the transaction of encryptMessage keeps the invariant.
LEMMA CommitKept ==
  ASSUME TypeInv, TypeInv', Inv, EpochOK, NEW t \in Tasks, CommitRow(t)
  PROVE  Inv'
  <1> DEFINE c == task[t]
  <1>1. c \in Calls /\ CallOK(c) /\ c.pc = "commit" /\ lock = t
    BY DEF TypeInv, CallsOK, Inv, CommitRow, At, LockOK, Locked
  <1>2. PICK r : r = NewRow(c)
    OBVIOUS
  <1>3. PICK q : q = c.row
    OBVIOUS
  <1>4. /\ r \notin Live /\ r # NoRow /\ r \in Rows /\ r.msg \in typed /\ Supersedes(r, q)
        /\ \A x \in Live :
             x.msg = r.msg => IF r.epoch = 0 THEN Over(x.epoch) ELSE Older(x, r.epoch, r.identity)
        /\ \A x \in outbox \ {q} : x.msg # r.msg
        /\ \A u \in Tasks : task[u].pc \notin Locked /\ New(task[u]) => task[u].msg # r.msg
        /\ \A u \in Tasks \ {t} : task[u].pc \notin Locked
    BY <1>2, <1>3, CommitSupersedes DEF Supersedes
  <1>5. /\ outbox' = (outbox \ {q}) \cup {r} /\ lastNonce' = lastNonce + 1
        /\ UNCHANGED <<stored, identity, typed, epoch, lastEpoch>>
    BY <1>2, <1>3 DEF CommitRow, server
  <1>6. r.nonce = lastNonce + 1 /\ r.epoch = c.epoch /\ r.identity = identity
    BY <1>2 DEF NewRow
  <1>7. PICK k : k = [c EXCEPT !.row = r, !.pc = "send"]
    OBVIOUS
  <1>8. /\ k \in Calls /\ k.pc = "send" /\ k.row = r /\ k.rows = c.rows /\ k.op = c.op
        /\ k.opened = c.opened /\ k.identity = c.identity /\ Held(k) = c.rows \cup {r}
    BY <1>1, <1>4, <1>7 DEF Calls, Steps, Held
  <1>9. task'[t] = k /\ \A u \in Tasks : u # t => task'[u] = task[u]
    <2>1. Becomes(t, k)
      BY <1>1, <1>2, <1>7 DEF CommitRow, Becomes, TypeInv, CallsOK, Calls
    <2> QED  BY <2>1, BecomesIs DEF TypeInv
  <1>10. Live' \subseteq Live \cup {r}
    <2>1. \A u \in Tasks : Held(task'[u]) \subseteq Live \cup {r}
      <3> TAKE u \in Tasks
      <3>1. CASE u = t
        BY <1>8, <1>9, <3>1, HeldIsLive
      <3>2. CASE u # t
        BY <1>9, <3>2, HeldIsLive
      <3> QED  BY <3>1, <3>2
    <2>2. Live' = outbox' \cup stored' \cup UNION {Held(task'[u]) : u \in Tasks}
      BY DEF Live, Held
    <2> QED  BY <1>5, <2>1, <2>2, HeldIsLive
  <1>11. LiveOK'
    <2> SUFFICES ASSUME NEW x \in Live'
                 PROVE  /\ x.msg \in typed' /\ x.nonce \in 1 .. lastNonce'
                        /\ x.epoch <= lastEpoch' /\ x.identity <= identity'
      BY DEF LiveOK
    <2>1. CASE x = r
      BY <1>4, <1>5, <1>6, <2>1 DEF EpochOK, TypeInv, NumbersOK
    <2>2. CASE x \in Live
      BY <1>5, <2>2 DEF Inv, LiveOK, TypeInv, NumbersOK
    <2> QED  BY <1>10, <2>1, <2>2
  <1>12. PendingNewest'
    <2> SUFFICES ASSUME NEW p \in outbox', NEW x \in Live', x.msg = p.msg, x # p
                 PROVE  IF p.epoch = 0 THEN Over(x.epoch) ELSE Older(x, p.epoch, p.identity)
      BY <1>5 DEF PendingNewest, Over, Older
    <2>1. CASE p = r
      BY <1>4, <1>10, <2>1
    <2>2. CASE p # r
      BY <1>4, <1>5, <1>10, <2>2 DEF Inv, PendingNewest
    <2> QED  BY <2>1, <2>2
  <1>13. EncryptedOnce'
    <2>1. ASSUME NEW x \in Live, x.msg = r.msg, x.epoch = r.epoch, x.identity = r.identity
          PROVE  r.epoch = 0
      <3>1. x.epoch \in Nat /\ x.identity \in Nat
        BY LiveRows DEF Rows
      <3> QED  BY <1>4, <2>1, <3>1 DEF Older
    <2> QED  BY <1>10, <2>1 DEF Inv, EncryptedOnce
  <1>14. OneRow'
    BY <1>4, <1>5 DEF Inv, OneRow
  <1>15. StoredOK'
    BY <1>5 DEF Inv, StoredOK
  <1>16. NewOnce'
    <2>1. ~New(task'[t])
      BY <1>4, <1>8, <1>9 DEF New
    <2>2. \A u \in Tasks : New(task'[u]) => New(task[u]) /\ task'[u] = task[u]
      BY <1>9, <2>1
    <2> QED  BY <2>2 DEF Inv, NewOnce, New
  <1>17. ASSUME NEW u \in Tasks, u # t PROVE LockOK(u)' /\ CallOK(task[u])'
    <2>1. PICK j \in Calls : j = task[u]
      BY DEF TypeInv, CallsOK
    <2>2. CallOK(j) /\ Held(j) \subseteq Live /\ j.pc \notin Locked /\ (New(j) => j.msg # r.msg)
      BY <1>4, <1>17, <2>1, HeldIsLive DEF Inv
    <2>3. CallOK(j)'
      BY <1>4, <1>5, <1>10, <2>2, CommitCall
    <2>4. LockOK(u)'
      BY <1>9, <1>17, <2>1, <2>2 DEF LockOK
    <2> QED  BY <1>9, <1>17, <2>1, <2>3, <2>4, CallIs
  <1>18. LockOK(t)' /\ CallOK(task[t])'
    <2>1. ShapeOK(k)' /\ NewOK(k)' /\ AckOK(k)' /\ NewestOK(k)' /\ OnlyOK(k)' /\ StaleOK(k)'
      BY <1>1, <1>4, <1>8
      DEF CallOK, ShapeOK, NewOK, New, AckOK, NewestOK, OnlyOK, StaleOK, Locked, HasRow
    <2>2. \A x \in c.rows \cap outbox' : x \in outbox /\ x.msg # r.msg
      BY <1>4, <1>5, HeldIsLive
    <2>3. OpenedOK(k)'
      BY <1>1, <1>8, <1>10, <2>2 DEF CallOK, OpenedOK
    <2>4. IdentityOK(k)'
      BY <1>1, <1>5, <1>8 DEF CallOK, IdentityOK
    <2>5. CallOK(k)'
      BY <2>1, <2>3, <2>4 DEF CallOK
    <2> QED  BY <1>8, <1>9, <2>5, CallIs DEF LockOK, Locked
  <1> QED
    BY <1>11, <1>12, <1>13, <1>14, <1>15, <1>16, <1>17, <1>18 DEF Inv

-----------------------------------------------------------------------------
(* The server, and its replies                                             *)

\* A reply that is right, with the epoch it names
LEMMA AnswerKept ==
  ASSUME TypeInv, TypeInv', Inv, NEW t \in Tasks, task[t].pc \in {"send", "store"},
         NEW kind \in Replies, NEW e \in Nat, Answer(t, kind, e),
         kind = "ok" => task[t].row \in stored,
         kind \in {"stale_epoch", "superseded"} => task[t].row.epoch # 0,
         kind = "stale_epoch" => IF e = 0 THEN Over(task[t].row.epoch) ELSE task[t].row.epoch < e,
         UNCHANGED <<outbox, stored, typed, lastNonce, identity, lock>>, EpochMoves
  PROVE  Inv'
  <1> DEFINE c == task[t]
  <1>1. c \in Calls /\ CallOK(c)
    BY DEF TypeInv, CallsOK, Inv
  <1>2. PICK f \in {e, c.epoch} :
          /\ kind = "stale_epoch" => f = e
          /\ Becomes(t, [c EXCEPT !.pc = "reply", !.reply = kind, !.epoch = f])
    <2>1. "idle" \in Steps
      BY DEF Steps
    <2> QED  BY <2>1, Updates DEF TypeInv
  <1>3. PICK k : k = [c EXCEPT !.pc = "reply", !.reply = kind, !.epoch = f]
    OBVIOUS
  <1>4. /\ k \in Calls /\ k.pc = "reply" /\ k.reply = kind /\ k.epoch = f /\ k.op = c.op
        /\ k.row = c.row /\ k.rows = c.rows /\ k.opened = c.opened /\ k.identity = c.identity
    BY <1>1, <1>3 DEF Calls, Steps
  <1>5. c.row # NoRow
    BY <1>1 DEF CallOK, ShapeOK, HasRow
  <1>6. ShapeOK(k) /\ NewOK(k) /\ AckOK(k) /\ NewestOK(k) /\ OnlyOK(k)
    BY <1>1, <1>4, <1>5 DEF CallOK, ShapeOK, NewOK, New, AckOK, NewestOK, OnlyOK, Locked, HasRow
  <1>7. OpenedOK(k) /\ IdentityOK(k)
    BY <1>1, <1>4 DEF CallOK, OpenedOK, IdentityOK
  <1>8. StaleOK(k)
    BY <1>2, <1>4 DEF StaleOK
  <1>9. CallOK(k) /\ ~New(k) /\ Held(k) = Held(c) /\ k.pc \notin Locked
    BY <1>4, <1>5, <1>6, <1>7, <1>8 DEF CallOK, New, Held, Locked
  <1>10. Becomes(t, k) /\ identity <= identity'
    BY <1>2, <1>3 DEF TypeInv, NumbersOK
  <1> QED  BY <1>4, <1>9, <1>10, QuietMove

\* send_message answers by the current epoch.
LEMMA SendMessageKept ==
  ASSUME TypeInv, TypeInv', Inv, NEW t \in Tasks, SendMessage(t)
  PROVE  Inv'
  <1> DEFINE r == task[t].row
  <1>1. task[t] \in Calls /\ CallOK(task[t]) /\ task[t].pc = "send"
    BY DEF TypeInv, CallsOK, Inv, SendMessage, At
  <1>2. r \in Live /\ r.epoch \in Nat /\ r.epoch <= lastEpoch
    BY <1>1, HeldIsLive, LiveRows DEF CallOK, ShapeOK, HasRow, Inv, LiveOK, Rows
  <1>3. UNCHANGED <<outbox, stored, typed, lastNonce, identity, lock>>
    BY DEF SendMessage, device
  <1>4. {"ok", "invalid", "superseded", "stale_epoch", "in_flight"} \subseteq Replies /\ 0 \in Nat
    BY DEF Replies
  <1>5. CASE /\ Answer(t, "invalid", 0) \/ (r.epoch # 0 /\ Answer(t, "superseded", 0))
             /\ UNCHANGED <<epoch, lastEpoch>>
    BY <1>1, <1>3, <1>4, <1>5, AnswerKept DEF EpochMoves
  <1>6. ASSUME NEW e \in 1 .. lastEpoch + 1, Current(e), Opens(e), r.epoch # 0,
               \/ r.epoch # e /\ Answer(t, "stale_epoch", e)
               \/ r \in stored /\ Answer(t, "ok", e)
               \/ Answer(t, "in_flight", e)
               \/ Goto(t, "store")
        PROVE  Inv'
    <2>1. e \in Nat /\ e # 0 /\ lastEpoch <= e /\ EpochMoves
      BY <1>6, OpensIs DEF EpochMoves, TypeInv, NumbersOK
    <2>2. CASE r.epoch # e /\ Answer(t, "stale_epoch", e)
      <3>1. r.epoch < e
        BY <1>2, <2>1, <2>2 DEF TypeInv, NumbersOK
      <3> QED  BY <1>1, <1>3, <1>4, <1>6, <2>1, <2>2, <3>1, AnswerKept
    <2>3. CASE (r \in stored /\ Answer(t, "ok", e)) \/ Answer(t, "in_flight", e)
      BY <1>1, <1>3, <1>4, <2>1, <2>3, AnswerKept
    <2>4. CASE Goto(t, "store")
      <3>1. PICK k \in Calls :
              /\ Becomes(t, k) /\ k.pc = "store" /\ Held(k) = Held(task[t]) /\ (New(k) <=> New(task[t]))
              /\ k.op = task[t].op /\ k.msg = task[t].msg /\ k.row = task[t].row
              /\ k.rows = task[t].rows /\ k.opened = task[t].opened /\ k.epoch = task[t].epoch
              /\ k.identity = task[t].identity /\ k.reply = task[t].reply
        BY <2>4, GoneTo DEF Steps
      <3>2. CallOK(k) /\ k.pc \notin Locked
        BY <1>1, <1>6, <3>1
        DEF CallOK, ShapeOK, NewOK, New, AckOK, OpenedOK, IdentityOK, NewestOK, OnlyOK, StaleOK,
            Locked, HasRow
      <3>3. identity <= identity'
        BY <1>3 DEF TypeInv, NumbersOK
      <3> QED  BY <1>3, <2>1, <3>1, <3>2, <3>3, QuietMove
    <2> QED  BY <1>6, <2>2, <2>3, <2>4
  <1> QED  BY <1>5, <1>6 DEF SendMessage

\* A row that is stored was live, and had an epoch.
LEMMA StoreKept ==
  ASSUME TypeInv, TypeInv', Inv, NEW t \in Tasks, StoreMessage(t)
  PROVE  Inv'
  <1> DEFINE c == task[t]
             r == c.row
  <1>1. c \in Calls /\ CallOK(c) /\ c.pc = "store"
    BY DEF TypeInv, CallsOK, Inv, StoreMessage, At
  <1>2. r \in Live /\ r.epoch \in Nat /\ r.epoch <= lastEpoch /\ r.epoch # 0 /\ r # NoRow
    BY <1>1, HeldIsLive, LiveRows DEF CallOK, ShapeOK, HasRow, Inv, LiveOK, Rows
  <1>3. UNCHANGED <<outbox, typed, lastNonce, identity, lock, epoch, lastEpoch>>
    BY DEF StoreMessage, device
  <1>4. {"ok", "stale_epoch"} \subseteq Replies /\ epoch \in Nat /\ EpochMoves
    BY <1>3 DEF Replies, EpochMoves, TypeInv, NumbersOK
  <1>5. CASE r.epoch # epoch /\ UNCHANGED stored /\ Answer(t, "stale_epoch", epoch)
    <2>1. IF epoch = 0 THEN Over(r.epoch) ELSE r.epoch < epoch
      BY <1>2, <1>5 DEF Over, TypeInv, NumbersOK
    <2> QED  BY <1>1, <1>2, <1>3, <1>4, <1>5, <2>1, AnswerKept
  <1>6. CASE stored' = stored \cup {r} /\ Answer(t, "ok", epoch)
    <2>1. PICK f \in {epoch, c.epoch} :
            Becomes(t, [c EXCEPT !.pc = "reply", !.reply = "ok", !.epoch = f])
      <3>1. "idle" \in Steps
        BY DEF Steps
      <3> QED  BY <1>4, <1>6, <3>1, Updates DEF TypeInv
    <2>2. PICK k : k = [c EXCEPT !.pc = "reply", !.reply = "ok", !.epoch = f]
      OBVIOUS
    <2>3. /\ k \in Calls /\ k.pc = "reply" /\ k.reply = "ok" /\ k.epoch = f /\ k.op = c.op
          /\ k.row = r /\ k.rows = c.rows /\ k.opened = c.opened /\ k.identity = c.identity
      BY <1>1, <1>4, <2>2 DEF Calls, Steps, Replies
    <2>4. Becomes(t, k) /\ Held(k) = Held(c) /\ ~New(k)
      BY <1>2, <2>1, <2>2, <2>3 DEF Held, New
    <2>5. task'[t] = k /\ Moves(t)
      BY <1>3, <2>4, BecomesIs DEF TypeInv, Moves
    <2>6. r \in Held(c)
      BY <1>2 DEF Held
    <2>7. Quiet
      <3>1. Live' \subseteq Live
        BY <1>3, <1>6, <2>4, <2>5, <2>6, LiveFrom DEF Moves
      <3> QED  BY <1>3, <1>4, <1>6, <3>1 DEF Quiet, TypeInv, NumbersOK
    <2>8. StoredOK'
      BY <1>2, <1>6 DEF Inv, StoredOK
    <2>9. CallOK(k)'
      <3>1. ShapeOK(k)' /\ NewOK(k)' /\ AckOK(k)' /\ NewestOK(k)' /\ OnlyOK(k)' /\ StaleOK(k)'
        BY <1>1, <1>2, <1>6, <2>3
        DEF CallOK, ShapeOK, NewOK, New, AckOK, NewestOK, OnlyOK, StaleOK, Locked, HasRow
      <3>2. OpenedOK(k)' /\ IdentityOK(k)'
        BY <1>1, <1>3, <2>3, <2>7 DEF CallOK, OpenedOK, IdentityOK, Quiet
      <3> QED  BY <3>1, <3>2 DEF CallOK
    <2>10. CallOK(task[t])' /\ LockOK(t)'
      BY <2>3, <2>5, <2>9, CallIs DEF LockOK, Locked
    <2> QED  BY <2>4, <2>5, <2>7, <2>8, <2>10, QuietStep
  <1> QED  BY <1>5, <1>6 DEF StoreMessage

\* After a reply, a row is encrypted again only for a later epoch, or with a later identity.
LEMMA RetryKept ==
  ASSUME TypeInv, TypeInv', Inv, NEW t \in Tasks, task[t].pc = "reply", GoesOn(t),
         NEW s \in {"encrypt", "send"}, NEW e \in Nat, Retry(t, s, e),
         s = "encrypt" /\ task[t].row \in outbox => Newest(task[t].row.msg, e, identity),
         UNCHANGED <<outbox, stored, typed, lastNonce, identity, lock, epoch, lastEpoch>>
  PROVE  Inv'
  <1> DEFINE c == task[t]
  <1>1. c \in Calls /\ CallOK(c) /\ c.row # NoRow
    BY DEF TypeInv, CallsOK, Inv, CallOK, ShapeOK, HasRow
  <1>2. PICK k : k = [c EXCEPT !.pc = s, !.epoch = e, !.attempt = @ + 1, !.reply = "none"]
    OBVIOUS
  <1>3. Becomes(t, k)
    <2>1. s \in Steps
      BY DEF Steps
    <2> QED  BY <1>2, <2>1, Updates DEF TypeInv
  <1>4. c.attempt + 1 \in 0 .. MaxAttempts - 1
    BY <1>1, OutboxAssumption DEF Calls, GoesOn
  <1>5. /\ k \in Calls /\ k.pc = s /\ k.reply = "none" /\ k.epoch = e /\ k.op = c.op
        /\ k.row = c.row /\ k.rows = c.rows /\ k.opened = c.opened /\ k.identity = c.identity
    BY <1>1, <1>2, <1>4 DEF Calls, Steps, Replies
  <1>6. ShapeOK(k) /\ NewOK(k) /\ AckOK(k) /\ OnlyOK(k) /\ StaleOK(k)
    BY <1>1, <1>5 DEF CallOK, ShapeOK, NewOK, New, AckOK, OnlyOK, StaleOK, Locked, HasRow
  <1>7. OpenedOK(k) /\ IdentityOK(k)
    BY <1>1, <1>5 DEF CallOK, OpenedOK, IdentityOK
  <1>8. NewestOK(k)
    BY <1>5 DEF NewestOK, Locked
  <1>9. CallOK(k) /\ ~New(k) /\ Held(k) = Held(c) /\ k.pc \notin Locked
    BY <1>1, <1>5, <1>6, <1>7, <1>8 DEF CallOK, New, Held, Locked
  <1>10. EpochMoves /\ identity <= identity'
    BY DEF EpochMoves, TypeInv, NumbersOK
  <1> QED  BY <1>3, <1>5, <1>9, <1>10, QuietMove

\* deliver goes on with what the reply says.
LEMMA DeliverKept ==
  ASSUME TypeInv, TypeInv', Inv, NEW t \in Tasks, Deliver(t)
  PROVE  Inv'
  <1> DEFINE c == task[t]
             r == c.row
  <1>1. c \in Calls /\ CallOK(c) /\ c.pc = "reply"
    BY DeliverIs DEF TypeInv, CallsOK, Inv
  <1>2. UNCHANGED <<outbox, stored, typed, lastNonce, identity, lock, epoch, lastEpoch>>
    BY DeliverIs DEF device, server
  <1>3. r \in Live /\ r \in Rows /\ r # NoRow /\ r.epoch \in Nat /\ c.epoch \in Nat
    BY <1>1, HeldIsLive DEF CallOK, ShapeOK, HasRow, Calls, Rows
  <1>4. \A x \in Live : x.epoch \in Nat /\ x.identity \in Nat /\ x.identity <= identity
    BY LiveRows DEF Inv, LiveOK, Rows
  <1>5. EpochMoves /\ identity <= identity'
    BY <1>2 DEF EpochMoves, TypeInv, NumbersOK
  <1>6. CASE Throw(t)
    BY <1>2, <1>6, EndKept DEF Throw
  <1>7. CASE Goto(t, "supersede") \/ Goto(t, "drop")
    <2>1. PICK s \in {"supersede", "drop"}, k \in Calls :
            /\ Becomes(t, k) /\ k.pc = s /\ Held(k) = Held(c) /\ (New(k) <=> New(c))
            /\ k.op = c.op /\ k.msg = c.msg /\ k.row = c.row
            /\ k.rows = c.rows /\ k.opened = c.opened /\ k.epoch = c.epoch
            /\ k.identity = c.identity /\ k.reply = c.reply
      BY <1>7, GoneTo DEF Steps
    <2>2. CallOK(k) /\ k.pc \notin Locked
      BY <1>1, <2>1
      DEF CallOK, ShapeOK, NewOK, New, AckOK, OpenedOK, IdentityOK, NewestOK, OnlyOK, StaleOK,
          Locked, HasRow
    <2> QED  BY <1>2, <1>5, <2>1, <2>2, QuietMove
  <1>8. CASE c.reply = "ok" /\ task' = [task EXCEPT ![t].pc = "ack", ![t].reply = "none"]
    <2>1. PICK k : k = [c EXCEPT !.pc = "ack", !.reply = "none"]
      OBVIOUS
    <2>2. Becomes(t, k)
      BY <1>1, <1>8, <2>1 DEF Becomes, TypeInv, CallsOK, Calls
    <2>3. /\ k \in Calls /\ k.pc = "ack" /\ k.op = c.op /\ k.msg = c.msg /\ k.row = c.row
          /\ k.rows = c.rows /\ k.opened = c.opened /\ k.identity = c.identity
      BY <1>1, <2>1 DEF Calls, Steps, Replies
    <2>4. CallOK(k) /\ k.pc \notin Locked /\ Held(k) = Held(c) /\ (New(k) <=> New(c))
      BY <1>1, <1>8, <2>3
      DEF CallOK, ShapeOK, NewOK, New, AckOK, OpenedOK, IdentityOK, NewestOK, OnlyOK, StaleOK,
          Locked, HasRow, Held
    <2> QED  BY <1>2, <1>5, <2>2, <2>3, <2>4, QuietMove
  <1>9. CASE c.reply = "stale_epoch" /\ GoesOn(t) /\ Retry(t, "encrypt", c.epoch)
    <2>1. r.epoch # 0 /\ (IF c.epoch = 0 THEN Over(r.epoch) ELSE r.epoch < c.epoch)
      BY <1>1, <1>9 DEF CallOK, ShapeOK, StaleOK
    <2>2. ASSUME r \in outbox, NEW x \in Live, x.msg = r.msg
          PROVE  IF c.epoch = 0 THEN Over(x.epoch) ELSE Older(x, c.epoch, identity)
      <3>1. x.epoch <= r.epoch
        BY <1>3, <1>4, <2>1, <2>2 DEF Inv, PendingNewest, Older
      <3> QED  BY <1>3, <1>4, <2>1, <3>1 DEF Over, Older, TypeInv, NumbersOK
    <2>3. r \in outbox => Newest(r.msg, c.epoch, identity)
      BY <2>2 DEF Newest
    <2> QED  BY <1>1, <1>2, <1>3, <1>9, <2>3, RetryKept
  <1>10. CASE GoesOn(t) /\ Retry(t, "send", c.epoch)
    BY <1>1, <1>2, <1>3, <1>10, RetryKept
  <1>11. CASE c.reply = "superseded" /\ r.identity # identity /\ GoesOn(t) /\ Retry(t, "encrypt", r.epoch)
    <2>1. r.epoch # 0 /\ r.identity < identity
      BY <1>1, <1>3, <1>4, <1>11 DEF CallOK, ShapeOK, TypeInv, NumbersOK
    <2>2. ASSUME r \in outbox, NEW x \in Live, x.msg = r.msg
          PROVE  Older(x, r.epoch, identity)
      BY <1>3, <1>4, <2>1, <2>2 DEF Inv, PendingNewest, Older, TypeInv, NumbersOK
    <2>3. r \in outbox => Newest(r.msg, r.epoch, identity)
      BY <2>1, <2>2 DEF Newest
    <2> QED  BY <1>1, <1>2, <1>3, <1>11, <2>3, RetryKept
  <1> QED  BY <1>6, <1>7, <1>8, <1>9, <1>10, <1>11, DeliverIs

-----------------------------------------------------------------------------
(* The end of a call, faults, and the environment                          *)

\* acknowledge, which takes no lock, moves the row that was stored and no other.
LEMMA AcknowledgeKept ==
  ASSUME TypeInv, TypeInv', Inv, NEW t \in Tasks,
         SetSuperseded(t) \/ DropOutboxEntry(t) \/ Acknowledge(t) \/ MoveToHistory(t)
  PROVE  Inv'
  <1> DEFINE c == task[t]
  <1>1. c \in Calls /\ CallOK(c)
    BY DEF TypeInv, CallsOK, Inv
  <1>2. CASE SetSuperseded(t) \/ DropOutboxEntry(t)
    <2>1. /\ End(t) /\ outbox' \subseteq outbox
          /\ UNCHANGED <<stored, typed, lastNonce, identity, epoch, lastEpoch, lock>>
      BY <1>2 DEF SetSuperseded, DropOutboxEntry, Throw, server
    <2> QED  BY <2>1, EndKept
  <1>3. CASE (Acknowledge(t) /\ NextRow(t)) \/ MoveToHistory(t)
    <2>1. /\ NextRow(t) /\ c.pc \notin {"idle", "open", "identity"} /\ outbox' \subseteq outbox
          /\ UNCHANGED <<stored, typed, lastNonce, identity, epoch, lastEpoch, lock>>
      BY <1>3 DEF Acknowledge, MoveToHistory, At, device, server
    <2> QED  BY <2>1, EndKept
  <1>4. CASE Acknowledge(t) /\ Goto(t, "move")
    <2>1. PICK k \in Calls :
            /\ Becomes(t, k) /\ k.pc = "move" /\ Held(k) = Held(c) /\ (New(k) <=> New(c))
            /\ k.op = c.op /\ k.msg = c.msg /\ k.row = c.row
            /\ k.rows = c.rows /\ k.opened = c.opened /\ k.epoch = c.epoch
            /\ k.identity = c.identity /\ k.reply = c.reply
      BY <1>4, GoneTo DEF Steps
    <2>2. c.pc = "ack" /\ UNCHANGED <<outbox, stored, typed, lastNonce, identity, epoch, lastEpoch, lock>>
      BY <1>4 DEF Acknowledge, At, device, server
    <2>3. CallOK(k) /\ k.pc \notin Locked
      BY <1>1, <2>1, <2>2
      DEF CallOK, ShapeOK, NewOK, New, AckOK, OpenedOK, IdentityOK, NewestOK, OnlyOK, StaleOK,
          Locked, HasRow
    <2>4. EpochMoves /\ identity <= identity'
      BY <2>2 DEF EpochMoves, TypeInv, NumbersOK
    <2> QED  BY <2>1, <2>2, <2>3, <2>4, QuietMove
  <1> QED  BY <1>2, <1>3, <1>4 DEF Acknowledge

\* A send_message that is carried out after its call has ended stores a row that was live.
LEMMA GiveUpKept ==
  ASSUME TypeInv, TypeInv', Inv, NEW t \in Tasks, GiveUp(t)
  PROVE  Inv'
  <1> DEFINE c == task[t]
  <1>1. c \in Calls /\ CallOK(c)
    BY DEF TypeInv, CallsOK, Inv
  <1>2. /\ End(t) /\ UNCHANGED <<outbox, typed, lastNonce, identity, epoch, lastEpoch>>
        /\ lock' = (IF lock = t THEN Free ELSE lock)
        /\ stored' = stored \/ (c.pc = "store" /\ stored' = stored \cup {c.row})
    BY DEF GiveUp, Throw, At
  <1>3. task'[t] = Idle /\ \A u \in Tasks : u # t => task'[u] = task[u]
    BY <1>2 DEF End, TypeInv, CallsOK
  <1>4. c.pc = "store" => c.row \in Held(c) /\ c.row.epoch # 0
    BY <1>1 DEF CallOK, ShapeOK, HasRow, Held
  <1>5. Quiet
    <2>1. Live' \subseteq Live
      BY <1>2, <1>3, <1>4, IdleOK, LiveFrom
    <2> QED  BY <1>2, <2>1 DEF Quiet, EpochMoves, TypeInv, NumbersOK
  <1>6. StoredOK'
    BY <1>2, <1>4 DEF Inv, StoredOK
  <1>7. PICK k \in Calls : k = Idle
    BY IdleIsCall
  <1>8. CallOK(k)'
    <2>1. CallOK(k) /\ Held(k) \subseteq Live
      BY <1>7, IdleOK
    <2> QED  BY <1>5, <2>1, QuietCall DEF Inv
  <1>9. CallOK(task[t])' /\ LockOK(t)' /\ ~New(task'[t])
    <2>1. Idle.pc \notin Locked /\ ~New(Idle)
      BY IdleOK DEF Locked
    <2> QED  BY <1>3, <1>7, <1>8, <2>1, CallIs DEF LockOK
  <1>10. Moves(t)
    BY <1>2, <1>3 DEF Moves
  <1> QED  BY <1>5, <1>6, <1>9, <1>10, QuietStep

\* Resets, the peer and the end of a conversation keep the invariant.
LEMMA EnvironmentKept ==
  ASSUME TypeInv, TypeInv', Inv, Environment \/ PublishIdentity \/ UNCHANGED vars
  PROVE  Inv'
  <1>1. /\ UNCHANGED <<outbox, stored, task, typed, lastNonce>>
        /\ identity <= identity' /\ EpochMoves
        /\ UNCHANGED lock \/ lock \in {Free, Page}
    BY DEF Environment, PublishIdentity, ResetIdentity, OtherDeviceResets, OnIdentitySuperseded,
           PeerPublishes, ApproveIdentity, EndConversation, vars, device, server, TypeInv, NumbersOK,
           EpochMoves
  <1>2. Live' = Live
    BY <1>1 DEF Live, Held
  <1>3. Quiet
    BY <1>1, <1>2 DEF Quiet
  <1>4. LiveOK' /\ PendingNewest' /\ EncryptedOnce' /\ OneRow'
    BY <1>3, QuietRows DEF Inv
  <1>5. ASSUME NEW u \in Tasks PROVE LockOK(u)' /\ CallOK(task[u])'
    <2>1. PICK k \in Calls : k = task[u]
      BY DEF TypeInv, CallsOK
    <2>2. Held(k) \subseteq Live /\ CallOK(k) /\ LockOK(u)
      BY <2>1, HeldIsLive DEF Inv
    <2>3. CallOK(k)'
      BY <1>3, <2>2, QuietCall DEF Inv
    <2>4. lock = u => lock' = u
      BY <1>1, OutboxAssumption DEF Free, Page
    <2> QED  BY <1>1, <2>1, <2>2, <2>3, <2>4, CallIs DEF LockOK
  <1>6. StoredOK' /\ NewOnce'
    BY <1>1 DEF Inv, StoredOK, NewOnce, New
  <1> QED  BY <1>4, <1>5, <1>6 DEF Inv

-----------------------------------------------------------------------------
(* Epochs that calls know                                                  *)

\* The epochs that calls carry existed: a step of one call,
LEMMA EpochsFrom ==
  ASSUME TypeInv, TypeInv', EpochOK, lastEpoch <= lastEpoch', NEW t \in Tasks, NEW k \in Calls,
         Becomes(t, k), k.epoch <= lastEpoch', k.opened <= lastEpoch'
  PROVE  EpochOK'
  <1>1. task'[t] = k /\ \A u \in Tasks : u # t => task'[u] = task[u]
    BY BecomesIs DEF TypeInv
  <1>2. \A u \in Tasks : task[u].epoch \in Nat /\ task[u].opened \in Nat
    BY DEF TypeInv, CallsOK, Calls
  <1> QED  BY <1>1, <1>2 DEF EpochOK, TypeInv, NumbersOK

\* Calls that end, go on with another row, or only move on
LEMMA EpochsSame ==
  ASSUME TypeInv, TypeInv', EpochOK, lastEpoch <= lastEpoch', NEW t \in Tasks,
         End(t) \/ NextRow(t) \/ \E s \in Steps : Goto(t, s)
  PROVE  EpochOK'
  <1>1. task[t] \in Calls /\ task[t].epoch \in Nat /\ task[t].opened \in Nat
    BY DEF TypeInv, CallsOK, Calls
  <1>2. task[t].epoch <= lastEpoch' /\ task[t].opened <= lastEpoch'
    BY <1>1 DEF EpochOK, TypeInv, NumbersOK
  <1>3. Idle \in Calls /\ Idle.epoch <= lastEpoch' /\ Idle.opened <= lastEpoch'
    BY IdleIsCall DEF Idle, TypeInv, NumbersOK
  <1>4. CASE End(t)
    BY <1>3, <1>4, EpochsFrom DEF End, Becomes
  <1>5. CASE NextRow(t)
    <2>1. PICK k : k = WithNextRow(task[t])
      OBVIOUS
    <2>2. k \in Calls /\ Becomes(t, k)
      BY <1>1, <1>5, <2>1, NextRowType DEF NextRow, Becomes
    <2>3. k.epoch <= lastEpoch' /\ k.opened <= lastEpoch'
      <3>1. ASSUME NEW r \in task[t].rows, NEW s \in {"send", "encrypt"}, k = Takes(task[t], r, s)
            PROVE  k.epoch = task[t].opened /\ k.opened = task[t].opened
        BY <1>1, <3>1 DEF Takes, Calls
      <3> QED  BY <1>1, <1>2, <1>3, <2>1, <3>1, NextRowIs
    <2> QED  BY <2>2, <2>3, EpochsFrom
  <1>6. ASSUME NEW s \in Steps, Goto(t, s) PROVE EpochOK'
    BY <1>2, <1>6, GoneTo, EpochsFrom
  <1> QED  BY <1>4, <1>5, <1>6

\* an answer,
LEMMA EpochsAnswer ==
  ASSUME TypeInv, TypeInv', EpochOK, lastEpoch <= lastEpoch', NEW t \in Tasks,
         NEW kind \in Replies, NEW e \in Nat, e <= lastEpoch', Answer(t, kind, e)
  PROVE  EpochOK'
  <1>1. task[t] \in Calls /\ task[t].epoch \in Nat /\ task[t].opened \in Nat
    BY DEF TypeInv, CallsOK, Calls
  <1>2. task[t].epoch <= lastEpoch' /\ task[t].opened <= lastEpoch'
    BY <1>1 DEF EpochOK, TypeInv, NumbersOK
  <1>3. PICK f \in {e, task[t].epoch} :
          Becomes(t, [task[t] EXCEPT !.pc = "reply", !.reply = kind, !.epoch = f])
    <2>1. "idle" \in Steps
      BY DEF Steps
    <2> QED  BY <2>1, Updates DEF TypeInv
  <1>4. PICK k : k = [task[t] EXCEPT !.pc = "reply", !.reply = kind, !.epoch = f]
    OBVIOUS
  <1>5. k \in Calls /\ k.epoch = f /\ k.opened = task[t].opened
    BY <1>1, <1>4 DEF Calls, Steps
  <1> QED  BY <1>2, <1>3, <1>4, <1>5, EpochsFrom

\* an attempt more,
LEMMA EpochsRetry ==
  ASSUME TypeInv, TypeInv', EpochOK, UNCHANGED lastEpoch, NEW t \in Tasks, GoesOn(t),
         NEW s \in {"encrypt", "send"}, NEW e \in Nat, e <= lastEpoch, Retry(t, s, e)
  PROVE  EpochOK'
  <1>1. task[t] \in Calls
    BY DEF TypeInv, CallsOK
  <1>2. PICK k : k = [task[t] EXCEPT !.pc = s, !.epoch = e, !.attempt = @ + 1, !.reply = "none"]
    OBVIOUS
  <1>3. Becomes(t, k)
    <2>1. s \in Steps
      BY DEF Steps
    <2> QED  BY <1>2, <2>1, Updates DEF TypeInv
  <1>4. task[t].attempt + 1 \in 0 .. MaxAttempts - 1
    BY <1>1, OutboxAssumption DEF Calls, GoesOn
  <1>5. k \in Calls /\ k.epoch = e /\ k.opened = task[t].opened
    BY <1>1, <1>2, <1>4 DEF Calls, Steps, Replies
  <1>6. lastEpoch <= lastEpoch'
    BY DEF TypeInv, NumbersOK
  <1> QED  BY <1>3, <1>5, <1>6, EpochsFrom DEF EpochOK

\* and every step.
LEMMA EpochsKept ==
  ASSUME TypeInv, TypeInv', Inv, EpochOK, [Next]_vars
  PROVE  EpochOK'
  <1>1. lastEpoch \in Nat /\ lastEpoch' \in Nat /\ epoch \in Nat /\ epoch <= lastEpoch /\ 0 \in Nat
    BY DEF TypeInv, NumbersOK
  <1>2. {"ok", "invalid", "superseded", "stale_epoch", "in_flight"} \subseteq Replies
    BY DEF Replies
  <1>3. ASSUME NEW t \in Tasks, NEW m \in Msgs, Send(t, m) PROVE EpochOK'
    <2>1. PICK k : k = [Idle EXCEPT !.pc = "open", !.op = "send", !.msg = m]
      OBVIOUS
    <2>2. k \in Calls /\ k.epoch = 0 /\ k.opened = 0
      BY <2>1, IdleIsCall DEF Calls, Steps, Idle
    <2>3. Becomes(t, k) /\ UNCHANGED lastEpoch
      BY <1>3, <2>1 DEF Send, Becomes, server
    <2> QED  BY <1>1, <2>2, <2>3, EpochsFrom
  <1>4. ASSUME NEW t \in Tasks, FlushOutbox(t) PROVE EpochOK'
    <2>1. PICK k : k = [Idle EXCEPT !.pc = "open", !.rows = outbox]
      OBVIOUS
    <2>2. k \in Calls /\ k.epoch = 0 /\ k.opened = 0
      BY <2>1, IdleIsCall DEF Calls, Steps, Idle, TypeInv, RowsOK
    <2>3. Becomes(t, k) /\ UNCHANGED lastEpoch
      BY <1>4, <2>1 DEF FlushOutbox, Becomes, server
    <2> QED  BY <1>1, <2>2, <2>3, EpochsFrom
  <1>5. ASSUME NEW t \in Tasks, OpenConversation(t) PROVE EpochOK'
    <2>1. PICK e \in 1 .. lastEpoch + 1 :
            /\ Current(e) /\ Opens(e)
            /\ task' = [task EXCEPT ![t].opened = e, ![t].epoch = e,
                          ![t].pc = IF task[t].op = "send" THEN "encrypt" ELSE "identity"]
      BY <1>5 DEF OpenConversation
    <2>2. e \in Nat /\ lastEpoch' = e /\ lastEpoch <= lastEpoch'
      BY <2>1, OpensIs DEF TypeInv, NumbersOK
    <2>3. PICK k : k = task'[t]
      OBVIOUS
    <2>4. k \in Calls /\ k.epoch = e /\ k.opened = e
      BY <2>1, <2>3 DEF TypeInv, CallsOK, Calls
    <2>5. Becomes(t, k)
      BY <2>1, <2>3 DEF Becomes, TypeInv, CallsOK
    <2> QED  BY <2>2, <2>4, <2>5, EpochsFrom
  <1>6. ASSUME NEW t \in Tasks, FlushIdentity(t) PROVE EpochOK'
    <2>1. task[t] \in Calls /\ task[t].opened <= lastEpoch /\ UNCHANGED lastEpoch
      BY <1>6 DEF FlushIdentity, server, TypeInv, CallsOK, EpochOK
    <2>2. PICK j : j = [task[t] EXCEPT !.identity = identity]
      OBVIOUS
    <2>3. j \in Calls /\ j.opened = task[t].opened
      BY <2>1, <2>2 DEF Calls, TypeInv, NumbersOK
    <2>4. PICK k : k = WithNextRow(j)
      OBVIOUS
    <2>5. k \in Calls /\ Becomes(t, k)
      BY <1>6, <2>2, <2>3, <2>4, NextRowType DEF FlushIdentity, Becomes
    <2>6. k.epoch <= lastEpoch /\ k.opened <= lastEpoch
      <3>1. ASSUME NEW r \in j.rows, NEW s \in {"send", "encrypt"}, k = Takes(j, r, s)
            PROVE  k.epoch = j.opened /\ k.opened = j.opened
        BY <2>3, <3>1 DEF Takes, Calls
      <3>2. Idle.epoch = 0 /\ Idle.opened = 0
        BY DEF Idle
      <3> QED  BY <1>1, <2>1, <2>3, <2>4, <3>1, <3>2, NextRowIs
    <2> QED  BY <1>1, <2>1, <2>5, <2>6, EpochsFrom
  <1>7. ASSUME NEW t \in Tasks,
               \/ EncryptMessage(t) \/ BuildSession(t) \/ SetSuperseded(t) \/ DropOutboxEntry(t)
               \/ Acknowledge(t) \/ MoveToHistory(t) \/ GiveUp(t)
        PROVE  EpochOK'
    <2>1. UNCHANGED lastEpoch /\ (End(t) \/ NextRow(t) \/ \E s \in Steps : Goto(t, s))
      <3>1. "bundle" \in Steps /\ "commit" \in Steps /\ "move" \in Steps
        BY DEF Steps
      <3> QED
        BY <1>7, <3>1
        DEF EncryptMessage, BuildSession, SetSuperseded, DropOutboxEntry, Acknowledge, MoveToHistory,
            GiveUp, Throw, server
    <2> QED  BY <1>1, <2>1, EpochsSame
  <1>8. ASSUME NEW t \in Tasks, CommitRow(t) PROVE EpochOK'
    <2>1. task[t] \in Calls /\ task[t].opened <= lastEpoch /\ task[t].epoch <= lastEpoch
          /\ UNCHANGED lastEpoch
      BY <1>8 DEF CommitRow, server, TypeInv, CallsOK, EpochOK
    <2>2. PICK k : k = [task[t] EXCEPT !.row = NewRow(task[t]), !.pc = "send"]
      OBVIOUS
    <2>3. Becomes(t, k)
      BY <1>8, <2>1, <2>2 DEF CommitRow, Becomes, TypeInv, CallsOK, Calls
    <2>4. k \in Calls /\ k.epoch = task[t].epoch /\ k.opened = task[t].opened
      <3>1. k = task'[t]
        BY <2>3, BecomesIs DEF TypeInv
      <3> QED  BY <2>1, <2>2, <3>1 DEF TypeInv, CallsOK, Calls
    <2> QED  BY <1>1, <2>1, <2>3, <2>4, EpochsFrom
  <1>9. ASSUME NEW t \in Tasks, SendMessage(t) PROVE EpochOK'
    <2>1. CASE /\ Answer(t, "invalid", 0) \/ Answer(t, "superseded", 0)
               /\ UNCHANGED <<epoch, lastEpoch>>
      BY <1>1, <1>2, <2>1, EpochsAnswer
    <2>2. ASSUME NEW e \in 1 .. lastEpoch + 1, Current(e), Opens(e),
                 \/ Answer(t, "stale_epoch", e) \/ Answer(t, "ok", e) \/ Answer(t, "in_flight", e)
                 \/ Goto(t, "store")
          PROVE  EpochOK'
      <3>1. e \in Nat /\ lastEpoch <= lastEpoch' /\ e <= lastEpoch'
        BY <1>1, <2>2, OpensIs DEF TypeInv, NumbersOK
      <3>2. "store" \in Steps
        BY DEF Steps
      <3> QED  BY <1>2, <2>2, <3>1, <3>2, EpochsAnswer, EpochsSame
    <2> QED  BY <1>9, <2>1, <2>2 DEF SendMessage
  <1>10. ASSUME NEW t \in Tasks, StoreMessage(t) PROVE EpochOK'
    <2>1. UNCHANGED lastEpoch /\ (Answer(t, "ok", epoch) \/ Answer(t, "stale_epoch", epoch))
      BY <1>10 DEF StoreMessage
    <2> QED  BY <1>1, <1>2, <2>1, EpochsAnswer
  <1>11. ASSUME NEW t \in Tasks, Deliver(t) PROVE EpochOK'
    <2>1. UNCHANGED lastEpoch /\ lastEpoch <= lastEpoch'
      <3>1. lastEpoch' = lastEpoch
        BY <1>11, DeliverIs DEF server
      <3> QED  BY <1>1, <3>1
    <2>2. task[t] \in Calls /\ task[t].epoch \in Nat /\ task[t].epoch <= lastEpoch
          /\ task[t].opened <= lastEpoch
      BY DEF TypeInv, CallsOK, Calls, EpochOK
    <2>3. task[t].pc = "reply" /\ task[t].row \in Live
      BY <1>11, DeliverIs, HeldIsLive DEF Inv, CallOK, ShapeOK, HasRow
    <2>4. task[t].row.epoch \in Nat /\ task[t].row.epoch <= lastEpoch
      BY <2>3, LiveRows DEF Inv, LiveOK, Rows
    <2>5. CASE Throw(t) \/ Goto(t, "supersede") \/ Goto(t, "drop")
      BY <2>1, <2>5, EpochsSame DEF Throw, Steps
    <2>6. CASE task' = [task EXCEPT ![t].pc = "ack", ![t].reply = "none"]
      <3>1. PICK k : k = [task[t] EXCEPT !.pc = "ack", !.reply = "none"]
        OBVIOUS
      <3>2. Becomes(t, k)
        BY <2>2, <2>6, <3>1 DEF Becomes, TypeInv, CallsOK, Calls
      <3>3. k \in Calls /\ k.epoch = task[t].epoch /\ k.opened = task[t].opened
        BY <2>2, <3>1 DEF Calls, Steps, Replies
      <3> QED  BY <2>1, <2>2, <3>2, <3>3, EpochsFrom
    <2>7. CASE /\ GoesOn(t)
               /\ \/ Retry(t, "encrypt", task[t].epoch) \/ Retry(t, "send", task[t].epoch)
                  \/ Retry(t, "encrypt", task[t].row.epoch)
      BY <2>1, <2>2, <2>4, <2>7, EpochsRetry
    <2> QED  BY <1>11, <2>5, <2>6, <2>7, DeliverIs
  <1>12. CASE Environment \/ PublishIdentity \/ UNCHANGED vars
    BY <1>12
    DEF Environment, PublishIdentity, ResetIdentity, OtherDeviceResets, OnIdentitySuperseded,
        PeerPublishes, ApproveIdentity, EndConversation, vars, device, server, EpochOK
  <1> QED
    BY <1>3, <1>4, <1>5, <1>6, <1>7, <1>8, <1>9, <1>10, <1>11, <1>12 DEF Next, Step

\* Every step keeps the invariant.
LEMMA InvKept ==
  ASSUME TypeInv, TypeInv', Inv, EpochOK, [Next]_vars
  PROVE  Inv' /\ EpochOK'
  BY EpochsKept, SendKept, FlushKept, OpenKept, FlushIdentityKept, EncryptKept, BuildKept, CommitKept,
     SendMessageKept, StoreKept, DeliverKept, AcknowledgeKept, GiveUpKept, EnvironmentKept
  DEF Next, Step

\* The invariant that keeps messages from being queued or stored twice: what is pending is
\* the newest row of its message, and what is encrypted again becomes it.
THEOREM RowsInvariant == Spec => [](Inv /\ EpochOK)
  <1>1. Init => Inv /\ EpochOK
    <2> SUFFICES ASSUME Init PROVE Inv /\ EpochOK
      OBVIOUS
    <2>1. outbox = {} /\ stored = {} /\ lastEpoch = 0 /\ \A t \in Tasks : task[t] = Idle
      BY DEF Init
    <2>2. Live = {}
      BY <2>1, IdleOK DEF Live
    <2>3. LiveOK /\ PendingNewest /\ EncryptedOnce /\ OneRow /\ StoredOK
      BY <2>1, <2>2 DEF LiveOK, PendingNewest, EncryptedOnce, OneRow, StoredOK
    <2>4. NewOnce /\ \A t \in Tasks : LockOK(t)
      BY <2>1, IdleOK DEF NewOnce, LockOK, Locked
    <2>5. \A t \in Tasks : CallOK(task[t])
      BY <2>1, IdleOK
    <2>6. EpochOK
      BY <2>1 DEF EpochOK, Idle
    <2> QED  BY <2>3, <2>4, <2>5, <2>6 DEF Inv
  <1>2. TypeInv /\ TypeInv' /\ Inv /\ EpochOK /\ [Next]_vars => Inv' /\ EpochOK'
    BY InvKept
  <1> QED  BY TypesKept, <1>1, <1>2, PTL DEF Spec

\* A message is pending at most once, however many calls flush, encrypt and acknowledge it.
THEOREM PendingOnce == Spec => []OneRow
  <1>1. Inv => OneRow
    BY DEF Inv
  <1> QED  BY RowsInvariant, <1>1, PTL

\* No message is stored twice in an epoch with one identity, whatever is resent, encrypted
\* again, lost, or carried out late.
THEOREM StoredOncePerEpoch == Spec => []SentOncePerEpoch
  <1>1. Inv => SentOncePerEpoch
    BY DEF Inv, StoredOK, EncryptedOnce, SentOncePerEpoch, Live
  <1> QED  BY RowsInvariant, <1>1, PTL

-----------------------------------------------------------------------------
(* What becomes of a message                                               *)

\* What the server may have is in the sender's outbox or history, or was refused.
KnownOK ==
  /\ refused \subseteq typed
  /\ \A r \in Live : r.msg \in refused \/ \E x \in outbox \cup history : x.msg = r.msg

\* Texts of calls that failed before they queued them are in no call and in no row.
Gone == returned \cup lost
GoneOK ==
  \A m \in Gone :
    /\ m \in typed /\ \A r \in Live : r.msg # m
    /\ \A u \in Tasks : New(task[u]) => task[u].msg # m

Kept == KnownOK /\ GoneOK /\ NothingLost

\* A step of call t keeps track of every message.
Tracks(t) ==
  /\ \A u \in Tasks \ {t} : task'[u] = task[u]
  /\ Live' \subseteq Live /\ stored \subseteq stored' /\ history \subseteq history'
  /\ refused \subseteq refused' /\ refused' \subseteq typed' /\ typed \subseteq typed'
  /\ \A r \in outbox \ outbox' :
       r.msg \in refused' \/ (r \in history' /\ r \in stored)
  /\ New(task[t]) =>
       task[t].msg \in Gone' \/ (New(task'[t]) /\ task'[t].msg = task[t].msg)
  /\ \A m \in typed' \ typed : New(task'[t]) /\ task'[t].msg = m
  /\ New(task'[t]) =>
       task'[t].msg \notin typed \/ (New(task[t]) /\ task'[t].msg = task[t].msg)
  /\ Gone \subseteq Gone'
  /\ \A m \in Gone' \ Gone : New(task[t]) /\ task[t].msg = m /\ ~New(task'[t])

\* A step that keeps track of every message loses none.
LEMMA TracksKeeps ==
  ASSUME TypeInv, Inv, Kept, NEW t \in Tasks, Tracks(t)
  PROVE  Kept'
  <1> USE DEF Kept
  <1>1. KnownOK'
    <2> SUFFICES ASSUME NEW r \in Live'
                 PROVE  r.msg \in refused' \/ \E x \in outbox' \cup history' : x.msg = r.msg
      BY DEF KnownOK, Tracks
    <2>1. r.msg \in refused \/ \E x \in outbox \cup history : x.msg = r.msg
      BY DEF KnownOK, Tracks
    <2> QED  BY <2>1 DEF Tracks
  <1>2. NothingLost'
    <2> SUFFICES ASSUME NEW m \in typed'
                 PROVE  \/ \E u \in Tasks : New(task'[u]) /\ task'[u].msg = m
                        \/ m \in refused' \cup Gone' \/ \E r \in outbox' \cup stored' : r.msg = m
      BY DEF NothingLost, InProgress, New, Gone
    <2>1. CASE m \notin typed
      BY <2>1 DEF Tracks
    <2>2. CASE m \in typed
      <3>1. \/ \E u \in Tasks : New(task[u]) /\ task[u].msg = m
            \/ m \in refused \cup Gone \/ \E r \in outbox \cup stored : r.msg = m
        BY <2>2 DEF NothingLost, InProgress, New, Gone
      <3>2. ASSUME NEW u \in Tasks, New(task[u]), task[u].msg = m
            PROVE  m \in Gone' \/ (New(task'[u]) /\ task'[u].msg = m)
        <4>1. CASE u = t
          BY <3>2, <4>1 DEF Tracks
        <4>2. CASE u # t
          BY <3>2, <4>2 DEF Tracks
        <4> QED  BY <4>1, <4>2
      <3> QED  BY <3>1, <3>2 DEF Tracks
    <2> QED  BY <2>1, <2>2
  <1>3. GoneOK'
    <2> SUFFICES ASSUME NEW m \in Gone'
                 PROVE  /\ m \in typed' /\ \A r \in Live' : r.msg # m
                        /\ \A u \in Tasks : New(task'[u]) => task'[u].msg # m
      BY DEF GoneOK
    <2>1. m \in typed /\ \A r \in Live : r.msg # m
      <3>1. CASE m \in Gone
        BY <3>1 DEF GoneOK
      <3>2. CASE m \notin Gone
        <4>1. New(task[t]) /\ task[t].msg = m
          BY <3>2 DEF Tracks
        <4>2. m \in typed
          BY <4>1 DEF New, TypeInv, CallsOK
        <4>3. CallOK(task[t])
          BY DEF Inv
        <4> QED  BY <4>1, <4>2, <4>3 DEF CallOK, NewOK
      <3> QED  BY <3>1, <3>2
    <2>2. ASSUME NEW u \in Tasks, New(task'[u]) PROVE task'[u].msg # m
      <3>1. CASE u = t
        BY <2>1, <2>2, <3>1 DEF Tracks, GoneOK
      <3>2. CASE u # t
        BY <2>2, <3>2 DEF Tracks, GoneOK, Inv, NewOnce
      <3> QED  BY <3>1, <3>2
    <2> QED  BY <2>1, <2>2 DEF Tracks
  <1> QED  BY <1>1, <1>2, <1>3

\* What a step leaves a call with
LEMMA HeldAfter ==
  ASSUME TypeInv, NEW t \in Tasks
  PROVE  /\ End(t) => task'[t] = Idle /\ \A u \in Tasks \ {t} : task'[u] = task[u]
         /\ NextRow(t) =>
              /\ Held(task'[t]) \subseteq Held(task[t])
              /\ \A u \in Tasks \ {t} : task'[u] = task[u]
         /\ \A s \in Steps, e \in Nat, kind \in Replies :
              Goto(t, s) \/ Retry(t, s, e) \/ Answer(t, kind, e) =>
                /\ Held(task'[t]) = Held(task[t]) /\ (New(task'[t]) <=> New(task[t]))
                /\ task'[t].msg = task[t].msg
                /\ \A u \in Tasks \ {t} : task'[u] = task[u]
  <1>1. task \in [Tasks -> Calls] /\ task[t] \in Calls
    BY DEF TypeInv, CallsOK
  <1>2. End(t) => task'[t] = Idle /\ \A u \in Tasks \ {t} : task'[u] = task[u]
    BY <1>1 DEF End
  <1>3. ASSUME NextRow(t)
        PROVE  /\ Held(task'[t]) \subseteq Held(task[t])
               /\ \A u \in Tasks \ {t} : task'[u] = task[u]
    <2>1. PICK k \in Calls : k = task[t]
      BY <1>1
    <2>2. task'[t] = WithNextRow(k) /\ \A u \in Tasks \ {t} : task'[u] = task[u]
      BY <1>1, <1>3, <2>1 DEF NextRow
    <2>3. Held(WithNextRow(k)) \subseteq Held(k)
      <3>1. ASSUME NEW r \in k.rows, NEW s \in {"send", "encrypt"}, WithNextRow(k) = Takes(k, r, s)
            PROVE  Held(WithNextRow(k)) \subseteq Held(k)
        BY <3>1 DEF Takes, Calls, Held
      <3> QED  BY <3>1, IdleOK, NextRowIs
    <2> QED  BY <2>1, <2>2, <2>3 DEF Held
  <1>4. ASSUME NEW s \in Steps, NEW e \in Nat, NEW kind \in Replies,
               Goto(t, s) \/ Retry(t, s, e) \/ Answer(t, kind, e)
        PROVE  /\ Held(task'[t]) = Held(task[t]) /\ (New(task'[t]) <=> New(task[t]))
               /\ task'[t].msg = task[t].msg
               /\ \A u \in Tasks \ {t} : task'[u] = task[u]
    <2>1. /\ task'[t].rows = task[t].rows /\ task'[t].row = task[t].row
          /\ task'[t].op = task[t].op /\ task'[t].msg = task[t].msg
          /\ \A u \in Tasks \ {t} : task'[u] = task[u]
      BY <1>1, <1>4 DEF Goto, Retry, Answer, Calls
    <2> QED  BY <2>1 DEF Held, New
  <1> QED  BY <1>2, <1>3, <1>4

\* A call that goes on with its next row has queued its message.
LEMMA NextNotNew ==
  ASSUME TypeInv, Inv, NEW t \in Tasks, NextRow(t)
  PROVE  ~New(task'[t])
  <1>1. PICK k \in Calls : k = task[t]
    BY DEF TypeInv, CallsOK
  <1>2. task'[t] = WithNextRow(k)
    BY <1>1 DEF NextRow, TypeInv, CallsOK
  <1>3. k.op = "send" => k.rows = {}
    BY <1>1 DEF Inv, CallOK, ShapeOK
  <1>4. ~New(WithNextRow(k))
    <2>1. CASE k.op = "send"
      <3>1. WithNextRow(k) = Idle
        BY <1>3, <2>1, NextRowIs
      <3> QED  BY <3>1, IdleOK
    <2>2. CASE k.op # "send"
      BY <2>2, NextRowKeeps DEF New
    <2> QED  BY <2>1, <2>2
  <1> QED  BY <1>2, <1>4

\* The steps that only pass a call on, or end it with an exception
LEMMA PassesOn ==
  ASSUME TypeInv, Inv, Kept, NEW t \in Tasks, UNCHANGED <<outbox, history, typed>>,
         stored' \in {stored, stored \cup {task[t].row}},
         stored' # stored => task[t].pc \in HasRow, UNCHANGED refused,
         \/ Throw(t)
         \/ NextRow(t) /\ ~New(task[t]) /\ UNCHANGED unsent
         \/ UNCHANGED unsent /\ \E s \in Steps, e \in Nat, kind \in Replies :
              Goto(t, s) \/ Retry(t, s, e) \/ Answer(t, kind, e)
  PROVE  Tracks(t)
  <1>1. /\ \A u \in Tasks \ {t} : task'[u] = task[u]
        /\ Held(task'[t]) \subseteq Held(task[t])
    BY HeldAfter, IdleOK DEF Throw
  <1>2. stored' \subseteq stored \cup Held(task[t])
    <2>1. task[t].pc \in HasRow => task[t].row \in Held(task[t])
      BY DEF Inv, CallOK, ShapeOK, Held
    <2> QED  BY <2>1
  <1>3. Live' \subseteq Live
    BY <1>1, <1>2, LiveFrom
  <1>4. CASE Throw(t)
    <2>1. Gone' = IF New(task[t]) THEN Gone \cup {task[t].msg} ELSE Gone
      BY <1>4 DEF Throw, New, Gone
    <2>2. New(task[t]) => task[t].msg \in typed
      BY DEF New, TypeInv, CallsOK
    <2>3. ~New(task'[t])
      BY <1>4, HeldAfter, IdleOK DEF Throw
    <2> QED  BY <1>1, <1>3, <2>1, <2>2, <2>3 DEF Tracks, Kept, KnownOK
  <1>5. CASE NextRow(t) /\ ~New(task[t]) /\ UNCHANGED unsent
    <2>1. ~New(task'[t])
      BY <1>5, NextNotNew
    <2> QED  BY <1>1, <1>3, <1>5, <2>1 DEF Tracks, Kept, KnownOK, Gone
  <1>6. CASE UNCHANGED unsent /\ \E s \in Steps, e \in Nat, kind \in Replies :
               Goto(t, s) \/ Retry(t, s, e) \/ Answer(t, kind, e)
    <2>1. (New(task'[t]) <=> New(task[t])) /\ task'[t].msg = task[t].msg
      BY <1>6, HeldAfter
    <2> QED  BY <1>1, <1>3, <1>6, <2>1 DEF Tracks, Kept, KnownOK, Gone
  <1> QED  BY <1>4, <1>5, <1>6

\* The rest of the steps: a call that begins, and a row that leaves the outbox
LEMMA Leaves ==
  ASSUME TypeInv, Inv, Kept, NEW t \in Tasks,
         \/ \E m \in Msgs : Send(t, m)
         \/ FlushOutbox(t) \/ FlushIdentity(t) \/ OpenConversation(t)
         \/ DropOutboxEntry(t) \/ MoveToHistory(t)
  PROVE  Tracks(t)
  <1>1. task \in [Tasks -> Calls] /\ task[t] \in Calls /\ CallOK(task[t])
    BY DEF TypeInv, CallsOK, Inv
  <1>2. ASSUME NEW m \in Msgs, Send(t, m) PROVE Tracks(t)
    <2>1. /\ task'[t].op = "send" /\ task'[t].msg = m /\ task'[t].row = NoRow
          /\ task'[t].rows = {} /\ \A u \in Tasks \ {t} : task'[u] = task[u]
      BY <1>1, <1>2 DEF Send, Idle
    <2>2. ~New(task[t])
      BY <1>2 DEF Send, TakesSlot, At, New, TypeInv, CallsOK
    <2>3. typed' = typed \cup {m} /\ m \notin typed /\ UNCHANGED <<outbox, history, stored, refused, unsent>>
      BY <1>2 DEF Send, device, server
    <2>4. Held(task'[t]) = {}
      BY <2>1 DEF Held
    <2>5. Live' \subseteq Live
      BY <2>1, <2>3, <2>4, LiveFrom
    <2> QED  BY <2>1, <2>2, <2>3, <2>5 DEF Tracks, New, Kept, KnownOK, Gone
  <1>3. CASE FlushOutbox(t)
    <2>1. /\ task'[t].rows = outbox /\ task'[t].row = NoRow
          /\ \A u \in Tasks \ {t} : task'[u] = task[u]
      BY <1>1, <1>3 DEF FlushOutbox, Idle
    <2>2. ~New(task[t])
      BY <1>3 DEF FlushOutbox, TakesSlot, At, New, TypeInv, CallsOK
    <2>3. UNCHANGED <<typed, outbox, history, stored, refused, unsent>>
      BY <1>3 DEF FlushOutbox, device, server
    <2>4. Held(task'[t]) = outbox
      BY <2>1 DEF Held
    <2>5. Live' \subseteq Live
      BY <2>1, <2>3, <2>4, LiveFrom
    <2>6. ~New(task'[t])
      BY <1>1, <1>3 DEF FlushOutbox, Idle, New
    <2> QED  BY <2>1, <2>2, <2>3, <2>5, <2>6 DEF Tracks, Kept, KnownOK, Gone
  <1>4. CASE FlushIdentity(t)
    <2>1. ~New(task[t])
      BY <1>1, <1>4 DEF FlushIdentity, At, New, CallOK, ShapeOK
    <2>2. PICK k : k = [task[t] EXCEPT !.identity = identity]
      OBVIOUS
    <2>3. k \in Calls /\ k.rows = task[t].rows
      BY <1>1, <2>2 DEF Calls, TypeInv, NumbersOK
    <2>4. task'[t] = WithNextRow(k) /\ \A u \in Tasks \ {t} : task'[u] = task[u]
      BY <1>1, <1>4, <2>2 DEF FlushIdentity
    <2>5. Held(WithNextRow(k)) \subseteq k.rows
      <3>1. ASSUME NEW r \in k.rows, NEW s \in {"send", "encrypt"}, WithNextRow(k) = Takes(k, r, s)
            PROVE  Held(WithNextRow(k)) \subseteq k.rows
        BY <2>3, <3>1 DEF Takes, Calls, Held
      <3> QED  BY <2>3, <3>1, IdleOK, NextRowIs
    <2>6. Held(task'[t]) \subseteq Held(task[t])
      BY <2>3, <2>4, <2>5 DEF Held
    <2>7. UNCHANGED <<typed, outbox, history, stored, refused, unsent>>
      BY <1>4 DEF FlushIdentity, device, server
    <2>8. Live' \subseteq Live
      BY <2>4, <2>6, <2>7, LiveFrom
    <2>9. ~New(task'[t])
      <3>1. k.op = "flush"
        BY <1>1, <1>4, <2>2 DEF FlushIdentity, At, CallOK, ShapeOK, Calls
      <3> QED  BY <2>3, <2>4, <3>1, NextRowKeeps DEF New
    <2> QED  BY <2>1, <2>4, <2>7, <2>8, <2>9 DEF Tracks, Kept, KnownOK, Gone
  <1>5. CASE OpenConversation(t)
    <2>1. /\ task'[t].rows = task[t].rows /\ task'[t].row = task[t].row
          /\ task'[t].op = task[t].op /\ task'[t].msg = task[t].msg
          /\ \A u \in Tasks \ {t} : task'[u] = task[u]
      <3>1. PICK e \in 1 .. lastEpoch + 1 :
              task' = [task EXCEPT ![t].opened = e, ![t].epoch = e,
                         ![t].pc = IF task[t].op = "send" THEN "encrypt" ELSE "identity"]
        BY <1>5 DEF OpenConversation
      <3> QED  BY <1>1, <3>1 DEF Calls
    <2>2. Held(task'[t]) = Held(task[t]) /\ (New(task'[t]) <=> New(task[t]))
      BY <2>1 DEF Held, New
    <2>3. UNCHANGED <<typed, outbox, history, stored, refused, unsent>>
      BY <1>5 DEF OpenConversation, device
    <2>4. Live' \subseteq Live
      BY <2>1, <2>2, <2>3, LiveFrom
    <2>5. Gone' = Gone /\ refused \subseteq typed
      BY <2>3 DEF Gone, Kept, KnownOK
    <2> QED  BY <2>1, <2>2, <2>3, <2>4, <2>5 DEF Tracks
  <1>6. CASE DropOutboxEntry(t)
    <2>1. /\ task[t].row \in Live /\ ~New(task[t]) /\ task[t].row.msg \in typed
      BY <1>1, <1>6, HeldIsLive DEF DropOutboxEntry, At, CallOK, ShapeOK, HasRow, New, Inv, LiveOK
    <2>2. /\ outbox' = outbox \ {task[t].row} /\ refused' = refused \cup {task[t].row.msg}
          /\ UNCHANGED <<typed, history, stored, unsent>> /\ End(t)
      BY <1>6 DEF DropOutboxEntry, server
    <2>3. task'[t] = Idle /\ \A u \in Tasks \ {t} : task'[u] = task[u]
      BY <2>2, HeldAfter
    <2>4. Live' \subseteq Live
      BY <2>2, <2>3, IdleOK, LiveFrom
    <2>5. ~New(task'[t])
      BY <2>3, IdleOK
    <2> QED  BY <2>1, <2>2, <2>3, <2>4, <2>5 DEF Tracks, Kept, KnownOK, Gone
  <1>7. CASE MoveToHistory(t)
    <2>1. task[t].row \in stored /\ ~New(task[t])
      BY <1>1, <1>7 DEF MoveToHistory, At, CallOK, ShapeOK, AckOK, HasRow, New
    <2>2. /\ outbox' = outbox \ {task[t].row} /\ history' = history \cup {task[t].row}
          /\ UNCHANGED <<texts, stored>> /\ NextRow(t)
      BY <1>7 DEF MoveToHistory, server
    <2>3. Held(task'[t]) \subseteq Held(task[t]) /\ \A u \in Tasks \ {t} : task'[u] = task[u]
      BY <2>2, HeldAfter
    <2>4. Live' \subseteq Live
      BY <2>2, <2>3, LiveFrom
    <2>5. ~New(task'[t])
      BY <2>2, NextNotNew
    <2> QED  BY <2>1, <2>2, <2>3, <2>4, <2>5 DEF Tracks, Kept, KnownOK, Gone
  <1> QED  BY <1>2, <1>3, <1>4, <1>5, <1>6, <1>7

\* The new row stands for the row it replaces, or for the message of the send.
LEMMA CommitTracks ==
  ASSUME TypeInv, Inv, EpochOK, Kept, NEW t \in Tasks, CommitRow(t)
  PROVE  Kept'
  <1>1. PICK r : r = NewRow(task[t])
    OBVIOUS
  <1>2. PICK q : q = task[t].row
    OBVIOUS
  <1>3. task \in [Tasks -> Calls] /\ task[t] \in Calls /\ task[t].pc = "commit"
    BY DEF TypeInv, CallsOK, CommitRow, At
  <1>4. /\ outbox' = (outbox \ {q}) \cup {r}
        /\ task' = [task EXCEPT ![t].row = r, ![t].pc = "send"]
        /\ UNCHANGED <<history, stored, texts>>
    BY <1>1, <1>2 DEF CommitRow, server
  <1>5. /\ task'[t].row = r /\ task'[t].rows = task[t].rows
        /\ \A u \in Tasks \ {t} : task'[u] = task[u]
    <2>1. PICK k : k = [task[t] EXCEPT !.row = r, !.pc = "send"]
      OBVIOUS
    <2>2. Becomes(t, k)
      BY <1>3, <1>4, <2>1 DEF Becomes, Calls
    <2>3. task'[t] = k /\ \A u \in Tasks \ {t} : task'[u] = task[u]
      BY <2>2, BecomesIs DEF TypeInv
    <2> QED  BY <1>3, <2>1, <2>3 DEF Calls
  <1>6. Live' \subseteq Live \cup {r}
    <2>1. \A u \in Tasks : Held(task'[u]) \subseteq Live \cup {r}
      <3> TAKE u \in Tasks
      <3>1. CASE u = t
        BY <1>5, <3>1, HeldIsLive DEF Held
      <3>2. CASE u # t
        BY <1>5, <3>2, HeldIsLive
      <3> QED  BY <3>1, <3>2
    <2>2. Live' = outbox' \cup stored' \cup UNION {Held(task'[u]) : u \in Tasks}
      BY DEF Live, Held
    <2>3. outbox' \subseteq Live \cup {r} /\ stored' \subseteq Live \cup {r}
      BY <1>4, HeldIsLive
    <2> QED  BY <2>1, <2>2, <2>3
  <1>7. NoRow \notin Live
    BY DEF Inv, LiveOK, NoRow
  <1>8. /\ q # NoRow => r.msg = q.msg
        /\ New(task[t]) => r.msg = task[t].msg
    BY <1>1, <1>2 DEF NewRow, Replaces, New
  <1>9. \A x \in outbox : \E y \in outbox' : y.msg = x.msg
    BY <1>4, <1>7, <1>8, HeldIsLive
  <1>10. KnownOK'
    <2> SUFFICES ASSUME NEW x \in Live'
                 PROVE  x.msg \in refused' \/ \E y \in outbox' \cup history' : y.msg = x.msg
      BY <1>4 DEF Kept, KnownOK
    <2>1. CASE x = r
      BY <1>4, <2>1
    <2>2. CASE x \in Live
      BY <1>4, <1>9, <2>2 DEF Kept, KnownOK
    <2> QED  BY <1>6, <2>1, <2>2
  <1>11. NothingLost'
    <2> SUFFICES ASSUME NEW m \in typed
                 PROVE  \/ \E u \in Tasks : New(task'[u]) /\ task'[u].msg = m
                        \/ m \in refused' \cup Gone' \/ \E x \in outbox' \cup stored' : x.msg = m
      BY <1>4 DEF NothingLost, InProgress, New, Gone
    <2>0. refused' \cup Gone' = refused \cup Gone
      BY <1>4 DEF Gone
    <2>1. \/ \E u \in Tasks : New(task[u]) /\ task[u].msg = m
          \/ m \in refused \cup Gone \/ \E x \in outbox \cup stored : x.msg = m
      BY DEF Kept, NothingLost, InProgress, New, Gone
    <2>2. ASSUME NEW u \in Tasks, New(task[u]), task[u].msg = m
          PROVE  (New(task'[u]) /\ task'[u].msg = m) \/ \E x \in outbox' : x.msg = m
      <3>1. CASE u = t
        BY <1>4, <1>8, <2>2, <3>1
      <3>2. CASE u # t
        BY <1>5, <2>2, <3>2
      <3> QED  BY <3>1, <3>2
    <2> QED  BY <1>4, <1>9, <2>0, <2>1, <2>2
  <1>12. GoneOK'
    <2> SUFFICES ASSUME NEW m \in Gone
                 PROVE  /\ m \in typed' /\ \A x \in Live' : x.msg # m
                        /\ \A u \in Tasks : New(task'[u]) => task'[u].msg # m
      BY <1>4 DEF GoneOK, Gone
    <2>1. /\ m \in typed /\ \A x \in Live : x.msg # m
          /\ \A u \in Tasks : New(task[u]) => task[u].msg # m
      BY DEF Kept, GoneOK
    <2>2. r.msg # m
      <3>1. q = NoRow => New(task[t])
        BY <1>2, <1>3 DEF New, Inv, CallOK, ShapeOK, Calls, Locked
      <3>2. q # NoRow => q \in Live
        BY <1>2, HeldIsLive DEF Held
      <3> QED  BY <1>8, <2>1, <3>1, <3>2
    <2>3. r # NoRow
      BY <1>1 DEF NewRow, NoRow, TypeInv, NumbersOK
    <2> QED  BY <1>4, <1>5, <1>6, <2>1, <2>2, <2>3 DEF New
  <1> QED  BY <1>10, <1>11, <1>12 DEF Kept

\* The steps of encryptMessage before the commit
LEMMA EncryptTracks ==
  ASSUME TypeInv, Inv, Kept, NEW t \in Tasks, EncryptMessage(t) \/ BuildSession(t)
  PROVE  Tracks(t)
  <1>1. UNCHANGED <<outbox, history, typed, stored, refused>>
    BY DEF EncryptMessage, BuildSession, server
  <1>2. "bundle" \in Steps /\ "commit" \in Steps /\ 0 \in Nat /\ "none" \in Replies
    BY DEF Steps, Replies
  <1>3. \/ Throw(t)
        \/ NextRow(t) /\ ~New(task[t]) /\ UNCHANGED unsent
        \/ UNCHANGED unsent /\ \E s \in Steps : Goto(t, s)
    BY <1>2 DEF EncryptMessage, BuildSession, New, Replaces
  <1> QED  BY <1>1, <1>2, <1>3, PassesOn

\* send_message
LEMMA ServerTracks ==
  ASSUME TypeInv, Inv, Kept, NEW t \in Tasks, SendMessage(t) \/ StoreMessage(t)
  PROVE  Tracks(t)
  <1>1. "store" \in Steps /\ 0 \in Nat /\ {"none", "invalid", "superseded", "stale_epoch", "ok", "in_flight"} \subseteq Replies
    BY DEF Steps, Replies
  <1>2. CASE SendMessage(t)
    <2>1. UNCHANGED <<outbox, history, texts, stored>>
      BY <1>2 DEF SendMessage, device
    <2>2. \E s \in Steps, e \in Nat, kind \in Replies : Goto(t, s) \/ Answer(t, kind, e)
      <3>1. lastEpoch \in Nat
        BY DEF TypeInv, NumbersOK
      <3> QED  BY <1>1, <1>2, <3>1 DEF SendMessage
    <2> QED  BY <2>1, <2>2, PassesOn
  <1>3. CASE StoreMessage(t)
    <2>1. /\ UNCHANGED <<outbox, history, texts>>
          /\ stored' \in {stored, stored \cup {task[t].row}} /\ task[t].pc \in HasRow
      BY <1>3 DEF StoreMessage, device, At, HasRow
    <2>2. \E e \in Nat, kind \in Replies : Answer(t, kind, e)
      <3>1. epoch \in Nat
        BY DEF TypeInv, NumbersOK
      <3> QED  BY <1>1, <1>3, <3>1 DEF StoreMessage
    <2> QED  BY <1>1, <2>1, <2>2, PassesOn
  <1> QED  BY <1>2, <1>3

\* deliver, the end of a call by SUPERSEDED, the first half of acknowledge, and a call
\* that is lost
LEMMA DeliverTracks ==
  ASSUME TypeInv, Inv, Kept, NEW t \in Tasks,
         Deliver(t) \/ SetSuperseded(t) \/ Acknowledge(t) \/ GiveUp(t)
  PROVE  Tracks(t)
  <1>0. /\ {"encrypt", "send", "supersede", "drop", "move"} \subseteq Steps
        /\ 0 \in Nat /\ "none" \in Replies
    BY DEF Steps, Replies
  <1>1. task \in [Tasks -> Calls] /\ task[t] \in Calls /\ CallOK(task[t])
    BY DEF TypeInv, CallsOK, Inv
  <1>2. CASE Deliver(t)
    <2>1. UNCHANGED <<outbox, history, typed, stored, refused>>
      BY <1>2, DeliverIs DEF device, server
    <2>2. CASE task' = [task EXCEPT ![t].pc = "ack", ![t].reply = "none"] /\ UNCHANGED unsent
      <3>1. /\ task'[t].rows = task[t].rows /\ task'[t].row = task[t].row
            /\ task'[t].op = task[t].op /\ task'[t].msg = task[t].msg
            /\ \A u \in Tasks \ {t} : task'[u] = task[u]
        BY <1>1, <2>2 DEF Calls
      <3>2. Held(task'[t]) = Held(task[t]) /\ (New(task'[t]) <=> New(task[t]))
        BY <3>1 DEF Held, New
      <3>3. Live' \subseteq Live
        BY <2>1, <3>1, <3>2, LiveFrom
      <3>4. Gone' = Gone /\ refused \subseteq typed
        BY <2>2 DEF Gone, Kept, KnownOK
      <3> QED  BY <2>1, <3>1, <3>2, <3>3, <3>4 DEF Tracks
    <2>3. CASE Throw(t)
      BY <2>1, <2>3, PassesOn
    <2>4. CASE UNCHANGED unsent /\ \E s \in Steps, e \in Nat : Goto(t, s) \/ Retry(t, s, e)
      BY <1>0, <2>1, <2>4, PassesOn
    <2>5. task[t].epoch \in Nat /\ task[t].row.epoch \in Nat
      BY <1>1 DEF Calls, Rows
    <2> QED  BY <1>0, <1>2, <2>2, <2>3, <2>4, <2>5, DeliverIs
  <1>3. CASE SetSuperseded(t)
    <2>1. UNCHANGED <<outbox, history, typed, stored, refused>> /\ Throw(t)
      BY <1>3 DEF SetSuperseded, server
    <2> QED  BY <2>1, PassesOn
  <1>4. CASE Acknowledge(t)
    <2>1. UNCHANGED <<outbox, history, typed, stored, refused, unsent>>
      BY <1>4 DEF Acknowledge, device, server
    <2>2. ~New(task[t])
      BY <1>1, <1>4 DEF Acknowledge, At, CallOK, ShapeOK, HasRow, New
    <2>3. NextRow(t) \/ Goto(t, "move")
      BY <1>4 DEF Acknowledge
    <2> QED  BY <1>0, <2>1, <2>2, <2>3, PassesOn
  <1>5. CASE GiveUp(t)
    <2>1. /\ UNCHANGED <<outbox, history, typed, refused>> /\ Throw(t)
          /\ stored' \in {stored, stored \cup {task[t].row}}
          /\ stored' # stored => task[t].pc \in HasRow
      BY <1>5 DEF GiveUp, At, HasRow
    <2> QED  BY <2>1, PassesOn
  <1> QED  BY <1>2, <1>3, <1>4, <1>5

\* Resets, the peer, the end of a conversation: no message changes its place.
LEMMA EnvironmentTracks ==
  ASSUME Kept, Environment \/ PublishIdentity \/ UNCHANGED vars
  PROVE  Kept'
  <1>1. UNCHANGED <<outbox, history, stored, task, texts>>
    BY DEF Environment, PublishIdentity, ResetIdentity, OtherDeviceResets, OnIdentitySuperseded,
           PeerPublishes, ApproveIdentity, EndConversation, device, server, vars
  <1> QED  BY <1>1 DEF Kept, KnownOK, GoneOK, Gone, NothingLost, InProgress, Live, Held, New

\* Every message that a user typed is in the call that sends it, in the outbox, at the server
\* or refused, or its call failed before it was queued, and then it is nowhere else; and what
\* the server may have is in the outbox or the history of its sender.
THEOREM MessagesKept == Spec => []Kept
  <1>1. Init => Kept
    BY DEF Init, Kept, KnownOK, GoneOK, Gone, NothingLost, Live, Held, Idle
  <1>2. Kept /\ TypeInv /\ Inv /\ EpochOK /\ [Next]_vars => Kept'
    <2> SUFFICES ASSUME Kept, TypeInv, Inv, EpochOK, [Next]_vars
                 PROVE  Kept'
      OBVIOUS
    <2>1. ASSUME NEW t \in Tasks, Step(t) \/ FlushOutbox(t) \/ GiveUp(t) \/ \E m \in Msgs : Send(t, m)
          PROVE  Kept'
      <3>1. CASE CommitRow(t)
        BY <3>1, CommitTracks
      <3>2. CASE EncryptMessage(t) \/ BuildSession(t)
        BY <3>2, EncryptTracks, TracksKeeps
      <3>3. CASE SendMessage(t) \/ StoreMessage(t)
        BY <3>3, ServerTracks, TracksKeeps
      <3>4. CASE Deliver(t) \/ SetSuperseded(t) \/ Acknowledge(t) \/ GiveUp(t)
        BY <3>4, DeliverTracks, TracksKeeps
      <3>5. CASE \/ \E m \in Msgs : Send(t, m)
                 \/ FlushOutbox(t) \/ FlushIdentity(t) \/ OpenConversation(t)
                 \/ DropOutboxEntry(t) \/ MoveToHistory(t)
        BY <3>5, Leaves, TracksKeeps
      <3> QED  BY <2>1, <3>1, <3>2, <3>3, <3>4, <3>5 DEF Step
    <2>2. CASE Environment \/ PublishIdentity \/ UNCHANGED vars
      BY <2>2, EnvironmentTracks
    <2> QED  BY <2>1, <2>2 DEF Next
  <1> QED  BY <1>1, <1>2, TypesKept, RowsInvariant, PTL DEF Spec

\* No message that was queued is lost: neither a crash between the answer and the deletion of
\* its row, nor a second tab that flushes the same row, nor a re-encryption takes it away. One
\* that was not queued is in its call, or the call has failed.
THEOREM NothingIsLost == Spec => []NothingLost
  BY MessagesKept, PTL DEF Kept

\* A text that the composer got back is not also queued, under way or at the server.
THEOREM ReturnedIsNotSent == Spec => []ReturnedOnce
  <1>1. Kept => ReturnedOnce
    <2> SUFFICES ASSUME Kept, NEW m \in returned
                 PROVE  ~InProgress(m) /\ \A r \in outbox \cup stored : r.msg # m
      BY DEF ReturnedOnce
    <2>1. /\ \A r \in Live : r.msg # m
          /\ \A u \in Tasks : New(task[u]) => task[u].msg # m
      BY DEF Kept, GoneOK, Gone
    <2> QED  BY <2>1 DEF InProgress, New, Live
  <1> QED  BY <1>1, MessagesKept, PTL

\* What the server has stored is in the history or the outbox of the sender, or a copy of it
\* was called invalid.
THEOREM StoredIsInHistory == Spec => []StoredIsKnown
  <1>1. Kept => StoredIsKnown
    BY DEF Kept, KnownOK, StoredIsKnown, Live
  <1> QED  BY <1>1, MessagesKept, PTL

\* Every variable keeps its type, and only what was typed is ever refused.
THEOREM TypeCorrect == Spec => []TypeOK
  <1>1. TypeInv /\ Kept => TypeOK
    <2> SUFFICES ASSUME TypeInv, Kept PROVE TypeOK
      OBVIOUS
    <2>1. \A t \in Tasks : /\ task[t].row \in Rows /\ task[t].rows \subseteq Rows
                           /\ task[t].attempt \in 0 .. MaxAttempts - 1
      BY DEF TypeInv, CallsOK, Calls
    <2>2. epoch \in 0 .. lastEpoch
      BY DEF TypeInv, NumbersOK
    <2> QED  BY <2>1, <2>2 DEF TypeInv, RowsOK, NumbersOK, PlacesOK, Kept, KnownOK, GoneOK, Gone, TypeOK
  <1> QED  BY <1>1, TypesKept, MessagesKept, PTL

=============================================================================
