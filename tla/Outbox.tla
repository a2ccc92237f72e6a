------------------------------- MODULE Outbox -------------------------------
(***************************************************************************)
(* How SignalClient sends: send, flushOutbox, deliver, reencrypt,          *)
(* encryptMessage and acknowledge, for one conversation of one device.     *)
(* Every call of send or flushOutbox is a task; the tasks run in the tabs  *)
(* of the browser, share its IndexedDB and take the keys lock (Web Locks). *)
(* A step runs from one await to the next: a transaction of IndexedDB, a   *)
(* call answered by the server, or the wait for the lock.                  *)
(*                                                                         *)
(* The server is what ChatStore promises: an epoch, and a nonce stored     *)
(* once in it.  Epoch 0 is null; a row is stored under its nonce.          *)
(***************************************************************************)
EXTENDS Integers, FiniteSets

CONSTANTS
  Tasks,       \* calls of send and flushOutbox that can be under way at once
  Msgs,        \* the messages the user types, numbered in that order
  MaxAttempts, \* MAX_SEND_ATTEMPTS
  MaxEpochs,   \* bound: epochs the conversation goes through
  MaxResets,   \* bound: identity resets, on this device, another one or the peer's
  MaxFaults    \* bound: calls lost and tabs closed

ASSUME OutboxAssumption ==
  /\ IsFiniteSet(Tasks) /\ "free" \notin Tasks /\ "page" \notin Tasks
  /\ Msgs \subseteq Nat \ {0} /\ IsFiniteSet(Msgs)
  /\ MaxAttempts \in Nat \ {0} /\ MaxEpochs \in Nat
  /\ MaxResets \in Nat /\ MaxFaults \in Nat

VARIABLES
  outbox,    \* pending_outbox
  history,   \* rows acknowledged into the history
  state,     \* meta device_state
  identity,  \* own identity key
  session,   \* meta.sessionEpoch of the peer, 0 without a session
  lock,      \* who holds the keys lock
  task,      \* the calls under way
  typed,     \* messages handed to send
  refused,   \* messages whose row the server called invalid
  returned, lost, \* messages not queued: given back to the composer, or not even that
  epoch, lastEpoch,  \* the conversation on the server; epochs 1 .. lastEpoch existed
  published, lastIdentity, \* own identity key on the server; keys generated so far
  stored,    \* history: rows that create_message ever stored
  peer,      \* the peer's bundle: none, of the trusted identity, of a changed one
  lastNonce, resets, faults

device == <<outbox, history, state, identity, session, lock, lastNonce>>
server == <<epoch, lastEpoch, published, stored, peer>>
bounds == <<lastIdentity, resets, faults>>
unsent == <<returned, lost>>
texts  == <<typed, refused, unsent>>
vars   == <<device, server, task, texts, bounds>>

NoRow == [nonce |-> 0, msg |-> 0, epoch |-> 0, identity |-> 0]
Rows  == [nonce : Nat, msg : Nat, epoch : Nat, identity : Nat]
Free  == "free"
Page  == "page"   \* a reset holds the lock

Idle == [pc |-> "idle", op |-> "flush", msg |-> 0, rows |-> {}, row |-> NoRow,
         opened |-> 0, epoch |-> 0, identity |-> 0, attempt |-> 0, reply |-> "none"]

At(t, s) == task[t].pc = s
Goto(t, s) == task' = [task EXCEPT ![t].pc = s]
End(t) == task' = [task EXCEPT ![t] = Idle]

\* As a bug would have it: a text is given back although its row is queued (wasQueued).
ThrowGivesBack(t) ==
  /\ End(t)
  /\ IF task[t].op = "send"
     THEN returned' = returned \cup {task[t].msg} /\ UNCHANGED lost
     ELSE UNCHANGED unsent

\* An exception ends the call. The composer gets the text of a send back that has not queued
\* it, if it is empty: what the user has typed since, or another call has given back, stays,
\* and this text is lost, as it is when the tab is closed.
Throw(t) ==
  /\ End(t)
  /\ IF task[t].op = "send" /\ task[t].row = NoRow
     THEN \/ returned' = returned \cup {task[t].msg} /\ UNCHANGED lost
          \/ lost' = lost \cup {task[t].msg} /\ UNCHANGED returned
     ELSE UNCHANGED unsent

-----------------------------------------------------------------------------
(* send and flushOutbox                                                    *)

\* The places for calls are alike: a call takes the first that is free.
TakesSlot(t) == At(t, "idle") /\ t = CHOOSE u \in Tasks : At(u, "idle")

Send(t, m) ==
  /\ TakesSlot(t) /\ m \notin typed
  /\ typed' = typed \cup {m}
  /\ task' = [task EXCEPT ![t] = [Idle EXCEPT !.pc = "open", !.op = "send", !.msg = m]]
  /\ UNCHANGED <<device, server, refused, unsent, bounds>>

FlushOutbox(t) ==
  /\ TakesSlot(t) /\ outbox # {}
  /\ task' = [task EXCEPT ![t] = [Idle EXCEPT !.pc = "open", !.rows = outbox]]
  /\ UNCHANGED <<device, server, texts, bounds>>

\* The epoch that do_open answers
Current(e) == e = (IF epoch = 0 THEN lastEpoch + 1 ELSE epoch)
Opens(e) == epoch' = e /\ lastEpoch' = (IF e > lastEpoch THEN e ELSE lastEpoch)

OpenConversation(t) ==
  /\ At(t, "open")
  /\ \E e \in 1 .. lastEpoch + 1 :
       /\ Current(e) /\ Opens(e)
       /\ task' = [task EXCEPT ![t].opened = e, ![t].epoch = e,
                     ![t].pc = IF task[t].op = "send" THEN "encrypt" ELSE "identity"]
  /\ UNCHANGED <<device, published, stored, peer, texts, bounds>>

\* As a bug would have it: every row is encrypted again.
EncryptsAgain(k) ==
  LET r == CHOOSE x \in k.rows : \A y \in k.rows : x.msg <= y.msg
  IN IF k.rows = {} THEN Idle
     ELSE [k EXCEPT !.rows = @ \ {r}, !.row = r, !.attempt = 0, !.epoch = k.opened,
                    !.pc = "encrypt"]

\* ... and: rows of another epoch are not flushed.
SkipsStale(k) ==
  IF \E r \in k.rows : r.epoch = k.opened
  THEN LET r == CHOOSE x \in k.rows : x.epoch = k.opened
       IN [k EXCEPT !.rows = @ \ {r}, !.row = r, !.attempt = 0, !.epoch = k.opened, !.pc = "send"]
  ELSE Idle

\* The oldest row left: sent as it is if it is current, else encrypted again.
WithNextRow(k) ==
  LET r == CHOOSE x \in k.rows : \A y \in k.rows : x.msg <= y.msg
  IN IF k.rows = {} THEN Idle
     ELSE [k EXCEPT !.rows = @ \ {r}, !.row = r, !.attempt = 0, !.epoch = k.opened,
                    !.pc = IF r.epoch = k.opened /\ r.identity = k.identity
                           THEN "send" ELSE "encrypt"]

\* deliver is done with its row: the loop of flushOutbox goes on.
NextRow(t) == task' = [task EXCEPT ![t] = WithNextRow(task[t])]

FlushIdentity(t) ==
  /\ At(t, "identity")
  /\ task' = [task EXCEPT ![t] = WithNextRow([task[t] EXCEPT !.identity = identity])]
  /\ UNCHANGED <<device, server, texts, bounds>>

-----------------------------------------------------------------------------
(* encryptMessage, under the lock                                          *)

Replaces(k) == k.row # NoRow
NeverChecked(r) == TRUE   \* a bug: the row is not looked up again
Pending(r) == r \in outbox

EncryptMessage(t) ==
  LET k == task[t]
  IN /\ At(t, "encrypt") /\ lock = Free
     /\ \/ /\ state # "ready"
           /\ Throw(t) /\ UNCHANGED lock
        \/ /\ state = "ready" /\ Replaces(k) /\ ~Pending(k.row)
           /\ NextRow(t) /\ UNCHANGED <<lock, unsent>>
        \/ /\ state = "ready" /\ (~Replaces(k) \/ Pending(k.row))
           /\ lock' = t
           /\ Goto(t, IF Replaces(k) \/ session # k.epoch THEN "bundle" ELSE "commit")
           /\ UNCHANGED unsent
     /\ UNCHANGED <<outbox, history, state, identity, session, lastNonce, server, typed, refused,
                    bounds>>

\* As a bug would have it: an error leaves the lock taken.
BuildSessionKeepsLock(t) ==
  /\ At(t, "bundle")
  /\ IF peer = "known" THEN Goto(t, "commit") /\ UNCHANGED unsent ELSE Throw(t)
  /\ UNCHANGED <<device, server, typed, refused, bounds>>

\* buildSession: a bundle of the identity that the user trusts, or an error.
BuildSession(t) ==
  /\ At(t, "bundle")
  /\ \/ /\ peer = "known"
        /\ Goto(t, "commit") /\ UNCHANGED <<lock, unsent>>
     \/ /\ peer # "known"
        /\ lock' = Free /\ Throw(t)
  /\ UNCHANGED <<outbox, history, state, identity, session, lastNonce, server, typed, refused,
                 bounds>>

NewRow(k) == [nonce |-> lastNonce + 1, epoch |-> k.epoch, identity |-> identity,
              msg |-> IF Replaces(k) THEN k.row.msg ELSE k.msg]

\* The ratchet step, the new row and the deletion of the old one: one transaction.
CommitRow(t) ==
  LET k == task[t]
  IN /\ At(t, "commit")
     /\ outbox' = (outbox \ {k.row}) \cup {NewRow(k)}
     /\ session' = k.epoch
     /\ lastNonce' = lastNonce + 1
     /\ lock' = Free
     /\ task' = [task EXCEPT ![t].row = NewRow(k), ![t].pc = "send"]
     /\ UNCHANGED <<history, state, identity, server, texts, bounds>>

-----------------------------------------------------------------------------
(* send_message on the server                                              *)

Answer(t, kind, e) ==
  task' = [task EXCEPT ![t].pc = "reply", ![t].reply = kind,
                       ![t].epoch = IF kind = "stale_epoch" THEN e ELSE @]

Handling(r) == \E u \in Tasks : At(u, "store") /\ task[u].row.nonce = r.nonce

SendMessage(t) ==
  LET r == task[t].row
  IN /\ At(t, "send")
     /\ \/ /\ r.epoch = 0 /\ Answer(t, "invalid", 0)
           /\ UNCHANGED <<epoch, lastEpoch>>
        \/ /\ r.epoch # 0 /\ r.identity # published /\ Answer(t, "superseded", 0)
           /\ UNCHANGED <<epoch, lastEpoch>>
        \/ /\ r.epoch # 0 /\ r.identity = published
           /\ \E e \in 1 .. lastEpoch + 1 :
                /\ Current(e) /\ Opens(e)
                /\ \/ r.epoch # e /\ Answer(t, "stale_epoch", e)
                   \/ r.epoch = e /\ r \in stored /\ Answer(t, "ok", e)
                   \/ r.epoch = e /\ r \notin stored /\ Handling(r) /\ Answer(t, "in_flight", e)
                   \/ r.epoch = e /\ r \notin stored /\ ~Handling(r) /\ Goto(t, "store")
     /\ UNCHANGED <<device, published, stored, peer, texts, bounds>>

\* The end of insert_claimed: the message stays only if its epoch does; the epoch of
\* the answer may be none.
StoreMessage(t) ==
  LET r == task[t].row
  IN /\ At(t, "store")
     /\ \/ r.epoch = epoch /\ stored' = stored \cup {r} /\ Answer(t, "ok", epoch)
        \/ r.epoch # epoch /\ UNCHANGED stored /\ Answer(t, "stale_epoch", epoch)
     /\ UNCHANGED <<device, epoch, lastEpoch, published, peer, texts, bounds>>

-----------------------------------------------------------------------------
(* deliver, on the reply                                                   *)

\* As bugs would have it: one attempt more; and in_flight taken for an acknowledgement.
GoesOnOnceMore(t) == task[t].attempt < MaxAttempts
RetryTrusts(t, s, e) ==
  task' = [task EXCEPT ![t].pc = IF s = "send" THEN "ack" ELSE s,
                       ![t].epoch = e, ![t].attempt = @ + 1]

GoesOn(t) == task[t].attempt + 1 < MaxAttempts
Retry(t, s, e) ==
  task' = [task EXCEPT ![t].pc = s, ![t].epoch = e, ![t].attempt = @ + 1, ![t].reply = "none"]

Deliver(t) ==
  LET k == task[t]
      answered(kind) == k.reply = kind /\ (kind = "ok" \/ GoesOn(t))
  IN /\ At(t, "reply")
     /\ \/ /\ answered("ok") /\ task' = [task EXCEPT ![t].pc = "ack", ![t].reply = "none"]
           /\ UNCHANGED unsent
        \/ k.reply # "ok" /\ ~GoesOn(t) /\ Throw(t)
        \/ answered("stale_epoch") /\ Retry(t, "encrypt", k.epoch) /\ UNCHANGED unsent
        \/ answered("in_flight") /\ Retry(t, "send", k.epoch) /\ UNCHANGED unsent
        \/ /\ answered("superseded") /\ k.row.identity # identity
           /\ Retry(t, "encrypt", k.row.epoch) /\ UNCHANGED unsent
        \/ /\ answered("superseded") /\ k.row.identity = identity
           /\ Goto(t, "supersede") /\ UNCHANGED unsent
        \/ answered("invalid") /\ Goto(t, "drop") /\ UNCHANGED unsent
     /\ UNCHANGED <<device, server, typed, refused, bounds>>

SetSuperseded(t) ==
  /\ At(t, "supersede")
  /\ state' = "superseded"
  /\ Throw(t)
  /\ UNCHANGED <<outbox, history, identity, session, lock, lastNonce, server, typed, refused,
                 bounds>>

DropOutboxEntry(t) ==
  /\ At(t, "drop")
  /\ outbox' = outbox \ {task[t].row}
  /\ refused' = refused \cup {task[t].row.msg}
  /\ End(t)
  /\ UNCHANGED <<history, state, identity, session, lock, lastNonce, server, typed, unsent, bounds>>

\* acknowledge reads the row in one transaction and moves it in the next, without the lock.
Acknowledge(t) ==
  /\ At(t, "ack")
  /\ \/ Pending(task[t].row) /\ Goto(t, "move")
     \/ ~Pending(task[t].row) /\ NextRow(t)
  /\ UNCHANGED <<device, server, texts, bounds>>

\* As a bug would have it: the message is not put into the history.
Forget(t) ==
  /\ At(t, "move")
  /\ outbox' = outbox \ {task[t].row}
  /\ NextRow(t)
  /\ UNCHANGED <<history, state, identity, session, lock, lastNonce, server, texts, bounds>>

MoveToHistory(t) ==
  /\ At(t, "move")
  /\ history' = history \cup {task[t].row}
  /\ outbox' = outbox \ {task[t].row}
  /\ NextRow(t)
  /\ UNCHANGED <<state, identity, session, lock, lastNonce, server, texts, bounds>>

-----------------------------------------------------------------------------
(* Identities, the peer, the end of conversations                          *)

\* resetIdentity takes the lock and commits the new identity before it publishes it.
ResetIdentity ==
  /\ resets < MaxResets /\ resets' = resets + 1
  /\ lock = Free /\ lock' = Page
  /\ state' = "resetting"
  /\ lastIdentity' = lastIdentity + 1 /\ identity' = lastIdentity + 1
  /\ session' = 0
  /\ UNCHANGED <<outbox, history, lastNonce, server, task, texts, faults>>

PublishIdentity ==
  /\ lock = Page /\ lock' = Free
  /\ published' = identity
  /\ state' = "ready"
  /\ UNCHANGED <<outbox, history, identity, session, lastNonce, epoch, lastEpoch, stored, peer,
                 task, texts, bounds>>

OtherDeviceResets ==
  /\ resets < MaxResets /\ resets' = resets + 1
  /\ lastIdentity' = lastIdentity + 1 /\ published' = lastIdentity + 1
  /\ UNCHANGED <<device, epoch, lastEpoch, stored, peer, task, texts, faults>>

OnIdentitySuperseded ==
  /\ published # identity /\ lock # Page /\ state # "superseded"
  /\ state' = "superseded"
  /\ UNCHANGED <<outbox, history, identity, session, lock, lastNonce, server, task, texts, bounds>>

PeerPublishes ==
  /\ \/ peer = "none" /\ peer' = "known" /\ UNCHANGED resets
     \/ peer = "known" /\ resets < MaxResets /\ peer' = "changed" /\ resets' = resets + 1
  /\ UNCHANGED <<device, epoch, lastEpoch, published, stored, task, texts, lastIdentity, faults>>

ApproveIdentity ==
  /\ peer = "changed" /\ lock = Free
  /\ peer' = "known"
  /\ session' = 0
  /\ UNCHANGED <<outbox, history, state, identity, lock, lastNonce, epoch, lastEpoch, published,
                 stored, task, texts, bounds>>

\* The conversation expires, or a reset of either side ends it.
EndConversation ==
  /\ epoch # 0 /\ lastEpoch < MaxEpochs
  /\ epoch' = 0
  /\ UNCHANGED <<device, lastEpoch, published, stored, peer, task, texts, bounds>>

\* The call or its reply is lost, or the tab is closed: the lock is released, and a
\* send_message under way may still be carried out.
GiveUp(t) ==
  /\ task[t].pc \in {"open", "bundle", "send", "store", "reply"}
  /\ faults < MaxFaults /\ faults' = faults + 1
  /\ Throw(t)
  /\ lock' = IF lock = t THEN Free ELSE lock
  /\ stored' \in {stored} \cup (IF At(t, "store") /\ task[t].row.epoch = epoch
                                THEN {stored \cup {task[t].row}} ELSE {})
  /\ UNCHANGED <<outbox, history, state, identity, session, lastNonce, epoch, lastEpoch, published,
                 peer, typed, refused, lastIdentity, resets>>

-----------------------------------------------------------------------------
Init ==
  /\ outbox = {} /\ history = {} /\ state = "ready" /\ identity = 1 /\ session = 0
  /\ lock = Free
  /\ task = [t \in Tasks |-> Idle]
  /\ typed = {} /\ refused = {} /\ returned = {} /\ lost = {}
  /\ epoch = 0 /\ lastEpoch = 0 /\ published = 1 /\ lastIdentity = 1 /\ stored = {}
  /\ peer = "none"
  /\ lastNonce = 0 /\ resets = 0 /\ faults = 0

Step(t) ==
  \/ OpenConversation(t) \/ FlushIdentity(t)
  \/ EncryptMessage(t) \/ BuildSession(t) \/ CommitRow(t)
  \/ SendMessage(t) \/ StoreMessage(t) \/ Deliver(t)
  \/ SetSuperseded(t) \/ DropOutboxEntry(t) \/ Acknowledge(t) \/ MoveToHistory(t)

Environment ==
  \/ ResetIdentity \/ OtherDeviceResets \/ OnIdentitySuperseded
  \/ PeerPublishes \/ ApproveIdentity \/ EndConversation

Next ==
  \/ \E t \in Tasks : Step(t) \/ FlushOutbox(t) \/ GiveUp(t)
  \/ \E t \in Tasks, m \in Msgs : Send(t, m)
  \/ Environment
  \/ PublishIdentity

Spec == Init /\ [][Next]_vars

\* Promises are settled, Web Locks are granted in the order of the requests (so a waiting
\* call gets its turn), and the chat is opened again while messages are queued.
FairSpec ==
  /\ Spec
  /\ \A t \in Tasks : SF_vars(Step(t))
  /\ WF_vars(\E t \in Tasks : FlushOutbox(t))
  /\ WF_vars(PublishIdentity)

-----------------------------------------------------------------------------
(* Properties                                                              *)

TypeOK ==
  /\ outbox \subseteq Rows /\ history \subseteq Rows /\ stored \subseteq Rows
  /\ state \in {"ready", "superseded", "resetting"}
  /\ lock \in Tasks \cup {Free, Page}
  /\ \A t \in Tasks : /\ task[t].row \in Rows /\ task[t].rows \subseteq Rows
                      /\ task[t].attempt \in 0 .. MaxAttempts - 1
  /\ typed \subseteq Msgs /\ refused \cup returned \cup lost \subseteq typed
  /\ epoch \in 0 .. lastEpoch /\ identity \in 1 .. lastIdentity /\ published \in 1 .. lastIdentity
  /\ peer \in {"none", "known", "changed"}

\* A message is pending at most once, however many tabs flush, re-encrypt and acknowledge
\* its row at the same time.
OneRow == \A r1, r2 \in outbox : r1.msg = r2.msg => r1 = r2

\* Resends and re-encryptions do not store a message twice in an epoch: the peer of a
\* conversation sees it once as long as the conversation and the identity last.
SentOncePerEpoch ==
  \A r1, r2 \in stored :
    r1.msg = r2.msg /\ r1.epoch = r2.epoch /\ r1.identity = r2.identity => r1 = r2

InProgress(m) == \E t \in Tasks : task[t].op = "send" /\ task[t].msg = m /\ task[t].row = NoRow

\* What the user sent is on its way, queued, stored by the server or called invalid by it,
\* unless its call failed before it was queued: no crash, retry, re-encryption or other tab
\* takes a message away that was queued. (One that was not may be lost: Throw.)
NothingLost ==
  \A m \in typed :
    \/ InProgress(m) \/ m \in refused
    \/ \E r \in outbox \cup stored : r.msg = m
    \/ m \in returned \cup lost

\* A text that is back in the composer is nowhere else: it is not queued, under way or stored,
\* and sending it again does not send it twice (wasQueued).
ReturnedOnce ==
  \A m \in returned : ~InProgress(m) /\ \A r \in outbox \cup stored : r.msg # m

\* Once the server has a message, the sender's history or outbox shows it, unless the server
\* called a later copy invalid: a lost reply leaves the row for the next flush.
StoredIsKnown ==
  \A r \in stored : r.msg \in refused \/ \E x \in outbox \cup history : x.msg = r.msg

\* Every call ends: the lock is passed on, and in_flight and stale_epoch are retried a
\* bounded number of times.
CallsEnd == \A t \in Tasks : ~At(t, "idle") ~> At(t, "idle")

\* A queued message is delivered by a later flush, unless this device is superseded or the
\* peer's identity waits for approval.
OutboxDrains == (outbox # {}) ~> (outbox = {} \/ state # "ready" \/ peer # "known")

=============================================================================
