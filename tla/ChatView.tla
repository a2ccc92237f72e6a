------------------------------ MODULE ChatView ------------------------------
(***************************************************************************)
(* How the messages of one conversation reach the screen of one page:      *)
(* ChatLive.mount reads the latest messages and then subscribes,           *)
(* ChatScreen hands every update of the stream to the ChatController,      *)
(* whose queue catches up, decrypts and renders; SignalClient keeps the    *)
(* history, the cursor and the trusted identity in the browser's database. *)
(*                                                                         *)
(* A message is its seq.  The server stores and broadcasts it in separate  *)
(* steps of concurrent processes; a broadcast and its way to the stream of *)
(* the page are one step.  All messages from the peer carry an identity    *)
(* (PreKey messages) until the user has answered.  An own message is one   *)
(* of this device or of another one of the session.                        *)
(***************************************************************************)
EXTENDS Integers, Sequences, FiniteSets

CONSTANTS
  MaxSeq,    \* bound: messages that are sent
  MaxEpochs, \* bound: epochs, of which the last does not end
  MaxKeys,   \* bound: identities of the peer
  MaxFaults, \* bound: what fails, is dropped, closed, loaded again, replaced or cleared
  Window,    \* messages that mount reads (@default_page_size)
  PageSize   \* messages of an answer of fetch_messages (@max_page_size)

ASSUME ChatViewAssumption ==
  /\ MaxSeq \in Nat /\ MaxEpochs \in Nat \ {0} /\ MaxKeys \in Nat \ {0}
  /\ MaxFaults \in Nat
  /\ Window \in Nat \ {0} /\ PageSize \in Nat \ {0}

VARIABLES
  msgs,      \* the messages for which a seq was drawn: direction, epoch, identity
  inserted,  \* stored at some time
  sent,      \* broadcast
  epoch, lastEpoch, key,  \* the conversation, 0 without one; the peer's identity
  history,   \* seqs in the local history
  outbox,    \* own messages whose row is still pending
  removed,   \* history: those whose row was replaced or cleared
  cursor,    \* meta.cursor
  trusted, pending,       \* trusted_identities: publicKey, pendingKey; 0 is none
  live,      \* the LiveView of the page: off, read (not yet subscribed), live
  entries, first,   \* stream entries in the document, and the one that comes first
  shown,     \* those with data-converted="true"
  unavailable, \* own messages shown without their text
  pageEpoch, \* data-epoch
  stage,     \* the hook: none, opening (the store), keys (ensureKeys runs), open, closed
  queue, run,  \* its queue of tasks and the one that runs
  blocked, banner, bannerDue, approving, \* blockedByIdentity; the key the banner shows
  caught,    \* history: the last catch-up of the page went to its end
  failed,    \* history: since the page was loaded, its start or a rendering failed
  mishap,    \* history: what went wrong, see CoveredUnlessMishap
  faults

server == <<msgs, inserted, sent, epoch, lastEpoch, key>>
db     == <<history, removed, outbox, cursor, trusted, pending>>
screen == <<live, entries, first, shown, unavailable, pageEpoch, stage>>
trust  == <<blocked, banner, bannerDue, approving>>
vars   == <<server, db, screen, queue, run, trust, caught, failed, mishap, faults>>

NoRun == [pc |-> "idle", todo |-> {}, epoch |-> 0, until |-> 0, after |-> 0, page |-> {},
          more |-> FALSE]

Least(S) == CHOOSE s \in S : \A r \in S : s <= r
Dirs == {"in", "out", "elsewhere"}   \* of the peer, of this device, of another device
Drawn == 1 .. Len(msgs)
In(s) == msgs[s].dir = "in"
Known == history \cup removed   \* decrypted or acknowledged at some time
\* The end of an epoch deletes its messages.
Stored(e) == {s \in inserted : msgs[s].epoch = e /\ e = epoch}
First(n, S) == {s \in S : Cardinality({r \in S : r < s}) < n}
Last(n, S) == {s \in S : Cardinality({r \in S : r > s}) < n}

-----------------------------------------------------------------------------
(* The server                                                              *)

\* A sender opens the conversation and draws a seq; only an own message of this device has
\* a row in its outbox.
DrawSeq(dir) ==
  LET e == IF epoch = 0 THEN lastEpoch + 1 ELSE epoch
      n == Len(msgs) + 1
  IN /\ n <= MaxSeq /\ e <= MaxEpochs
     /\ epoch' = e /\ lastEpoch' = (IF e > lastEpoch THEN e ELSE lastEpoch)
     /\ msgs' = Append(msgs, [dir |-> dir, epoch |-> e, key |-> key])
     /\ outbox' = IF dir = "out" THEN outbox \cup {n} ELSE outbox
     /\ UNCHANGED <<inserted, sent, key, history, removed, cursor, trusted, pending, screen, queue,
                    run, trust, caught, failed, mishap, faults>>

\* A case in which the code does not keep the cursor covered
Mishap(happens) == mishap' = IF happens THEN "other" ELSE mishap
Overtaken(s) == \E r \in Drawn : r < s /\ msgs[r].epoch = msgs[s].epoch /\ r \notin sent

InsertMessage(s) ==
  /\ s \notin inserted /\ msgs[s].epoch = epoch
  /\ inserted' = inserted \cup {s}
  /\ Mishap(\E r \in Stored(epoch) : r > s)
  /\ UNCHANGED <<msgs, sent, epoch, lastEpoch, key, db, screen, queue, run, trust, caught, failed,
                 faults>>

\* As a bug would have it: nothing is enqueued while a task runs.
WithProcessIfIdle(q) == IF run.pc = "idle" THEN Append(q, "process") ELSE q

\* A task that only renders does nothing that an equal one in front of it leaves to do.
WithProcess(q) ==
  IF q # <<>> /\ q[Len(q)] = "process" THEN q ELSE Append(q, "process")

\* updated of the hook: without a controller nothing is enqueued.
Updated(q) == IF stage \in {"keys", "open"} THEN WithProcess(q) ELSE q

\* stream_insert replaces an entry that is already there.
BroadcastMessage(s) ==
  /\ s \in inserted \ sent
  /\ sent' = sent \cup {s}
  /\ \/ /\ live = "live"
        /\ entries' = entries \cup {s} /\ shown' = shown \ {s} /\ unavailable' = unavailable \ {s}
        /\ first' = (IF entries = {} THEN s ELSE first)
        /\ pageEpoch' = msgs[s].epoch
        /\ queue' = Updated(queue)
     \/ /\ live # "live"
        /\ UNCHANGED <<entries, first, shown, unavailable, pageEpoch, queue>>
  /\ Mishap(\/ Overtaken(s)
            \/ live = "read" /\ s \notin entries
            \/ live = "live" /\ msgs[s].epoch < pageEpoch)
  /\ UNCHANGED <<msgs, inserted, epoch, lastEpoch, key, db, live, stage, run, trust, caught, failed,
                 faults>>

\* The conversation expires, or the peer resets its identity.
EndConversation(k) ==
  /\ epoch \notin {0, MaxEpochs} /\ k \in {key, key + 1} /\ k <= MaxKeys
  /\ epoch' = 0 /\ key' = k
  /\ UNCHANGED <<msgs, inserted, sent, lastEpoch, db, screen, queue, run, trust, caught, failed,
                 mishap, faults>>

-----------------------------------------------------------------------------
(* The page and its LiveView                                               *)

\* As a bug would have it: the entries that were there count as converted.
RendersOver(latest) ==
  /\ entries' = latest /\ first' = IF latest = {} THEN 0 ELSE Least(latest)
  /\ pageEpoch' = epoch
  /\ UNCHANGED <<shown, unavailable>>

Renders(latest) ==
  /\ entries' = latest /\ first' = IF latest = {} THEN 0 ELSE Least(latest)
  /\ shown' = {} /\ unavailable' = {}
  /\ pageEpoch' = epoch

\* mount reads the latest messages,
Mount ==
  /\ live = "off" /\ stage = "none" /\ live' = "read"
  /\ Renders(Last(Window, Stored(epoch)))
  /\ UNCHANGED <<server, db, stage, queue, run, trust, caught, failed, mishap, faults>>

\* then subscribes; the hook is mounted with the answer.
Subscribe ==
  /\ live = "read" /\ live' = "live"
  /\ stage' = "opening"
  /\ UNCHANGED <<server, db, entries, first, shown, unavailable, pageEpoch, queue, run, trust,
                 caught, failed, mishap, faults>>

\* A LiveView that joins again mounts anew; the hook is only told of the update.
Rejoin ==
  /\ live = "off" /\ stage # "none" /\ live' = "live"
  /\ Renders(Last(Window, Stored(epoch)))
  /\ queue' = Updated(queue)
  /\ Mishap(TRUE)
  /\ UNCHANGED <<server, db, stage, run, trust, caught, failed, faults>>

\* The hook stores its controller once the store is open.
OpenClient ==
  /\ stage = "opening" /\ stage' = "keys"
  /\ UNCHANGED <<server, db, live, entries, first, shown, unavailable, pageEpoch, queue, run, trust,
                 caught, failed, mishap, faults>>

\* ensureKeys has returned: start refreshes.
Start ==
  /\ stage = "keys" /\ stage' = "open"
  /\ queue' = Append(queue, "refresh")
  /\ UNCHANGED <<server, db, live, entries, first, shown, unavailable, pageEpoch, run, trust,
                 caught, failed, mishap, faults>>

\* Without its store the page gets no controller; without its keys it has one that still
\* renders what the stream brings, but start does not refresh.
StartFails ==
  /\ \/ stage = "opening" /\ stage' = "closed"
     \/ stage = "keys" /\ stage' = "open"
  /\ \/ stage = "keys" /\ live = "off" /\ UNCHANGED faults
     \/ faults < MaxFaults /\ faults' = faults + 1
  /\ failed' = TRUE
  /\ UNCHANGED <<server, db, live, entries, first, shown, unavailable, pageEpoch, queue, run, trust,
                 caught, mishap>>

Disconnect ==
  /\ live = "live" /\ faults < MaxFaults
  /\ live' = "off" /\ faults' = faults + 1
  /\ UNCHANGED <<server, db, entries, first, shown, unavailable, pageEpoch, stage, queue, run,
                 trust, caught, failed, mishap>>

\* The page is closed or reloaded, in the middle of whatever it does.
Reload ==
  /\ stage # "none" /\ faults < MaxFaults
  /\ faults' = faults + 1
  /\ live' = "off" /\ stage' = "none"
  /\ entries' = {} /\ first' = 0 /\ shown' = {} /\ unavailable' = {} /\ pageEpoch' = 0
  /\ queue' = <<>> /\ run' = NoRun
  /\ blocked' = FALSE /\ banner' = 0 /\ bannerDue' = FALSE /\ approving' = FALSE
  /\ caught' = FALSE /\ failed' = FALSE
  /\ UNCHANGED <<server, db, mishap>>

-----------------------------------------------------------------------------
(* decryptMessage: one transaction under the keys lock                     *)

Trusts(k) == trusted \in {0, k}
Readable(s) == s \in history \/ Trusts(msgs[s].key)

Advanced(s) ==
  [epoch |-> msgs[s].epoch,
   seq |-> IF cursor.epoch = msgs[s].epoch /\ cursor.seq > s THEN cursor.seq ELSE s]

Decrypt(s) ==
  IF s \in history THEN UNCHANGED <<history, cursor, trusted>>
  ELSE /\ history' = history \cup {s}
       /\ cursor' = Advanced(s)
       /\ trusted' = msgs[s].key

\* IdentityChangedError: assertTrusted records the key, handleError blocks the page.
IdentityChanged(s) ==
  /\ pending' = msgs[s].key
  /\ blocked' = TRUE /\ bannerDue' = TRUE
  /\ UNCHANGED <<history, cursor, trusted>>

-----------------------------------------------------------------------------
(* The task at the head of the queue: refresh or processEntries            *)

Unrendered == entries \ shown

Rendering == [NoRun EXCEPT !.pc = "render", !.todo = run.todo]

StartTask ==
  /\ run.pc = "idle" /\ queue # <<>>
  /\ queue' = Tail(queue)
  /\ LET catchesUp == Head(queue) = "refresh" /\ pageEpoch # 0 /\ ~blocked
     IN /\ run' = IF catchesUp
                   THEN [NoRun EXCEPT !.pc = "fetch", !.todo = Unrendered,
                           !.epoch = pageEpoch, !.until = first,
                           !.after = IF cursor.epoch = pageEpoch THEN cursor.seq ELSE 0]
                   ELSE [NoRun EXCEPT !.pc = "render", !.todo = Unrendered]
        /\ caught' = (caught \/ (Head(queue) = "refresh" /\ pageEpoch = 0))
  /\ UNCHANGED <<server, db, screen, trust, failed, mishap, faults>>

PageFromNext ==   \* a bug: off by one
  First(PageSize, {s \in Stored(run.epoch) : s > run.after + 1})

Page == First(PageSize, {s \in Stored(run.epoch) : s > run.after})

FetchMessages ==
  /\ run.pc = "fetch" /\ live = "live"
  /\ run' = [run EXCEPT !.pc = "catchup", !.page = Page, !.more = Cardinality(Page) = PageSize,
                        !.after = IF Page = {} THEN @
                                  ELSE CHOOSE s \in Page : \A r \in Page : r <= s]
  /\ UNCHANGED <<server, db, screen, queue, trust, caught, failed, mishap, faults>>

\* The call fails: refresh logs it and renders.
FetchFails ==
  /\ run.pc = "fetch"
  /\ \/ live = "off" /\ UNCHANGED faults
     \/ live # "off" /\ faults < MaxFaults /\ faults' = faults + 1
  /\ run' = Rendering
  /\ Mishap(TRUE)
  /\ UNCHANGED <<server, db, screen, queue, trust, caught, failed>>

PastWindowBut1(s) == run.until # 0 /\ s + 1 >= run.until   \* a bug: off by one

PastWindow(s) == run.until # 0 /\ s >= run.until

\* Of the errors of decryptMessage only a changed identity ends the catch-up; after any
\* other it goes on with the next message.
CatchUp ==
  /\ run.pc = "catchup"
  /\ LET s == Least(run.page)
         rest == [run EXCEPT !.page = @ \ {s}]
     IN \/ /\ run.page = {} /\ run.more
           /\ run' = [run EXCEPT !.pc = "fetch"]
           /\ UNCHANGED <<db, trust, caught, mishap, faults>>
        \/ /\ IF run.page = {} THEN ~run.more ELSE PastWindow(s)
           /\ run' = Rendering /\ caught' = TRUE
           /\ UNCHANGED <<db, trust, mishap, faults>>
        \/ /\ run.page # {} /\ ~PastWindow(s) /\ ~In(s)
           /\ run' = rest
           /\ UNCHANGED <<db, trust, caught, mishap, faults>>
        \/ /\ run.page # {} /\ ~PastWindow(s) /\ In(s) /\ Readable(s)
           /\ Decrypt(s)
           /\ run' = rest
           /\ UNCHANGED <<removed, outbox, pending, trust, caught, mishap, faults>>
        \/ /\ run.page # {} /\ ~PastWindow(s) /\ In(s) /\ ~Readable(s)
           /\ IdentityChanged(s)
           /\ run' = Rendering /\ caught' = FALSE
           /\ UNCHANGED <<removed, outbox, banner, approving, mishap, faults>>
        \/ /\ run.page # {} /\ ~PastWindow(s) /\ In(s)
           /\ faults < MaxFaults /\ faults' = faults + 1
           /\ run' = rest
           /\ Mishap(s \notin Known)
           /\ UNCHANGED <<db, trust, caught>>
  /\ UNCHANGED <<server, screen, queue, failed>>

Entry == Least(run.todo)
Fill(s) == shown' = shown \cup ({s} \cap entries)
Next1 == run' = [run EXCEPT !.todo = @ \ {Entry}, !.pc = "render"]

\* renderEntries: an incoming entry
RenderEntry ==
  /\ run.pc = "render"
  /\ \/ /\ IF run.todo = {} THEN TRUE ELSE blocked /\ In(Entry)
        /\ run' = IF bannerDue THEN [NoRun EXCEPT !.pc = "banner"] ELSE NoRun
        /\ UNCHANGED <<db, shown, blocked, bannerDue, mishap>>
     \/ /\ run.todo # {} /\ In(Entry) /\ ~blocked /\ Readable(Entry)
        /\ Decrypt(Entry) /\ Fill(Entry) /\ Next1
        /\ mishap' = IF caught \/ Entry \in history \/ mishap = "other" THEN mishap ELSE "early"
        /\ UNCHANGED <<removed, outbox, pending, blocked, bannerDue>>
     \/ /\ run.todo # {} /\ In(Entry) /\ ~blocked /\ ~Readable(Entry)
        /\ IdentityChanged(Entry)
        /\ run' = [NoRun EXCEPT !.pc = "banner"]
        /\ UNCHANGED <<removed, outbox, shown, mishap>>
  /\ UNCHANGED <<server, live, entries, first, unavailable, pageEpoch, stage, queue, banner,
                 approving, caught, failed, faults>>

\* ... and an own one: acknowledge looks into the outbox, then into the history.
FindOwn ==
  /\ run.pc = "render" /\ run.todo # {} /\ ~In(Entry)
  /\ run' = [run EXCEPT !.pc = IF Entry \in outbox THEN "move" ELSE "history"]
  /\ UNCHANGED <<server, db, screen, queue, trust, caught, failed, mishap, faults>>

NotFound(s) == FALSE   \* a bug: acknowledge answers only with the outbox row
HistoryEntry(s) == s \in history

ReadOwn ==
  /\ run.pc \in {"move", "history"}
  /\ \/ /\ run.pc = "move"
        /\ history' = history \cup {Entry} /\ outbox' = outbox \ {Entry}
        /\ UNCHANGED unavailable
     \/ /\ run.pc = "history"
        /\ unavailable' = IF HistoryEntry(Entry) THEN unavailable
                          ELSE unavailable \cup ({Entry} \cap entries)
        /\ UNCHANGED <<history, outbox>>
  /\ Fill(Entry) /\ Next1
  /\ UNCHANGED <<server, removed, cursor, trusted, pending, live, entries, first, pageEpoch, stage,
                 queue, trust, caught, failed, mishap, faults>>

\* The message in hand cannot be read: an incoming one ends the loop, an error of
\* acknowledge the whole task.
RenderFails ==
  /\ run.pc \in {"render", "move", "history"} /\ run.todo # {}
  /\ ~(blocked /\ In(Entry))
  /\ faults < MaxFaults /\ faults' = faults + 1
  /\ run' = IF In(Entry) THEN [NoRun EXCEPT !.pc = "banner"] ELSE NoRun
  /\ failed' = TRUE
  /\ UNCHANGED <<server, db, screen, queue, trust, caught, mishap>>

\* The task ends when the banner it caused is there.
EndTask ==
  /\ run.pc = "banner" /\ ~bannerDue
  /\ run' = NoRun
  /\ UNCHANGED <<server, db, screen, queue, trust, caught, failed, mishap, faults>>

-----------------------------------------------------------------------------
(* Approval, and what happens elsewhere in the browser                     *)

PendingOnly(p) == p   \* a bug: no banner when nothing is pending any more

\* safetyNumber compares the pending identity, or the trusted one if none is pending.
ShownKey(p) == IF p # 0 THEN p ELSE trusted

ShowIdentityChanged ==
  /\ bannerDue /\ bannerDue' = FALSE
  /\ banner' = ShownKey(pending)
  /\ UNCHANGED <<server, db, screen, queue, run, blocked, approving, caught, failed, mishap,
                 faults>>

Accepts == IF pending = 0 THEN UNCHANGED <<trusted, pending>>
           ELSE trusted' = pending /\ pending' = 0

ApproveIdentity ==
  /\ banner # 0 /\ ~approving /\ approving' = TRUE
  /\ Accepts
  /\ UNCHANGED <<server, history, removed, outbox, cursor, screen, queue, run, blocked, banner,
                 bannerDue, caught, failed, mishap, faults>>

Approved ==
  /\ approving /\ approving' = FALSE
  /\ blocked' = FALSE /\ banner' = 0
  /\ queue' = Append(queue, "refresh")
  /\ UNCHANGED <<server, db, screen, run, bannerDue, caught, failed, mishap, faults>>

\* Another tab that has received a message decrypts it, also one that follows others it has
\* not read; the user approves there.
OtherTabDecrypts ==
  \E s \in Stored(epoch) :
    /\ In(s) /\ s \notin history /\ Trusts(msgs[s].key)
    /\ Decrypt(s)
    /\ Mishap(\E r \in Stored(epoch) : In(r) /\ r < s /\ r \notin Known)
    /\ UNCHANGED <<server, removed, outbox, pending, screen, queue, run, trust, caught, failed,
                   faults>>

OtherTabApproves ==
  /\ pending # 0 /\ Accepts
  /\ UNCHANGED <<server, history, removed, outbox, cursor, screen, queue, run, trust, caught,
                 failed, mishap, faults>>

\* The reply of send moves the row before or after its entry is rendered.
SendReply(s) ==
  /\ s \in inserted \cap outbox
  /\ history' = history \cup {s} /\ outbox' = outbox \ {s}
  /\ UNCHANGED <<server, removed, cursor, trusted, pending, screen, queue, run, trust, caught,
                 failed, mishap, faults>>

\* A row of an ended epoch, the reply to which was lost, is encrypted anew: its text is then
\* found under another nonce.
Reencrypt(s) ==
  /\ s \in outbox /\ msgs[s].epoch # epoch
  /\ faults < MaxFaults /\ faults' = faults + 1
  /\ outbox' = outbox \ {s} /\ removed' = removed \cup {s}
  /\ UNCHANGED <<server, history, cursor, trusted, pending, screen, queue, run, trust, caught,
                 failed, mishap>>

\* The user clears the history of the conversation, in any tab; the cursor stays.
ClearHistory ==
  /\ history # {} /\ faults < MaxFaults /\ faults' = faults + 1
  /\ history' = {} /\ removed' = removed \cup history
  /\ UNCHANGED <<server, outbox, cursor, trusted, pending, screen, queue, run, trust, caught,
                 failed, mishap>>

-----------------------------------------------------------------------------
Init ==
  /\ msgs = <<>> /\ inserted = {} /\ sent = {}
  /\ epoch = 0 /\ lastEpoch = 0 /\ key = 1
  /\ history = {} /\ removed = {} /\ outbox = {} /\ cursor = [epoch |-> 0, seq |-> 0]
  /\ trusted = 0 /\ pending = 0
  /\ live = "off" /\ entries = {} /\ first = 0 /\ shown = {} /\ unavailable = {} /\ pageEpoch = 0
  /\ stage = "none" /\ queue = <<>> /\ run = NoRun
  /\ blocked = FALSE /\ banner = 0 /\ bannerDue = FALSE /\ approving = FALSE
  /\ caught = FALSE /\ failed = FALSE /\ mishap = "none" /\ faults = 0

Task ==
  \/ StartTask \/ FetchMessages \/ FetchFails \/ CatchUp
  \/ RenderEntry \/ FindOwn \/ ReadOwn \/ EndTask
Joins == Mount \/ Subscribe \/ Rejoin \/ OpenClient \/ Start

Next ==
  \/ \E dir \in Dirs : DrawSeq(dir)
  \/ \E s \in Drawn : InsertMessage(s) \/ BroadcastMessage(s) \/ SendReply(s) \/ Reencrypt(s)
  \/ \E k \in 1 .. MaxKeys : EndConversation(k)
  \/ Joins \/ StartFails \/ Disconnect \/ Reload
  \/ Task \/ RenderFails
  \/ ShowIdentityChanged \/ ApproveIdentity \/ Approved
  \/ OtherTabDecrypts \/ OtherTabApproves \/ ClearHistory

Spec == Init /\ [][Next]_vars

\* Promises are settled: the page works off its queue and joins again.
FairSpec ==
  /\ Spec
  /\ WF_vars(Task \/ Joins \/ ShowIdentityChanged \/ Approved)

-----------------------------------------------------------------------------
(* Properties                                                              *)

TypeOK ==
  /\ msgs \in Seq([dir : Dirs, epoch : 1 .. MaxEpochs, key : 1 .. MaxKeys])
  /\ inserted \subseteq Drawn /\ sent \subseteq inserted
  /\ history \subseteq Drawn /\ removed \subseteq Drawn /\ outbox \subseteq Drawn \ Known
  /\ cursor \in [epoch : 0 .. lastEpoch, seq : 0 .. Len(msgs)]
  /\ {trusted, pending, banner} \subseteq 0 .. key
  /\ live \in {"off", "read", "live"}
  /\ stage \in {"none", "opening", "keys", "open", "closed"}
  /\ unavailable \subseteq shown /\ shown \subseteq entries /\ entries \subseteq inserted
  /\ run.todo \subseteq Drawn /\ run.page \subseteq Drawn

\* What the cursor has passed was decrypted: catch-up never asks for it again.
Covered ==
  \A s \in Stored(cursor.epoch) : In(s) /\ s <= cursor.seq => s \in Known

\* The cursor passes no message that was not decrypted, unless one of these happened: a
\* message overtook another on the server; one was broadcast between the read and the
\* subscription of mount, or so late that the page goes back to its epoch; a fetch failed,
\* or the catch-up went on after a message it could not decrypt; the page rejoined, or
\* rendered an entry before its catch-up was done; another tab decrypted past a gap.
CoveredUnlessMishap == mishap = "none" => Covered

\* On a page that has caught up, a message of the peer that the server has broadcast was
\* decrypted, here or in another tab, or its entry waits to be: between the catch-up, the
\* window of mount and the stream none is left out, unless one of those mishaps happened.
NothingMissed ==
  live = "live" /\ caught /\ mishap = "none" =>
    \A s \in Stored(epoch) \cap sent : In(s) => s \in Known \cup Unrendered

\* A message of this device is shown without its text only if its row was replaced by a
\* re-encryption or cleared, whether the reply of send or the stream entry acknowledges it.
OwnTextShown == \A s \in unavailable : msgs[s].dir = "out" => s \in removed

\* A page that holds messages back offers the user the way out.
BlockedCanApprove == blocked => banner # 0 \/ bannerDue

\* Every entry of the stream is rendered, unless the page waits for the user's approval, or
\* could not start or read an entry.
EntriesRendered ==
  (Unrendered # {}) ~> (Unrendered = {} \/ blocked \/ failed)

-----------------------------------------------------------------------------
(* What the documentation says and the code does not do                    *)

\* "Catches up with messages missed since the last visit, then renders the pending stream
\* entries" (chat.mjs:187): also when an update of the stream arrives during start.
CatchesUpFirst == mishap # "other" => Covered
=============================================================================
