---------------------------- MODULE LocalPrivacy ----------------------------
(***************************************************************************)
(* What a browser keeps and shows of one conversation for its user only:   *)
(* the local hint about the peer, and the screen lock of the chat.         *)
(*                                                                         *)
(* The record of the peer (name, hint, sessionEpoch and cursor) is in      *)
(* IndexedDB and has several writers: an encryption or decryption reads    *)
(* it, works, and writes it back with its own part changed; the hint       *)
(* editors of the chat and of the list of conversations, the chat's        *)
(* setPeerName, and sign-out update it in a transaction. All but a         *)
(* sign-out that has waited too long hold the keys lock.                   *)
(*                                                                         *)
(* The chat page runs its commands as tasks that are interleaved at their  *)
(* awaits. A task is the sequence of the steps that it has left.           *)
(***************************************************************************)
EXTENDS Integers, Sequences, FiniteSetsExt

CONSTANTS
  Entries,   \* messages of the chat, numbers in the order of the page
  Tasks,     \* bound: tasks of the chat page under way at once
  Hints, NoHint,
  Blank,     \* a text of which normalizeHint leaves nothing
  Epochs,    \* what a ratchet step writes: sessionEpoch and the cursor
  MaxLocks,  \* bound: :lock commands
  MaxSaves,  \* bound: uses of a hint editor
  MaxFaults  \* bound: failed accesses to IndexedDB

ASSUME PrivacyAssumption ==
  /\ Entries \subseteq Int /\ IsFiniteSet(Entries) /\ IsFiniteSet(Tasks)
  /\ NoHint \notin Hints /\ Blank \notin Hints \cup {NoHint}
  /\ "unlisted" \notin Hints \cup {NoHint}
  /\ MaxLocks \in Nat /\ MaxSaves \in Nat /\ MaxFaults \in Nat

VARIABLES
  meta,    \* the committed record of the peer: named, hint, epoch (the ratchet's part)
  staged,  \* the record as the ratchet step under way read it, or NotHeld
  signOut, \* no, waiting (for the keys lock), done
  lock,    \* this.lock: 0, or the number of the lock (its salt)
  text,    \* of each entry: pending, plain or hidden
  history, \* "Earlier on this device": none, plain or hidden
  shown,   \* the hint on each page; "unlisted" if the list does not have the peer
  task, todo, attempt, \* steps left; entries that an unlock will fill; the lock meant
  edit,    \* of each page: the hint editor's step and the value it saves
  locks, saves, faults, \* bounded counters
  wanted,  \* history: the record as its writers meant it
  raced,   \* history: a sign-out removed the hints while the keys lock was held
  stale,   \* history: pages that show, or are yet to show, a hint that others wrote over
  overtaken \* history: work on the chat's hint was under way when it was locked

store == <<meta, staged, signOut, wanted, raced>>
screen == <<lock, text, history, shown, stale, overtaken>>
work == <<task, todo, attempt, edit>>
bounds == <<locks, saves, faults>>
vars == <<store, screen, work, bounds>>

Pages == {"chat", "list"}
Unlisted == "unlisted"
NotHeld == [held |-> FALSE]
Held(m) == [held |-> TRUE, meta |-> m]
KeysLockFree == ~staged.held

\* updatePeerMeta: one transaction on the committed record
Update(field, value) ==
  /\ meta' = [meta EXCEPT ![field] = value]
  /\ wanted' = [wanted EXCEPT ![field] = value]

Fault == faults < MaxFaults /\ faults' = faults + 1

-----------------------------------------------------------------------------
(* The ratchet: encrypt and decryptMessage hold the keys lock throughout.  *)

RatchetRead ==
  /\ KeysLockFree
  /\ staged' = Held(meta)
  /\ UNCHANGED <<meta, signOut, wanted, raced, screen, work, bounds>>

\* sessionEpoch of an encryption, the cursor (and sessionEpoch) of a decryption
RatchetCommit ==
  /\ staged.held
  /\ \E e \in Epochs :
       /\ meta' = [staged.meta EXCEPT !.epoch = e]
       /\ wanted' = [wanted EXCEPT !.epoch = e]
  /\ staged' = NotHeld
  /\ UNCHANGED <<signOut, raced, screen, work, bounds>>

RatchetFails ==
  /\ staged.held
  /\ staged' = NotHeld
  /\ UNCHANGED <<meta, signOut, wanted, raced, screen, work, bounds>>

-----------------------------------------------------------------------------
(* Sign-out: clearHintsOnSignOut                                           *)

SignOut ==
  /\ signOut = "no"
  /\ signOut' = "waiting"
  /\ UNCHANGED <<meta, staged, wanted, raced, screen, work, bounds>>

RemoveHints ==
  /\ Update("hint", NoHint)
  /\ signOut' = "done"
  /\ stale' = Pages
  /\ UNCHANGED <<staged, lock, text, history, shown, overtaken, work, bounds>>

\* When the keys lock is granted, or after SIGN_OUT_LOCK_TIMEOUT_MS without it
ClearHints ==
  /\ signOut = "waiting"
  /\ RemoveHints
  /\ raced' = (raced \/ staged.held)

\* The listener follows the link all the same.
ClearFails ==
  /\ signOut = "waiting" /\ Fault
  /\ signOut' = "done"
  /\ UNCHANGED <<meta, staged, wanted, raced, screen, work, locks, saves>>

-----------------------------------------------------------------------------
(* Hint editors: editPeerHint of the chat, onEditHint of the list          *)

EditorOpen == edit["chat"].step = "open"   \* a modal dialog

EditHint(p) ==
  /\ edit[p].step = "idle" /\ saves < MaxSaves
  /\ saves' = saves + 1
  /\ IF p = "chat" THEN lock = 0 ELSE shown["list"] # Unlisted
  /\ edit' = [edit EXCEPT ![p].step = IF p = "chat" THEN "reading" ELSE "open"]
  /\ UNCHANGED <<store, screen, task, todo, attempt, locks, faults>>

OpenEditor ==
  /\ edit["chat"].step = "reading"
  /\ edit' = [edit EXCEPT !["chat"].step = "open"]
  /\ UNCHANGED <<store, screen, task, todo, attempt, bounds>>

\* Cancel, remove or save
CloseEditor(p) ==
  /\ edit[p].step = "open"
  /\ \/ edit' = [edit EXCEPT ![p].step = "idle"]
     \/ \E h \in Hints \cup {NoHint, Blank} :
          edit' = [edit EXCEPT ![p] = [step |-> "saving", hint |-> h]]
  /\ UNCHANGED <<store, screen, task, todo, attempt, bounds>>

\* As a bug would have it: the hint is written without the keys lock.
WritesAnyway == TRUE

MayWrite == KeysLockFree

\* As a bug would have it: a blank text is a hint.
AsTyped(hint) == hint

\* normalizeHint
Normalized(hint) == IF hint = Blank THEN NoHint ELSE hint

\* setPeerHint
SaveHint(p) ==
  /\ edit[p].step = "saving" /\ MayWrite
  /\ Update("hint", Normalized(edit[p].hint))
  /\ edit' = [edit EXCEPT ![p] = [step |-> "rendering", hint |-> Normalized(@.hint)]]
  /\ stale' = stale \cup (Pages \ {p})
  /\ UNCHANGED <<staged, signOut, raced, lock, text, history, shown, overtaken,
                 task, todo, attempt, bounds>>

RenderSaved ==
  /\ edit["chat"].step = "rendering"
  /\ shown' = [shown EXCEPT !["chat"] = edit["chat"].hint]
  /\ edit' = [edit EXCEPT !["chat"] = [step |-> "idle", hint |-> NoHint]]
  /\ UNCHANGED <<store, lock, text, history, stale, overtaken, task, todo, attempt, bounds>>

\* What renderConversations shows of the peer: listConversations needs a name.
Listed(record) == IF record.named THEN record.hint ELSE Unlisted

\* The list reads and renders all conversations again.
ListConversations ==
  /\ edit["list"].step = "rendering"
  /\ shown' = [shown EXCEPT !["list"] = Listed(meta)]
  /\ stale' = stale \ {"list"}
  /\ edit' = [edit EXCEPT !["list"] = [step |-> "idle", hint |-> NoHint]]
  /\ UNCHANGED <<store, lock, text, history, overtaken, task, todo, attempt, bounds>>

-----------------------------------------------------------------------------
(* The chat page                                                           *)

\* As a bug would have it: what was read before the lock is shown.
RenderedPlain == "plain"

\* fill and bubble look at the lock when they render, after every await.
Rendered == IF lock = 0 THEN "plain" ELSE "hidden"

\* renderEntries, one entry of the stream
RenderEntry(e) ==
  /\ text[e] = "pending"
  /\ text' = [text EXCEPT ![e] = Rendered]
  /\ UNCHANGED <<store, lock, history, shown, stale, overtaken, work, bounds>>

Run(i, steps) ==
  /\ task[i] = << >> /\ ~EditorOpen
  /\ task' = [task EXCEPT ![i] = steps]

\* As bugs would have it: the history stays masked, or the hint hidden.
UnlockForgetsHistory == <<"unlock", "fill", "name", "hint">>
UnlockForgetsHint == <<"unlock", "fill", "history", "name">>

UnlockSteps == <<"unlock", "fill", "history", "name", "hint">>

LockCommand(i) ==
  /\ lock = 0 /\ locks < MaxLocks
  /\ Run(i, <<"lock", "history">>)
  /\ locks' = locks + 1
  /\ attempt' = [attempt EXCEPT ![i] = locks + 1]
  /\ UNCHANGED <<store, screen, todo, edit, saves, faults>>

\* The password is that of the lock, or wrong.
UnlockCommand(i) ==
  /\ lock # 0
  /\ Run(i, UnlockSteps)
  /\ \E n \in {0, lock} : attempt' = [attempt EXCEPT ![i] = n]
  /\ UNCHANGED <<store, screen, todo, edit, bounds>>

Doing(i, step) == task[i] # << >> /\ Head(task[i]) = step
Done(i) == task' = [task EXCEPT ![i] = Tail(@)]
GiveUp(i) == task' = [task EXCEPT ![i] = << >>]

HintWork(i) ==
  edit["chat"].step # "idle" \/ \E j \in Tasks \ {i} : \E n \in DOMAIN task[j] : task[j][n] = "hint"

\* As a bug would have it: the hint stays.
LockKeepsHint == shown

LockHidesHint == [shown EXCEPT !["chat"] = NoHint]

\* lockMessages, when the password is hashed
Lock(i) ==
  /\ Doing(i, "lock") /\ Done(i)
  /\ lock' = attempt[i] /\ attempt' = [attempt EXCEPT ![i] = 0]
  /\ shown' = LockHidesHint
  /\ text' = [e \in Entries |-> IF text[e] = "pending" THEN "pending" ELSE "hidden"]
  /\ overtaken' = HintWork(i)
  /\ UNCHANGED <<store, history, stale, todo, edit, bounds>>

Locked == {e \in Entries : text[e] = "hidden"}

\* unlockMessages, when the password is hashed: another lock, none any more, or a wrong
\* password end it.
Unlock(i) ==
  /\ Doing(i, "unlock")
  /\ attempt' = [attempt EXCEPT ![i] = 0]
  /\ IF lock # 0 /\ lock = attempt[i]
     THEN lock' = 0 /\ Done(i) /\ todo' = [todo EXCEPT ![i] = Locked]
     ELSE GiveUp(i) /\ UNCHANGED <<lock, todo>>
  /\ UNCHANGED <<store, text, history, shown, stale, overtaken, edit, bounds>>

Fill(i) ==
  /\ Doing(i, "fill") /\ todo[i] # {}
  /\ LET e == Min(todo[i]) IN
       /\ text' = [text EXCEPT ![e] = Rendered]
       /\ todo' = [todo EXCEPT ![i] = @ \ {e}]
  /\ IF todo'[i] = {} THEN Done(i) ELSE UNCHANGED task
  /\ UNCHANGED <<store, lock, history, shown, stale, overtaken, attempt, edit, bounds>>

FillNothing(i) ==
  /\ Doing(i, "fill") /\ todo[i] = {} /\ Done(i)
  /\ UNCHANGED <<store, screen, todo, attempt, edit, bounds>>

\* renderLocalHistory
RenderHistory(i) ==
  /\ Doing(i, "history") /\ Done(i)
  /\ history' = Rendered
  /\ UNCHANGED <<store, lock, text, shown, stale, overtaken, todo, attempt, edit, bounds>>

\* The history cannot be read: runCommand reports it and the command ends.
ReadFails(i) ==
  /\ Doing(i, "history") \/ Doing(i, "fill")
  /\ Fault /\ GiveUp(i)
  /\ todo' = [todo EXCEPT ![i] = {}]
  /\ UNCHANGED <<store, screen, attempt, edit, locks, saves>>

\* loadPeerMeta: setPeerName
Name(i) ==
  /\ Doing(i, "name") /\ KeysLockFree /\ Done(i)
  /\ Update("named", TRUE)
  /\ stale' = IF meta.named THEN stale ELSE stale \cup {"list"}
  /\ UNCHANGED <<staged, signOut, raced, lock, text, history, shown, overtaken, todo, attempt,
                 edit, bounds>>

ShowHint(i) ==
  /\ Doing(i, "hint") /\ Done(i)
  /\ shown' = [shown EXCEPT !["chat"] = meta.hint]
  /\ stale' = IF edit["chat"].step = "rendering" THEN stale ELSE stale \ {"chat"}
  /\ UNCHANGED <<store, lock, text, history, overtaken, todo, attempt, edit, bounds>>

\* loadPeerMeta fails: what comes after it in start goes on.
LoadFails(i) ==
  /\ Doing(i, "name") /\ Fault
  /\ task' = [task EXCEPT ![i] = SubSeq(@, 3, Len(@))]
  /\ UNCHANGED <<store, screen, todo, attempt, edit, locks, saves>>

-----------------------------------------------------------------------------
\* start: the chat is mounted, the list was opened before. A first visit has not named the
\* peer; one whose setPeerName failed may have left a hint without a name.
Init ==
  /\ \E h \in Hints \cup {NoHint}, n \in BOOLEAN, e \in Epochs :
       /\ meta = [named |-> n, hint |-> h, epoch |-> e] /\ wanted = meta
       /\ shown = [p \in Pages |-> IF p = "list" THEN Listed(meta) ELSE NoHint]
  /\ staged = NotHeld /\ signOut = "no" /\ raced = FALSE
  /\ lock = 0 /\ text = [e \in Entries |-> "pending"] /\ history = "none"
  /\ stale = {"chat"} /\ overtaken = FALSE
  /\ \E i \in Tasks :
       task = [j \in Tasks |-> IF j = i THEN <<"name", "hint", "history">> ELSE << >>]
  /\ todo = [i \in Tasks |-> {}] /\ attempt = [i \in Tasks |-> 0]
  /\ edit = [p \in Pages |-> [step |-> "idle", hint |-> NoHint]]
  /\ locks = 0 /\ saves = 0 /\ faults = 0

Next ==
  \/ RatchetRead \/ RatchetCommit \/ RatchetFails
  \/ SignOut \/ ClearHints \/ ClearFails \/ OpenEditor
  \/ \E p \in Pages : EditHint(p) \/ CloseEditor(p) \/ SaveHint(p)
  \/ RenderSaved \/ ListConversations
  \/ \E e \in Entries : RenderEntry(e)
  \/ \E i \in Tasks :
       \/ LockCommand(i) \/ UnlockCommand(i) \/ Lock(i) \/ Unlock(i) \/ Fill(i) \/ FillNothing(i)
       \/ RenderHistory(i) \/ ReadFails(i) \/ Name(i) \/ ShowHint(i) \/ LoadFails(i)

Spec == Init /\ [][Next]_vars

-----------------------------------------------------------------------------
(* Properties                                                              *)

Steps == {"name", "hint", "history", "lock", "unlock", "fill"}
MetaRecord == [named : BOOLEAN, hint : Hints \cup {NoHint}, epoch : Epochs]

TypeOK ==
  /\ meta \in MetaRecord /\ wanted \in MetaRecord
  /\ staged \in {NotHeld} \cup {Held(m) : m \in MetaRecord}
  /\ signOut \in {"no", "waiting", "done"} /\ raced \in BOOLEAN
  /\ lock \in 0 .. locks /\ history \in {"none", "plain", "hidden"}
  /\ text \in [Entries -> {"pending", "plain", "hidden"}]
  /\ shown \in [Pages -> Hints \cup {NoHint, Unlisted}]
  /\ stale \subseteq Pages /\ overtaken \in BOOLEAN
  /\ \A i \in Tasks :
       /\ task[i] \in Seq(Steps) /\ attempt[i] \in 0 .. locks
       /\ todo[i] # {} => Doing(i, "fill") /\ todo[i] \subseteq Entries
  /\ \A p \in Pages :
       /\ edit[p].step \in {"idle", "reading", "open", "saving", "rendering"}
       /\ edit[p].hint \in Hints \cup {NoHint, Blank}
  /\ locks \in 0 .. MaxLocks /\ saves \in 0 .. MaxSaves /\ faults \in 0 .. MaxFaults

Idle == \A i \in Tasks : task[i] = << >>

\* ":lock replaces the rendered plaintext, masks new messages": while the screen is locked
\* no message is readable, although entries are rendered, an unlock is filling them and the
\* history is read meanwhile. The history of this device is masked when the command ends.
MessagesHidden ==
  lock # 0 =>
    /\ \A e \in Entries : text[e] # "plain"
    /\ Idle /\ faults = 0 => history # "plain"

\* When the screen is unlocked and every command has ended, no message is left masked:
\* an unlock that another lock overtook does not leave entries that no unlock will fill.
\* A failed access to IndexedDB (faults) ends its command where it is: what an unlock had not
\* rendered then stays masked until the next one.
UnlockedIsReadable ==
  lock = 0 /\ Idle /\ faults = 0 =>
    history # "hidden" /\ \A e \in Entries : text[e] # "hidden"

\* ":lock hides the local hint", unless work on it was under way when the screen was locked.
HintHidden == lock # 0 /\ ~overtaken => shown["chat"] = NoHint

\* A page that is at rest shows the hint that is stored, in the list if the peer has a name
\* there, unless another page or a sign-out wrote it since: an edit, a lock, an unlock and the
\* load at the start, in any order.
Displays(p) == IF p = "chat" \/ meta.named THEN meta.hint ELSE Unlisted

ShownIsStored ==
  ~raced => \A p \in Pages \ stale :
    edit[p].step = "idle" /\ (p = "chat" => lock = 0 /\ Idle /\ faults = 0)
      => shown[p] = Displays(p)

\* No writer of the record undoes what another wrote: no update undoes the epoch or cursor of
\* a ratchet step or the name, and a ratchet step that read the record before does not bring
\* back a hint that was changed or removed, unless a sign-out did not wait for the keys lock.
NothingOverwritten ==
  /\ meta.epoch = wanted.epoch /\ meta.named = wanted.named
  /\ ~raced => meta.hint = wanted.hint
=============================================================================
