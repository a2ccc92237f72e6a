------------------------------ MODULE ChatStore ------------------------------
(***************************************************************************)
(* Privee.Chats: the node-local store of encrypted messages, as plain      *)
(* functions that run in the caller's process over three public ETS tables.*)
(* There is no lock and no server process: what makes the store correct is *)
(* the order of single-object ETS operations (insert_new, compare-and-swap *)
(* by select_replace, delete_object of an exact row) and the re-check at   *)
(* the end of insert_claimed.  One action is therefore one ETS operation   *)
(* of one caller, together with the local computation that follows it up   *)
(* to the next one.                                                        *)
(*                                                                         *)
(* The model follows one conversation (conv_key): the rows of two          *)
(* conversations never meet, except through a nonce, and a nonce is drawn  *)
(* at random for one message.  A message is its nonce: bodies are opaque   *)
(* to the store.  Epochs (fresh UUIDs) and sequence numbers (a monotonic   *)
(* node-wide counter) are numbers; epoch 0 is Elixir's nil.                *)
(***************************************************************************)
EXTENDS Integers, FiniteSets

CONSTANTS
  Procs,        \* processes that serve calls: chat LiveViews and channels
  Mortal,       \* the ones that may die in the middle of a call
  Nonces,       \* client nonces, one for each message a client encrypts
  None,         \* no process, no nonce
  TTL,          \* ttl_ms
  MaxAge,       \* max_age_ms
  MaxMessages,  \* max_messages
  MaxRetries,   \* @max_retries
  Sweeps,       \* the owner sweeps: its interval is not :infinity
  MaxClock,     \* bound: the clock stops there
  MaxResets,    \* bound: number of calls of end_conversations
  MaxCrashes    \* bound: number of times the table owner dies

ASSUME ConstantsAssumption ==
  /\ Mortal \subseteq Procs
  /\ None \notin Procs \cup Nonces
  /\ IsFiniteSet(Procs)
  /\ TTL \in Nat /\ MaxAge \in Nat /\ MaxRetries \in Nat
  /\ MaxClock \in Nat /\ MaxResets \in Nat /\ MaxCrashes \in Nat
  /\ MaxMessages \in Nat \ {0}
  /\ Sweeps \in BOOLEAN

VARIABLES
  conv,      \* :chat_conversations, the row of the conversation
  msgs,      \* :chat_messages, its keys {epoch, seq} and the message there
  nonces,    \* :chat_nonces, the claim on each nonce
  up,        \* the tables exist: Privee.Chats.TableOwner is running
  clock,     \* System.system_time
  lastEpoch, \* epochs 1 .. lastEpoch have been generated
  lastSeq,   \* System.unique_integer
  alive,     \* Process.alive?
  pc,        \* the next ETS operation of each process
  call,      \* the function each process is in, and its arguments
  tries,     \* the retries it has left
  row,       \* the conversation row it read
  claim,     \* the nonce row it read or wrote
  reply,     \* what the last call of each process returned
  sweepStep, \* the next operation of the sweep
  sweepRow, sweepEpochs, sweepClaims,  \* and what it read
  bound,     \* the epoch each nonce was encrypted for, by its client
  resets,    \* calls of end_conversations started
  crashes,   \* deaths of the table owner
  wiped      \* history: epochs whose messages end_conversations deleted

tables  == <<conv, msgs, nonces>>
ids     == <<lastEpoch, lastSeq>>
world   == <<up, clock, alive, bound, resets, crashes>>
locals  == <<call, tries, row, claim>>
sweep   == <<sweepStep, sweepRow, sweepEpochs, sweepClaims>>
vars    == <<tables, ids, world, wiped, pc, locals, reply, sweep>>

-----------------------------------------------------------------------------
(* Rows                                                                    *)

NoEpoch == 0
NoConv  == [epoch |-> NoEpoch, created |-> 0, last |-> 0, count |-> 0]
NoClaim == [state |-> "none", epoch |-> NoEpoch, seq |-> 0, owner |-> None]

NewConv(e, now) == [epoch |-> e, created |-> now, last |-> now, count |-> 0]
NewClaim(p, e)  == [state |-> "pending", epoch |-> e, seq |-> lastSeq + 1, owner |-> p]

ConvRows  == [epoch : Nat, created : Nat, last : Nat, count : Nat]
ClaimRows == [state : {"none", "pending", "committed"}, epoch : Nat, seq : Nat,
              owner : Procs \cup {None}]
Messages  == [epoch : Nat, seq : Nat, nonce : Nonces]

\* expired?/3
Expired(r, now) ==
  \/ now - r.last > TTL
  \/ now - r.created > MaxAge
  \/ r.count >= MaxMessages

\* find_message/3
Stored(e, s) == \E m \in msgs : m.epoch = e /\ m.seq = s

OfEpoch(e) == {m \in msgs : m.epoch = e}

\* The messages a reader of the conversation is shown.
Visible == IF conv = NoConv THEN {} ELSE OfEpoch(conv.epoch)

-----------------------------------------------------------------------------
(* Control of a process                                                    *)

Ops == {"open", "create", "end"}

Steps == {"idle", "lookup", "open_new", "rotate",
          "claim", "lookup_nonce", "find", "drop_claim", "mark_committed", "reclaim",
          "insert", "touch_lookup", "touch_last", "touch_count", "commit", "recheck",
          "undo_message", "undo_nonce",
          "end_conv", "end_messages"}

NoCall == [op |-> "open", nonce |-> None, epoch |-> NoEpoch, now |-> 0]
Calls  == [op : Ops, nonce : Nonces \cup {None}, epoch : Nat, now : Nat]

Kinds   == {"none", "epoch", "ok", "duplicate", "stale_epoch", "in_flight", "unavailable", "done"}
NoReply == [kind |-> "none", nonce |-> None, epoch |-> NoEpoch, seq |-> 0]
Replies == [kind : Kinds, nonce : Nonces \cup {None}, epoch : Nat, seq : Nat]

\* p is alive, its next operation is s and the tables are there: an operation on
\* a missing table raises, which is Abort.
At(p, s) == p \in alive /\ up /\ pc[p] = s

Goto(p, s) == pc' = [pc EXCEPT ![p] = s] /\ UNCHANGED reply

Locals(p, c, t, r, k) ==
  /\ call' = [call EXCEPT ![p] = c]
  /\ tries' = [tries EXCEPT ![p] = t]
  /\ row' = [row EXCEPT ![p] = r]
  /\ claim' = [claim EXCEPT ![p] = k]

\* The call returns: the locals are gone, the reply is with the caller.
Return(p, kind, e, s) ==
  /\ pc' = [pc EXCEPT ![p] = "idle"]
  /\ reply' = [reply EXCEPT ![p] = [kind |-> kind, nonce |-> call[p].nonce,
                                    epoch |-> e, seq |-> s]]
  /\ Locals(p, NoCall, 0, NoConv, NoClaim)

\* What follows do_open: open_conversation returns the epoch; create_message goes
\* on to claim_and_insert when it is the epoch the message was encrypted for.
Opened(p, e) ==
  \/ /\ call[p].op = "open"
     /\ Return(p, "epoch", e, 0)
  \/ /\ call[p].op = "create" /\ call[p].epoch # e
     /\ Return(p, "stale_epoch", e, 0)
  \/ /\ call[p].op = "create" /\ call[p].epoch = e
     /\ Goto(p, "claim")
     /\ Locals(p, call[p], MaxRetries, NoConv, NoClaim)

\* do_open(key, now, retries - 1)
OpenAgain(p) == Goto(p, "lookup") /\ Locals(p, call[p], tries[p] - 1, NoConv, NoClaim)

\* claim_and_insert(..., retries - 1)
ClaimAgain(p) ==
  \/ /\ tries[p] = 0
     /\ Return(p, "in_flight", NoEpoch, 0)
  \/ /\ tries[p] > 0
     /\ Goto(p, "claim")
     /\ Locals(p, call[p], tries[p] - 1, NoConv, NoClaim)

-----------------------------------------------------------------------------
(* Calls                                                                   *)

Call(p, op, n, e) ==
  /\ p \in alive /\ up /\ pc[p] = "idle"
  /\ pc' = [pc EXCEPT ![p] = "lookup"]
  /\ Locals(p, [op |-> op, nonce |-> n, epoch |-> e, now |-> clock], MaxRetries, NoConv, NoClaim)
  /\ reply' = [reply EXCEPT ![p] = NoReply]
  /\ UNCHANGED <<tables, ids, wiped, sweep>>

OpenConversation(p) ==
  /\ Call(p, "open", None, NoEpoch)
  /\ UNCHANGED world

\* A client sends a nonce for the one epoch it encrypted the message for, as often
\* as it likes and over any connection; a message it re-encrypts gets a new nonce.
CreateMessage(p, n) ==
  \E e \in 1 .. lastEpoch :
    /\ bound[n] \in {NoEpoch, e}
    /\ Call(p, "create", n, e)
    /\ bound' = [bound EXCEPT ![n] = e]
    /\ UNCHANGED <<up, clock, alive, resets, crashes>>

\* available?/0 is false: the call returns before it touches a table.
Unavailable(p) ==
  /\ p \in alive /\ ~up /\ pc[p] = "idle"
  /\ reply' = [reply EXCEPT ![p] = [NoReply EXCEPT !.kind = "unavailable"]]
  /\ UNCHANGED <<tables, ids, world, wiped, pc, locals, sweep>>

\* end_conversations selects the rows of the session: here at most one.
EndConversations(p) ==
  /\ resets < MaxResets
  /\ p \in alive /\ up /\ pc[p] = "idle"
  /\ \/ /\ conv = NoConv
        /\ reply' = [reply EXCEPT ![p] = [NoReply EXCEPT !.kind = "done"]]
        /\ UNCHANGED <<pc, locals>>
     \/ /\ conv # NoConv
        /\ reply' = [reply EXCEPT ![p] = NoReply]
        /\ pc' = [pc EXCEPT ![p] = "end_conv"]
        /\ Locals(p, [NoCall EXCEPT !.op = "end"], 0, conv, NoClaim)
  /\ resets' = resets + 1
  /\ UNCHANGED <<tables, ids, wiped, sweep, up, clock, alive, bound, crashes>>

-----------------------------------------------------------------------------
(* do_open: the current epoch, created or rotated                          *)

\* Mutant: rotates whatever number of retries is left.
RotatesAlways(p) == Expired(conv, call[p].now)

MustRotate(p) == Expired(conv, call[p].now) /\ tries[p] > 0

Lookup(p) ==
  /\ At(p, "lookup")
  /\ \/ /\ conv = NoConv
        /\ Goto(p, "open_new")
        /\ UNCHANGED locals
     \/ /\ conv # NoConv /\ MustRotate(p)
        /\ Goto(p, "rotate")
        /\ Locals(p, call[p], tries[p], conv, NoClaim)
     \/ /\ conv # NoConv /\ ~MustRotate(p)
        /\ Opened(p, conv.epoch)
  /\ UNCHANGED <<tables, ids, world, wiped, sweep>>

\* insert_new; when it fails with no retry left, the caller is given the epoch it
\* generated although no row has it.
OpenNew(p) ==
  /\ At(p, "open_new")
  /\ \/ /\ conv = NoConv \/ tries[p] = 0
        /\ conv' = IF conv = NoConv THEN NewConv(lastEpoch + 1, call[p].now) ELSE conv
        /\ lastEpoch' = lastEpoch + 1
        /\ Opened(p, lastEpoch + 1)
     \/ /\ conv # NoConv /\ tries[p] > 0
        /\ OpenAgain(p)
        /\ UNCHANGED <<conv, lastEpoch>>
  /\ UNCHANGED <<msgs, nonces, lastSeq, world, wiped, sweep>>

\* select_replace of the exact row that was found expired.
Rotate(p) ==
  /\ At(p, "rotate")
  /\ \/ /\ conv = row[p]
        /\ conv' = NewConv(lastEpoch + 1, call[p].now)
        /\ lastEpoch' = lastEpoch + 1
        /\ Opened(p, lastEpoch + 1)
     \/ /\ conv # row[p]
        /\ OpenAgain(p)
        /\ UNCHANGED <<conv, lastEpoch>>
  /\ UNCHANGED <<msgs, nonces, lastSeq, world, wiped, sweep>>

-----------------------------------------------------------------------------
(* claim_and_insert: at most one process stores the message of a nonce     *)

\* insert_new on :chat_nonces
Claim(p) ==
  LET n == call[p].nonce
      c == NewClaim(p, call[p].epoch)
  IN /\ At(p, "claim")
     /\ \/ /\ nonces[n] = NoClaim
           /\ nonces' = [nonces EXCEPT ![n] = c]
           /\ lastSeq' = lastSeq + 1
           /\ Locals(p, call[p], 0, NoConv, c)
           /\ Goto(p, "insert")
        \/ /\ nonces[n] # NoClaim
           /\ Goto(p, "lookup_nonce")
           /\ UNCHANGED <<nonces, lastSeq, locals>>
     /\ UNCHANGED <<conv, msgs, lastEpoch, world, wiped, sweep>>

LookupNonce(p) ==
  LET n == call[p].nonce
  IN /\ At(p, "lookup_nonce")
     /\ \/ /\ nonces[n] = NoClaim
           /\ ClaimAgain(p)
        \/ /\ nonces[n] # NoClaim
           /\ Locals(p, call[p], tries[p], NoConv, nonces[n])
           /\ Goto(p, "find")
     /\ UNCHANGED <<tables, ids, world, wiped, sweep>>

\* Mutant: the claim is taken for the message.
FindTrustsClaim(p) ==
  LET c == claim[p]
  IN /\ At(p, "find")
     /\ Return(p, "duplicate", c.epoch, c.seq)
     /\ UNCHANGED <<tables, ids, world, wiped, sweep>>

\* resolve_existing: find_message for the claim that was looked up, and the branch
\* it leads to.  The message is searched before resolve_pending asks whether the
\* owner is alive.
Find(p) ==
  LET c == claim[p]
      found == Stored(c.epoch, c.seq)
  IN /\ At(p, "find")
     /\ \/ /\ c.state = "committed" /\ found
           /\ Return(p, "duplicate", c.epoch, c.seq)
        \/ /\ c.state = "committed" /\ ~found
           /\ Goto(p, "drop_claim") /\ UNCHANGED locals
        \/ /\ c.state = "pending" /\ found
           /\ Goto(p, "mark_committed") /\ UNCHANGED locals
        \/ /\ c.state = "pending" /\ ~found
           /\ Goto(p, "reclaim") /\ UNCHANGED locals
     /\ UNCHANGED <<tables, ids, world, wiped, sweep>>

\* delete_object of a committed claim without its message
DropClaim(p) ==
  LET n == call[p].nonce
  IN /\ At(p, "drop_claim")
     /\ nonces' = IF nonces[n] = claim[p] THEN [nonces EXCEPT ![n] = NoClaim] ELSE nonces
     /\ ClaimAgain(p)
     /\ UNCHANGED <<conv, msgs, ids, world, wiped, sweep>>

\* Mutant: the comparison with self() is the wrong way round.
OwnerIsSelf(p) == claim[p].owner = p

\* resolve_pending.  A dead process stays dead, so asking Process.alive? and the
\* select_replace after it are one step.
OwnerAlive(p) == claim[p].owner # p /\ claim[p].owner \in alive

ResolveInFlight(p) ==
  /\ At(p, "mark_committed") \/ At(p, "reclaim")
  /\ OwnerAlive(p)
  /\ Return(p, "in_flight", NoEpoch, 0)
  /\ UNCHANGED <<tables, ids, world, wiped, sweep>>

MarkCommitted(p) ==
  LET n == call[p].nonce
      c == claim[p]
  IN /\ At(p, "mark_committed") /\ ~OwnerAlive(p)
     /\ nonces' = IF nonces[n] = c THEN [nonces EXCEPT ![n].state = "committed"] ELSE nonces
     /\ Return(p, "duplicate", c.epoch, c.seq)
     /\ UNCHANGED <<conv, msgs, ids, world, wiped, sweep>>

Reclaim(p) ==
  LET n == call[p].nonce
      c == NewClaim(p, call[p].epoch)
  IN /\ At(p, "reclaim") /\ ~OwnerAlive(p)
     /\ \/ /\ nonces[n] = claim[p]
           /\ nonces' = [nonces EXCEPT ![n] = c]
           /\ lastSeq' = lastSeq + 1
           /\ Locals(p, call[p], 0, NoConv, c)
           /\ Goto(p, "insert")
        \/ /\ nonces[n] # claim[p]
           /\ ClaimAgain(p)
           /\ UNCHANGED <<nonces, lastSeq>>
     /\ UNCHANGED <<conv, msgs, lastEpoch, world, wiped, sweep>>

-----------------------------------------------------------------------------
(* insert_claimed: store, count, commit, and take it back if the epoch ended*)

Insert(p) ==
  LET c == claim[p]
  IN /\ At(p, "insert")
     /\ msgs' = msgs \cup {[epoch |-> c.epoch, seq |-> c.seq, nonce |-> call[p].nonce]}
     /\ Goto(p, "touch_lookup")
     /\ UNCHANGED <<conv, nonces, ids, world, wiped, locals, sweep>>

TouchLookup(p) ==
  /\ At(p, "touch_lookup")
  /\ Goto(p, IF conv.epoch = call[p].epoch THEN "touch_last" ELSE "commit")
  /\ UNCHANGED <<tables, ids, world, wiped, locals, sweep>>

\* Mutant: the count is written as the call knew it, plus one.
CountWritten(p) ==
  /\ At(p, "touch_count")
  /\ conv' = IF conv = NoConv THEN conv ELSE [conv EXCEPT !.count = row[p].count + 1]
  /\ Goto(p, "commit")
  /\ UNCHANGED <<msgs, nonces, ids, world, wiped, locals, sweep>>

\* update_element and update_counter act on the row of the moment, whatever its
\* epoch; on no row the first does nothing and the second raises, which is rescued.
TouchLast(p) ==
  /\ At(p, "touch_last")
  /\ conv' = IF conv = NoConv THEN conv ELSE [conv EXCEPT !.last = call[p].now]
  /\ Goto(p, "touch_count")
  /\ UNCHANGED <<msgs, nonces, ids, world, wiped, locals, sweep>>

TouchCount(p) ==
  /\ At(p, "touch_count")
  /\ conv' = IF conv = NoConv THEN conv ELSE [conv EXCEPT !.count = @ + 1]
  /\ Goto(p, "commit")
  /\ UNCHANGED <<msgs, nonces, ids, world, wiped, locals, sweep>>

\* Mutant: no commit mark.
CommitForgotten(p) ==
  /\ At(p, "commit")
  /\ Goto(p, "recheck")
  /\ UNCHANGED <<tables, ids, world, wiped, locals, sweep>>

\* update_element on the nonce, whoever holds the claim by now.
Commit(p) ==
  LET n == call[p].nonce
  IN /\ At(p, "commit")
     /\ nonces' = IF nonces[n] = NoClaim THEN nonces
                  ELSE [nonces EXCEPT ![n].state = "committed"]
     /\ Goto(p, "recheck")
     /\ UNCHANGED <<conv, msgs, ids, world, wiped, locals, sweep>>

Recheck(p) ==
  LET c == claim[p]
  IN /\ At(p, "recheck")
     /\ \/ /\ conv.epoch = c.epoch
           /\ Return(p, "ok", c.epoch, c.seq)
        \/ /\ conv.epoch # c.epoch
           /\ Locals(p, call[p], tries[p], conv, claim[p])
           /\ Goto(p, "undo_message")
     /\ UNCHANGED <<tables, ids, world, wiped, sweep>>

UndoMessage(p) ==
  LET c == claim[p]
  IN /\ At(p, "undo_message")
     /\ msgs' = {m \in msgs : ~(m.epoch = c.epoch /\ m.seq = c.seq)}
     /\ Goto(p, "undo_nonce")
     /\ UNCHANGED <<conv, nonces, ids, world, wiped, locals, sweep>>

UndoNonce(p) ==
  /\ At(p, "undo_nonce")
  /\ nonces' = [nonces EXCEPT ![call[p].nonce] = NoClaim]
  /\ Return(p, "stale_epoch", row[p].epoch, 0)
  /\ UNCHANGED <<conv, msgs, ids, world, wiped, sweep>>

-----------------------------------------------------------------------------
(* end_conversations                                                       *)

\* delete_object: only if the row is still the one that was selected.
EndConv(p) ==
  /\ At(p, "end_conv")
  /\ conv' = IF conv = row[p] THEN NoConv ELSE conv
  /\ Goto(p, "end_messages")
  /\ UNCHANGED <<msgs, nonces, ids, world, wiped, locals, sweep>>

EndMessages(p) ==
  LET e == row[p].epoch
  IN /\ At(p, "end_messages")
     /\ msgs' = msgs \ OfEpoch(e)
     /\ wiped' = wiped \cup {e}
     /\ Return(p, "done", NoEpoch, 0)
     /\ UNCHANGED <<conv, nonces, ids, world, sweep>>

-----------------------------------------------------------------------------
(* sweep, run by the table owner every minute                              *)

SweepSteps == {"idle", "drop_conv", "scan", "filter", "drop_orphans", "scan_claims", "claims"}

Sweeping(s) == up /\ sweepStep = s

SweepOn(s, r, es, cs) == sweepStep' = s /\ sweepRow' = r /\ sweepEpochs' = es /\ sweepClaims' = cs

NoClaims == [n \in Nonces |-> NoClaim]

\* tab2list of the conversations, filtered by expired?
SweepStart ==
  /\ Sweeps /\ Sweeping("idle")
  /\ IF conv # NoConv /\ Expired(conv, clock)
       THEN SweepOn("drop_conv", conv, {}, NoClaims)
       ELSE SweepOn("scan", NoConv, {}, NoClaims)
  /\ UNCHANGED <<tables, ids, world, wiped, pc, locals, reply>>

SweepConv ==
  /\ Sweeping("drop_conv")
  /\ conv' = IF conv = sweepRow THEN NoConv ELSE conv
  /\ SweepOn("scan", NoConv, {}, NoClaims)
  /\ UNCHANGED <<msgs, nonces, ids, world, wiped, pc, locals, reply>>

\* The epochs that have messages ...
SweepScan ==
  /\ Sweeping("scan")
  /\ SweepOn("filter", NoConv, {m.epoch : m \in msgs}, NoClaims)
  /\ UNCHANGED <<tables, ids, world, wiped, pc, locals, reply>>

\* Mutant: the current epoch is swept, too.
FiltersNothing ==
  /\ Sweeping("filter")
  /\ SweepOn("drop_orphans", NoConv, sweepEpochs, NoClaims)
  /\ UNCHANGED <<tables, ids, world, wiped, pc, locals, reply>>

\* Mutant: without a conversation row an epoch is not taken for over.
FiltersMissing ==
  /\ Sweeping("filter")
  /\ SweepOn("drop_orphans", NoConv,
             IF conv = NoConv THEN {} ELSE sweepEpochs \ {conv.epoch}, NoClaims)
  /\ UNCHANGED <<tables, ids, world, wiped, pc, locals, reply>>

\* ... but for the current one.  An epoch that is not current never is again, so the
\* lookups for the epochs are one step.
SweepFilter ==
  /\ Sweeping("filter")
  /\ SweepOn("drop_orphans", NoConv, sweepEpochs \ {conv.epoch}, NoClaims)
  /\ UNCHANGED <<tables, ids, world, wiped, pc, locals, reply>>

SweepOrphans ==
  /\ Sweeping("drop_orphans")
  /\ \/ \E e \in sweepEpochs :
          /\ msgs' = msgs \ OfEpoch(e)
          /\ SweepOn("drop_orphans", NoConv, sweepEpochs \ {e}, NoClaims)
     \/ /\ sweepEpochs = {}
        /\ SweepOn("scan_claims", NoConv, {}, NoClaims)
        /\ UNCHANGED msgs
  /\ UNCHANGED <<conv, nonces, ids, world, wiped, pc, locals, reply>>

SweepScanClaims ==
  /\ Sweeping("scan_claims")
  /\ SweepOn("claims", NoConv, {}, nonces)
  /\ UNCHANGED <<tables, ids, world, wiped, pc, locals, reply>>

\* Mutant: the sweep leaves the claims of the current epoch alone.
SweptIfOver(c) == IF conv.epoch # c.epoch THEN NoClaim ELSE c

\* sweep_nonce: what becomes of the claim c on n, as long as it is still there.  That
\* an epoch is over, that an owner is dead and that a dead owner stored nothing do
\* not change any more, so the lookups and the write are one step.
Swept(c) ==
  IF conv.epoch # c.epoch THEN NoClaim
  ELSE IF c.state = "pending" /\ c.owner \notin alive
    THEN IF Stored(c.epoch, c.seq) THEN [c EXCEPT !.state = "committed"] ELSE NoClaim
    ELSE c

SweepNonce ==
  /\ Sweeping("claims")
  /\ \/ \E n \in Nonces :
          /\ sweepClaims[n] # NoClaim
          /\ nonces' = IF nonces[n] = sweepClaims[n]
                       THEN [nonces EXCEPT ![n] = Swept(sweepClaims[n])] ELSE nonces
          /\ SweepOn("claims", NoConv, {}, [sweepClaims EXCEPT ![n] = NoClaim])
     \/ /\ \A n \in Nonces : sweepClaims[n] = NoClaim
        /\ SweepOn("idle", NoConv, {}, NoClaims)
        /\ UNCHANGED nonces
  /\ UNCHANGED <<conv, msgs, ids, world, wiped, pc, locals, reply>>

-----------------------------------------------------------------------------
(* Time, deaths                                                            *)

Tick ==
  /\ clock < MaxClock
  /\ clock' = clock + 1
  /\ UNCHANGED <<tables, ids, wiped, pc, locals, reply, sweep, up, alive, bound, resets, crashes>>

\* The process of a LiveView or channel is gone: its socket closed, or it raised.
Die(p) ==
  /\ alive' = alive \ {p}
  /\ pc' = [pc EXCEPT ![p] = "idle"]
  /\ Locals(p, NoCall, 0, NoConv, NoClaim)
  /\ reply' = [reply EXCEPT ![p] = NoReply]
  /\ UNCHANGED <<tables, ids, wiped, sweep, up, clock, bound, resets, crashes>>

Exit(p)  == p \in Mortal \cap alive /\ pc[p] # "idle" /\ Die(p)
Abort(p) == p \in alive /\ ~up /\ pc[p] # "idle" /\ Die(p)

\* The owner dies and its tables with it; its supervisor starts it again.
OwnerDown ==
  /\ up /\ crashes < MaxCrashes
  /\ up' = FALSE
  /\ crashes' = crashes + 1
  /\ conv' = NoConv
  /\ msgs' = {}
  /\ nonces' = NoClaims
  /\ SweepOn("idle", NoConv, {}, NoClaims)
  /\ UNCHANGED <<ids, wiped, pc, locals, reply, clock, alive, bound, resets>>

OwnerUp ==
  /\ ~up
  /\ up' = TRUE
  /\ UNCHANGED <<tables, ids, wiped, pc, locals, reply, sweep, clock, alive, bound, resets, crashes>>

-----------------------------------------------------------------------------
Init ==
  /\ conv = NoConv
  /\ msgs = {}
  /\ nonces = NoClaims
  /\ up = TRUE
  /\ clock = 0
  /\ lastEpoch = 0
  /\ lastSeq = 0
  /\ alive = Procs
  /\ pc = [p \in Procs |-> "idle"]
  /\ call = [p \in Procs |-> NoCall]
  /\ tries = [p \in Procs |-> 0]
  /\ row = [p \in Procs |-> NoConv]
  /\ claim = [p \in Procs |-> NoClaim]
  /\ reply = [p \in Procs |-> NoReply]
  /\ sweepStep = "idle" /\ sweepRow = NoConv /\ sweepEpochs = {} /\ sweepClaims = NoClaims
  /\ bound = [n \in Nonces |-> NoEpoch]
  /\ resets = 0
  /\ crashes = 0
  /\ wiped = {}

Begin(p) ==
  \/ OpenConversation(p)
  \/ \E n \in Nonces : CreateMessage(p, n)
  \/ Unavailable(p)
  \/ EndConversations(p)

\* The next step of a call under way
Step(p) ==
  \/ Lookup(p) \/ OpenNew(p) \/ Rotate(p)
  \/ Claim(p) \/ LookupNonce(p) \/ Find(p) \/ DropClaim(p)
  \/ ResolveInFlight(p) \/ MarkCommitted(p) \/ Reclaim(p)
  \/ Insert(p) \/ TouchLookup(p) \/ TouchLast(p) \/ TouchCount(p)
  \/ Commit(p) \/ Recheck(p) \/ UndoMessage(p) \/ UndoNonce(p)
  \/ EndConv(p) \/ EndMessages(p)
  \/ Abort(p)

Sweep ==
  \/ SweepStart \/ SweepConv \/ SweepScan \/ SweepFilter
  \/ SweepOrphans \/ SweepScanClaims \/ SweepNonce

Next ==
  \/ \E p \in Procs : Begin(p) \/ Step(p) \/ Exit(p)
  \/ Sweep
  \/ Tick
  \/ OwnerDown
  \/ OwnerUp

Spec == Init /\ [][Next]_vars

\* The scheduler runs every process, the supervisor restarts the owner and its timer
\* starts the next sweep.  No call has to be made, no process has to die.
FairSpec ==
  /\ Spec
  /\ \A p \in Procs : WF_vars(Step(p))
  /\ WF_vars(Sweep)
  /\ WF_vars(OwnerUp)

-----------------------------------------------------------------------------
(* Properties                                                              *)

\* Every variable, row and local has its shape.
TypeOK ==
  /\ conv \in ConvRows
  /\ msgs \subseteq Messages
  /\ nonces \in [Nonces -> ClaimRows]
  /\ up \in BOOLEAN
  /\ clock \in Nat /\ lastEpoch \in Nat /\ lastSeq \in Nat
  /\ resets \in Nat /\ crashes \in Nat
  /\ alive \subseteq Procs
  /\ pc \in [Procs -> Steps]
  /\ call \in [Procs -> Calls]
  /\ tries \in [Procs -> 0 .. MaxRetries]
  /\ row \in [Procs -> ConvRows]
  /\ claim \in [Procs -> ClaimRows]
  /\ reply \in [Procs -> Replies]
  /\ sweepStep \in SweepSteps
  /\ sweepRow \in ConvRows
  /\ sweepEpochs \subseteq Nat
  /\ sweepClaims \in [Nonces -> ClaimRows]
  /\ bound \in [Nonces -> Nat]
  /\ wiped \subseteq Nat

\* A reader never sees the message of one nonce twice, however many calls with that
\* nonce race over claim_and_insert, resolve_existing and insert_claimed.
StoredOnce ==
  \A m1, m2 \in Visible : m1.nonce = m2.nonce => m1 = m2

Answered(p) == reply[p].kind \in {"ok", "duplicate"}

\* A sender who was told "stored" (ok or duplicate) finds the message in the
\* conversation for as long as its epoch lasts: the undo of insert_claimed, the sweep
\* and other retries of the nonce leave it alone.  Only end_conversations deletes it.
AnsweredIsKept ==
  \A p \in Procs :
    Answered(p) /\ reply[p].epoch = conv.epoch /\ conv.epoch \notin wiped
      => \E m \in msgs : /\ m.nonce = reply[p].nonce
                         /\ m.epoch = reply[p].epoch /\ m.seq = reply[p].seq

\* ... and so does its claim, which is what makes the next retry a duplicate.
AnsweredStaysClaimed ==
  \A p \in Procs :
    Answered(p) /\ reply[p].epoch = conv.epoch /\ conv.epoch \notin wiped
      => LET c == nonces[reply[p].nonce]
         IN c.epoch = reply[p].epoch /\ c.seq = reply[p].seq /\ c.state = "committed"

\* The counter that makes a conversation rotate at max_messages lags behind what is
\* stored by no more than the calls between their insert and their update_counter:
\* concurrent senders lose no increment.
Uncounted ==
  {p \in Procs : /\ pc[p] \in {"touch_lookup", "touch_last", "touch_count"}
                 /\ call[p].epoch = conv.epoch}

CountCovers == conv.count + Cardinality(Uncounted) >= Cardinality(Visible)

\* A message leaves the conversation only with its epoch or by end_conversations: a
\* rollback, a retry and above all the sweep, which decides on what it read before,
\* take none of an epoch that is still current.
KeptWhileCurrent ==
  [][conv'.epoch = conv.epoch => \A m \in Visible \ msgs' : m.epoch \in wiped']_vars

\* The store is an implementation of the conversation that its members are promised.
Log == INSTANCE Conversation WITH epoch <- conv.epoch, log <- Visible, cleared <- wiped

ImplementsConversation == Log!Spec

\* What an epoch left behind is swept, even the message that a dying process stored
\* after its epoch was over.
OrphansAreSwept(e) ==
  (e # conv.epoch /\ OfEpoch(e) # {}) ~> (e = conv.epoch \/ OfEpoch(e) = {})

\* A claim does not stay pending: its owner commits or drops it, or another caller or
\* the sweep settles it after the owner's death.
ClaimsAreSettled ==
  \A n \in Nonces : (nonces[n].state = "pending") ~> (nonces[n].state # "pending")

-----------------------------------------------------------------------------
(* What the documentation says and the store does not do                   *)

\* "Ends every conversation of `session_id`, deleting its messages" (chats.ex:308): a
\* reset, once it has returned, left no epoch that was there when it was called.
EndedIsOver == conv.epoch # NoEpoch => conv.epoch \notin wiped
=============================================================================
