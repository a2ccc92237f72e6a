------------------------- MODULE ConversationProofs -------------------------
(***************************************************************************)
(* What ChatStore promises the members of a conversation, for any number   *)
(* of processes, nonces, epochs and retries: messages and answers stay as  *)
(* long as their epoch (also when processes die in the middle of a call),  *)
(* the counter covers what is stored, and the store implements the         *)
(* abstract Conversation.                                                  *)
(***************************************************************************)
EXTENDS ChatStoreProofs, FiniteSetTheorems

-----------------------------------------------------------------------------
(* What a step of one process does to its claim                            *)

\* The message of this claim was stored when the process got here.
AfterInsert ==
  {"touch_lookup", "touch_last", "touch_count", "commit", "recheck", "mark_committed"}

Undoing == {"undo_message", "undo_nonce"}

MessageOf(q) == [epoch |-> claim[q].epoch, seq |-> claim[q].seq, nonce |-> call[q].nonce]

\* q has no claim any more, or not yet.
Drops(q) == pc'[q] \notin HasClaim /\ (call'[q] = call[q] \/ call'[q].op # "create")

Starts(q) ==
  /\ pc'[q] = "lookup"
  /\ call'[q].op = "create" /\ call'[q].epoch \in 1 .. lastEpoch
  /\ bound[call'[q].nonce] \in {NoEpoch, call'[q].epoch}
  /\ bound' = [bound EXCEPT ![call'[q].nonce] = call'[q].epoch]

\* q looks a claim up,
Takes(q) ==
  /\ pc'[q] = "find" /\ call'[q] = call[q] /\ call[q].op = "create"
  /\ nonces[call[q].nonce] # NoClaim /\ claim'[q] = nonces[call[q].nonce]

\* writes one,
Draws(q) ==
  LET c == NewClaim(q, call[q].epoch)
  IN /\ pc'[q] = "insert" /\ call'[q] = call[q] /\ call[q].op = "create"
     /\ claim'[q] = c /\ nonces' = [nonces EXCEPT ![call[q].nonce] = c]
     /\ lastSeq' = lastSeq + 1
     /\ \A r \in Procs \ {q} : Same(r)

\* or goes on with the one it has.
GoesOn(q) ==
  /\ call'[q] = call[q] /\ claim'[q] = claim[q]
  /\ pc[q] \in HasClaim /\ pc'[q] \in HasClaim \ {"insert", "find"}
  /\ pc'[q] \in Undoing => pc[q] \in Undoing \/ claim[q].epoch # conv.epoch
  /\ pc'[q] \in Storing \cup {"recheck"} => pc[q] \in Storing
  /\ pc'[q] \in AfterInsert =>
       \/ pc[q] \in AfterInsert
       \/ pc[q] = "insert" /\ MessageOf(q) \in msgs'
       \/ pc[q] = "find" /\ Stored(claim[q].epoch, claim[q].seq)

Change(q) == Same(q) \/ Drops(q) \/ Starts(q) \/ Takes(q) \/ Draws(q) \/ GoesOn(q)

\* An answer that says "stored" is given by a process that has seen the message.
Answers(q) ==
  \/ reply'[q] = reply[q]
  \/ reply'[q].kind \notin {"ok", "duplicate"}
  \/ /\ \/ pc[q] = "recheck"
        \/ pc[q] = "mark_committed" /\ ~OwnerAlive(q)
        \/ /\ pc[q] = "find" /\ claim[q].state = "committed"
           /\ Stored(claim[q].epoch, claim[q].seq)
     /\ reply'[q].nonce = call[q].nonce
     /\ reply'[q].epoch = claim[q].epoch /\ reply'[q].seq = claim[q].seq

\* The steps before create_message holds a claim
LEMMA ChangeOpen ==
  ASSUME TypeInv, NEW p \in Procs,
         \/ OpenConversation(p) \/ Unavailable(p) \/ EndConversations(p)
         \/ Lookup(p) \/ OpenNew(p) \/ Rotate(p)
         \/ EndConv(p) \/ EndMessages(p) \/ Exit(p) \/ Abort(p)
  PROVE  Drops(p) \/ Same(p)
<1>1. NoCall.op # "create" /\ NoConv.epoch = NoEpoch
  BY DEF NoCall, NoConv
<1>2. CASE OpenConversation(p)
  BY <1>2 DEF OpenConversation, Call, Locals, Drops, Storing, HasClaim, TypeInv, ControlInv, LocalsOK
<1>3. CASE Unavailable(p)
  BY <1>3 DEF Unavailable, locals, Same
<1>4. CASE EndConversations(p)
  BY <1>4 DEF EndConversations, Locals, locals, Same, Drops, Storing, HasClaim, NoCall,
     TypeInv, ControlInv, LocalsOK
<1>5. CASE Lookup(p) \/ OpenNew(p) \/ Rotate(p)
  BY <1>5, <1>1 DEF Lookup, OpenNew, Rotate, At, Opened, OpenAgain, Return, Goto, Locals, locals,
     Drops, Storing, HasClaim, TypeInv, ControlInv, LocalsOK
<1>6. CASE EndConv(p) \/ EndMessages(p)
  BY <1>6, <1>1 DEF EndConv, EndMessages, At, Goto, Return, Locals, locals, Drops, Storing,
     HasClaim, TypeInv, ControlInv, LocalsOK
<1>7. CASE Exit(p) \/ Abort(p)
  BY <1>7, <1>1 DEF Exit, Abort, Die, Locals, Drops, Storing, HasClaim, TypeInv, ControlInv, LocalsOK
<1>8. QED
  BY <1>2, <1>3, <1>4, <1>5, <1>6, <1>7

\* The steps that settle who holds the claim
LEMMA ChangeClaim ==
  ASSUME TypeInv, NEW p \in Procs,
         \/ Claim(p) \/ LookupNonce(p) \/ Find(p) \/ DropClaim(p)
         \/ ResolveInFlight(p) \/ MarkCommitted(p) \/ Reclaim(p)
  PROVE  Drops(p) \/ Takes(p) \/ GoesOn(p) \/
         (pc'[p] = "insert" /\ call'[p] = call[p] /\ claim'[p] = NewClaim(p, call[p].epoch)
          /\ nonces' = [nonces EXCEPT ![call[p].nonce] = NewClaim(p, call[p].epoch)]
          /\ lastSeq' = lastSeq + 1 /\ call[p].op = "create")
<1>1. NoCall.op # "create"
  BY DEF NoCall
<1>2. CASE Claim(p) \/ Reclaim(p)
  BY <1>1, <1>2 DEF Claim, Reclaim, At, ClaimAgain, Return, Goto, Locals, locals, Drops, Storing,
     HasClaim, CreateSteps, TypeInv, ControlInv, CallInv, LocalsOK
<1>3. CASE LookupNonce(p)
  BY <1>1, <1>3 DEF LookupNonce, At, ClaimAgain, Return, Goto, Locals, Drops, Takes, Storing,
     HasClaim, CreateSteps, TypeInv, ControlInv, CallInv, LocalsOK
<1>4. CASE Find(p)
  BY <1>1, <1>4 DEF Find, At, Return, Goto, Locals, locals, Drops, GoesOn, Storing, Undoing,
     AfterInsert, HasClaim, TypeInv, ControlInv, LocalsOK
<1>5. CASE DropClaim(p) \/ ResolveInFlight(p) \/ MarkCommitted(p)
  BY <1>1, <1>5 DEF DropClaim, ResolveInFlight, MarkCommitted, At, ClaimAgain, Return, Goto,
     Locals, Drops, Storing, HasClaim, TypeInv, ControlInv, LocalsOK
<1>6. QED
  BY <1>2, <1>3, <1>4, <1>5

\* The steps of insert_claimed
LEMMA ChangeInsert ==
  ASSUME TypeInv, NEW p \in Procs,
         \/ Insert(p) \/ TouchLookup(p) \/ TouchLast(p) \/ TouchCount(p)
         \/ Commit(p) \/ Recheck(p) \/ UndoMessage(p) \/ UndoNonce(p)
  PROVE  Drops(p) \/ GoesOn(p)
<1>1. NoCall.op # "create"
  BY DEF NoCall
<1>2. CASE Insert(p)
  BY <1>2 DEF Insert, At, Goto, locals, GoesOn, MessageOf, Storing, Undoing, AfterInsert, HasClaim,
     TypeInv, ControlInv, LocalsOK
<1>3. CASE TouchLookup(p) \/ TouchLast(p) \/ TouchCount(p) \/ Commit(p) \/ UndoMessage(p)
  BY <1>3 DEF TouchLookup, TouchLast, TouchCount, Commit, UndoMessage, At, Goto, locals, GoesOn,
     Storing, Undoing, AfterInsert, HasClaim, TypeInv, ControlInv, LocalsOK
<1>4. CASE Recheck(p)
  BY <1>1, <1>4 DEF Recheck, At, Return, Goto, Locals, Drops, GoesOn, Storing, Undoing, AfterInsert,
     HasClaim, TypeInv, ControlInv, LocalsOK
<1>5. CASE UndoNonce(p)
  BY <1>1, <1>5 DEF UndoNonce, At, Return, Locals, Drops, Storing, HasClaim, TypeInv, ControlInv,
     LocalsOK
<1>6. QED
  BY <1>2, <1>3, <1>4, <1>5

\* A step of one process is no step of another.
LEMMA OthersSame ==
  ASSUME TypeInv, NEW p \in Procs, Begin(p) \/ Step(p) \/ Exit(p)
  PROVE  \A q \in Procs \ {p} : Same(q) /\ reply'[q] = reply[q]
<1>1. CASE Begin(p)
  BY <1>1 DEF Begin, OpenConversation, CreateMessage, Unavailable, EndConversations, Call, Locals,
     locals, Same, TypeInv, ControlInv, LocalsOK
<1>2. CASE Lookup(p) \/ OpenNew(p) \/ Rotate(p) \/ EndConv(p) \/ EndMessages(p) \/ Exit(p) \/ Abort(p)
  BY <1>2 DEF Lookup, OpenNew, Rotate, EndConv, EndMessages, Exit, Abort, Die, Opened, OpenAgain,
     Return, Goto, Locals, locals, Same, TypeInv, ControlInv, LocalsOK
<1>3. CASE \/ Claim(p) \/ LookupNonce(p) \/ Find(p) \/ DropClaim(p)
           \/ ResolveInFlight(p) \/ MarkCommitted(p) \/ Reclaim(p)
  BY <1>3 DEF Claim, LookupNonce, Find, DropClaim, ResolveInFlight, MarkCommitted, Reclaim,
     ClaimAgain, Return, Goto, Locals, locals, Same, TypeInv, ControlInv, LocalsOK
<1>4. CASE \/ Insert(p) \/ TouchLookup(p) \/ TouchLast(p) \/ TouchCount(p)
           \/ Commit(p) \/ Recheck(p) \/ UndoMessage(p) \/ UndoNonce(p)
  BY <1>4 DEF Insert, TouchLookup, TouchLast, TouchCount, Commit, Recheck, UndoMessage, UndoNonce,
     Return, Goto, Locals, locals, Same, TypeInv, ControlInv, LocalsOK
<1>5. QED
  BY <1>1, <1>2, <1>3, <1>4 DEF Step

\* The system's steps are no steps of a process.
LEMMA SystemSame ==
  ASSUME Sweep \/ Tick \/ OwnerDown \/ OwnerUp \/ UNCHANGED vars
  PROVE  UNCHANGED <<pc, call, claim, reply, bound, lastSeq, lastEpoch>>
BY DEF Sweep, SweepStart, SweepConv, SweepScan, SweepFilter, SweepOrphans, SweepScanClaims,
   SweepNonce, Tick, OwnerDown, OwnerUp, vars, ids, world, locals

\* Every step changes every process in one of these ways.
LEMMA Changes ==
  ASSUME TypeInv, [Next]_vars
  PROVE  \A q \in Procs : Change(q)
<1>1. ASSUME NEW p \in Procs, Begin(p) \/ Step(p) \/ Exit(p)
      PROVE  \A q \in Procs : Change(q)
  <2>1. \A q \in Procs \ {p} : Same(q)
    BY <1>1, OthersSame
  <2>2. ASSUME NEW n \in Nonces, CreateMessage(p, n)
        PROVE  Starts(p)
    BY <2>2 DEF CreateMessage, Call, Locals, Starts, TypeInv, ControlInv, LocalsOK
  <2>3. Change(p)
    BY <1>1, <2>1, <2>2, ChangeOpen, ChangeClaim, ChangeInsert DEF Begin, Step, Change, Draws
  <2>4. QED
    BY <2>1, <2>3 DEF Change
<1>2. CASE Sweep \/ Tick \/ OwnerDown \/ OwnerUp \/ UNCHANGED vars
  BY <1>2, SystemSame DEF Change, Same
<1>3. QED
  BY <1>1, <1>2 DEF Next

\* Every answer that says "stored" is given by a process that has seen the message.
LEMMA AllAnswers ==
  ASSUME TypeInv, [Next]_vars
  PROVE  \A q \in Procs : Answers(q)
<1>1. ASSUME NEW p \in Procs, Begin(p) \/ Step(p) \/ Exit(p)
      PROVE  \A q \in Procs : Answers(q)
  <2>1. CASE Begin(p) \/ Exit(p) \/ Abort(p)
    <3>1. \E k \in {"none", "unavailable", "done"} : reply' = [reply EXCEPT ![p] = [NoReply EXCEPT !.kind = k]]
      BY <2>1 DEF Begin, Exit, Abort, Die, OpenConversation, CreateMessage, Unavailable,
         EndConversations, Call, NoReply
    <3>2. QED
      BY <3>1 DEF NoReply, Answers, TypeInv, ControlInv
  <2>2. CASE Lookup(p) \/ OpenNew(p) \/ Rotate(p) \/ EndConv(p) \/ EndMessages(p)
    BY <2>2 DEF Lookup, OpenNew, Rotate, EndConv, EndMessages, Opened, OpenAgain, Return, Goto,
       Answers, TypeInv, ControlInv
  <2>3. CASE \/ Claim(p) \/ LookupNonce(p) \/ Find(p) \/ DropClaim(p)
             \/ ResolveInFlight(p) \/ MarkCommitted(p) \/ Reclaim(p)
    BY <2>3 DEF Claim, LookupNonce, Find, DropClaim, ResolveInFlight, MarkCommitted, Reclaim, At,
       ClaimAgain, Return, Goto, Answers, TypeInv, ControlInv
  <2>4. CASE \/ Insert(p) \/ TouchLookup(p) \/ TouchLast(p) \/ TouchCount(p)
             \/ Commit(p) \/ Recheck(p) \/ UndoMessage(p) \/ UndoNonce(p)
    BY <2>4 DEF Insert, TouchLookup, TouchLast, TouchCount, Commit, Recheck, UndoMessage, UndoNonce,
       At, Return, Goto, Answers, TypeInv, ControlInv
  <2>5. QED
    BY <1>1, <2>1, <2>2, <2>3, <2>4 DEF Step
<1>2. CASE Sweep \/ Tick \/ OwnerDown \/ OwnerUp \/ UNCHANGED vars
  BY <1>2, SystemSame DEF Answers
<1>3. QED
  BY <1>1, <1>2 DEF Next

-----------------------------------------------------------------------------
(* What a step does to the tables                                          *)

\* The conversation row is that of an epoch, which is over for good when it is replaced.
EpochStep ==
  /\ lastEpoch' \in {lastEpoch, lastEpoch + 1}
  /\ lastSeq' \in {lastSeq, lastSeq + 1}
  /\ wiped \subseteq wiped'
  /\ wiped' = wiped \/ \E q \in Procs : EndMessages(q)
  /\ \/ conv'.epoch = conv.epoch
     \/ conv'.epoch = NoEpoch
     \/ conv'.epoch = lastEpoch + 1 /\ lastEpoch' = lastEpoch + 1

\* An epoch is bound to a nonce once.
BindStep ==
  \/ bound' = bound
  \/ \E n \in Nonces, e \in 1 .. lastEpoch :
       bound[n] \in {NoEpoch, e} /\ bound' = [bound EXCEPT ![n] = e]

\* A claim is deleted, marked, or written by a process.
ClaimStep ==
  \A n \in Nonces :
    \/ nonces'[n] = nonces[n]
    \/ nonces'[n] = NoClaim
    \/ nonces[n] # NoClaim /\ nonces'[n] = [nonces[n] EXCEPT !.state = "committed"]
    \/ \E q \in Procs : Draws(q) /\ call[q].nonce = n

\* A message is stored by insert_claimed; one is deleted with its epoch only, by an undo
\* or by the sweep.
MessageStep ==
  /\ \A m \in msgs' \ msgs : \E q \in Procs : Insert(q) /\ pc[q] = "insert" /\ m = MessageOf(q)
  /\ \A m \in msgs \ msgs' :
       \/ conv' = NoConv
       \/ \E q \in Procs : EndMessages(q) /\ m.epoch = row[q].epoch
       \/ \E q \in Procs : pc[q] = "undo_message" /\ m.epoch = claim[q].epoch /\ conv' = conv
       \/ sweepStep = "drop_orphans" /\ m.epoch \in sweepEpochs /\ conv' = conv

TableStep == EpochStep /\ BindStep /\ ClaimStep /\ MessageStep

\* What the steps of a process do to the tables
LEMMA TableProcess ==
  ASSUME TypeInv, BindInv, [Next]_vars, NEW p \in Procs, Begin(p) \/ Step(p) \/ Exit(p)
  PROVE  TableStep
<1>1. NoConv.epoch = NoEpoch
  BY DEF NoConv
<1>2. CASE Begin(p) \/ Exit(p) \/ Abort(p)
  <2>1. UNCHANGED <<tables, ids, wiped>>
    BY <1>2 DEF Begin, Exit, Abort, Die, OpenConversation, CreateMessage, Unavailable,
       EndConversations, Call
  <2>2. BindStep
    BY <1>2 DEF Begin, Exit, Abort, Die, OpenConversation, CreateMessage, Unavailable,
       EndConversations, world, BindStep
  <2>3. QED
    BY <2>1, <2>2 DEF tables, ids, TableStep, EpochStep, ClaimStep, MessageStep
<1>3. CASE Lookup(p) \/ OpenNew(p) \/ Rotate(p) \/ EndConv(p) \/ EndMessages(p)
  <2>1. EpochStep
    BY <1>1, <1>3 DEF Lookup, OpenNew, Rotate, EndConv, EndMessages, NewConv, tables, ids, EpochStep
  <2>2. UNCHANGED <<bound, nonces>>
    BY <1>3 DEF Lookup, OpenNew, Rotate, EndConv, EndMessages, tables, world
  <2>3. MessageStep
    BY <1>3 DEF Lookup, OpenNew, Rotate, EndConv, EndMessages, OfEpoch, tables, MessageStep
  <2>4. QED
    BY <2>1, <2>2, <2>3 DEF TableStep, BindStep, ClaimStep
<1>4. CASE \/ Claim(p) \/ LookupNonce(p) \/ Find(p) \/ DropClaim(p)
           \/ ResolveInFlight(p) \/ MarkCommitted(p) \/ Reclaim(p)
  <2>1. UNCHANGED <<conv, msgs, lastEpoch, wiped, bound>> /\ lastSeq' \in {lastSeq, lastSeq + 1}
    BY <1>4 DEF Claim, LookupNonce, Find, DropClaim, ResolveInFlight, MarkCommitted, Reclaim,
       tables, ids, world
  <2>2. \A n \in Nonces : n # call[p].nonce => nonces'[n] = nonces[n]
    BY <1>4 DEF Claim, LookupNonce, Find, DropClaim, ResolveInFlight, MarkCommitted, Reclaim,
       tables, TypeInv, DataOK
  <2>3. ASSUME call[p].nonce \in Nonces, nonces'[call[p].nonce] # nonces[call[p].nonce]
        PROVE  \/ nonces'[call[p].nonce] = NoClaim
               \/ /\ nonces[call[p].nonce] # NoClaim
                  /\ nonces'[call[p].nonce] = [nonces[call[p].nonce] EXCEPT !.state = "committed"]
               \/ Draws(p)
    <3>1. CASE Claim(p) \/ Reclaim(p)
      <4>1. \A q \in Procs \ {p} : Same(q)
        BY <1>4, OthersSame DEF Step
      <4>2. nonces' # nonces
        BY <2>3
      <4>3. QED
        BY <3>1, <4>1, <4>2 DEF Claim, Reclaim, At, Locals, Goto, locals, Draws, CreateSteps,
           TypeInv, ControlInv, CallInv, LocalsOK
    <3>2. CASE MarkCommitted(p)
      <4>1. nonces[call[p].nonce] = claim[p] /\ claim[p].epoch # NoEpoch
        BY <2>3, <3>2 DEF MarkCommitted, At, HasClaim, Storing, CreateSteps, BindInv, TypeInv,
           ControlInv, CallInv
      <4>2. QED
        BY <2>3, <3>2, <4>1 DEF MarkCommitted, NoClaim, TypeInv, DataOK
    <3>3. CASE DropClaim(p)
      BY <2>3, <3>3 DEF DropClaim, TypeInv, DataOK
    <3>4. QED
      BY <1>4, <2>3, <3>1, <3>2, <3>3 DEF LookupNonce, Find, ResolveInFlight, tables
  <2>4. ClaimStep
    BY <2>2, <2>3 DEF ClaimStep
  <2>5. QED
    BY <2>1, <2>4 DEF TableStep, EpochStep, BindStep, MessageStep
<1>5. CASE \/ Insert(p) \/ TouchLookup(p) \/ TouchLast(p) \/ TouchCount(p)
           \/ Commit(p) \/ Recheck(p) \/ UndoMessage(p) \/ UndoNonce(p)
  <2>1. UNCHANGED <<lastEpoch, lastSeq, wiped, bound>> /\ conv'.epoch = conv.epoch
    BY <1>5 DEF Insert, TouchLookup, TouchLast, TouchCount, Commit, Recheck, UndoMessage, UndoNonce,
       tables, ids, world, TypeInv, DataOK, ConvRows
  <2>2. ClaimStep
    BY <1>5 DEF Insert, TouchLookup, TouchLast, TouchCount, Commit, Recheck, UndoMessage, UndoNonce,
       tables, ClaimStep, TypeInv, DataOK
  <2>3. MessageStep
    BY <1>5 DEF Insert, TouchLookup, TouchLast, TouchCount, Commit, Recheck, UndoMessage, UndoNonce,
       At, tables, MessageStep, MessageOf
  <2>4. QED
    BY <2>1, <2>2, <2>3 DEF TableStep, EpochStep, BindStep
<1>6. QED
  BY <1>2, <1>3, <1>4, <1>5 DEF Step

\* ... and those of the sweep, the clock and the table owner
LEMMA TableSystem ==
  ASSUME TypeInv, Sweep \/ Tick \/ OwnerDown \/ OwnerUp \/ UNCHANGED vars
  PROVE  TableStep
<1>1. NoConv.epoch = NoEpoch /\ \A n \in Nonces : NoClaims[n] = NoClaim
  BY DEF NoConv, NoClaims
<1>2. UNCHANGED <<lastEpoch, lastSeq, wiped, bound>> /\ conv' \in {conv, NoConv}
  BY DEF Sweep, SweepStart, SweepConv, SweepScan, SweepFilter, SweepOrphans, SweepScanClaims,
     SweepNonce, Tick, OwnerDown, OwnerUp, vars, tables, ids, world
<1>3. ClaimStep
  <2>1. CASE SweepNonce
    <3>1. nonces' = nonces \/ \E n \in Nonces : /\ sweepClaims[n] # NoClaim /\ nonces[n] = sweepClaims[n]
                                                 /\ nonces' = [nonces EXCEPT ![n] = Swept(nonces[n])]
      BY <2>1 DEF SweepNonce
    <3>2. \A n \in Nonces : Swept(nonces[n]) \in {NoClaim, nonces[n], [nonces[n] EXCEPT !.state = "committed"]}
      BY DEF Swept
    <3>3. QED
      BY <3>1, <3>2 DEF ClaimStep, TypeInv, DataOK
  <2>2. CASE ~SweepNonce
    BY <1>1, <2>2 DEF Sweep, SweepStart, SweepConv, SweepScan, SweepFilter, SweepOrphans,
       SweepScanClaims, Tick, OwnerDown, OwnerUp, vars, tables, ClaimStep
  <2>3. QED
    BY <2>1, <2>2
<1>4. MessageStep
  BY DEF Sweep, SweepStart, SweepConv, SweepScan, SweepFilter, SweepOrphans, SweepScanClaims,
     SweepNonce, Sweeping, Tick, OwnerDown, OwnerUp, vars, tables, OfEpoch, MessageStep
<1>5. QED
  BY <1>2, <1>1, <1>3, <1>4 DEF TableStep, EpochStep, BindStep

\* What every step does to the tables
LEMMA Tables ==
  ASSUME TypeInv, BindInv, [Next]_vars
  PROVE  TableStep
BY TableProcess, TableSystem DEF Next

-----------------------------------------------------------------------------
(* The inductive invariant, also when processes die in the middle of a call*)

\* The sequence number s was drawn for a claim on n, or a message of n has it.
Used(n, s) == Drawn(n, s) \/ \E m \in msgs : m.nonce = n /\ m.seq = s

OriginInv ==
  /\ \A n \in Nonces, s \in Nat : Used(n, s) => s <= lastSeq
  /\ \A n, o \in Nonces, s \in Nat : Used(n, s) /\ Used(o, s) => n = o

Has(n, e, s) == \E m \in msgs : m.nonce = n /\ m.epoch = e /\ m.seq = s

Lasts(e) == e = conv.epoch /\ e \notin wiped

\* What a process has stored, found or answered is there.
KeptInv ==
  \A p \in Procs :
    /\ pc[p] \in AfterInsert /\ Lasts(claim[p].epoch)
         => Has(call[p].nonce, claim[p].epoch, claim[p].seq)
    /\ Answered(p) => reply[p].epoch \in 1 .. lastEpoch /\ reply[p].nonce \in Nonces
    /\ Answered(p) /\ Lasts(reply[p].epoch)
         => Has(reply[p].nonce, reply[p].epoch, reply[p].seq)

\* The sweep is about to delete only what is over.
SweepInv ==
  /\ sweepEpochs \subseteq 1 .. lastEpoch
  /\ sweepStep = "drop_orphans" => conv.epoch \notin sweepEpochs

KeepInv == BindInv /\ OriginInv /\ KeptInv /\ UndoInv /\ SweepInv

\* The empty store
LEMMA KeepInit == Init => KeepInv
<1> SUFFICES ASSUME Init PROVE KeepInv
  OBVIOUS
<1>1. OnceInv
  BY OnceInit
<1>2. \A n \in Nonces, s \in Nat : ~Used(n, s)
  BY DEF Init, NoClaims, Used, Drawn, HasClaim, Storing
<1>3. OriginInv
  BY <1>2 DEF OriginInv
<1>4. KeptInv
  BY DEF Init, KeptInv, AfterInsert, Answered, NoReply
<1>5. SweepInv
  BY DEF Init, SweepInv
<1>6. QED
  BY <1>1, <1>3, <1>4, <1>5 DEF OnceInv, KeepInv

\* The claim of a process is on its nonce and of the epoch of that.
LEMMA Holder ==
  ASSUME TypeInv, BindInv, OriginInv, NEW p \in Procs, pc[p] \in HasClaim
  PROVE  /\ call[p].op = "create" /\ call[p].nonce \in Nonces
         /\ claim[p] \in ClaimRows
         /\ claim[p].epoch \in 1 .. lastEpoch
         /\ claim[p].epoch = bound[call[p].nonce]
         /\ claim[p].seq \in Nat /\ claim[p].seq <= lastSeq
         /\ Used(call[p].nonce, claim[p].seq)
<1>1. call[p].op = "create" /\ call[p].nonce \in Nonces /\ claim[p] \in ClaimRows
  BY StepSets DEF TypeInv, ControlInv, CallInv, LocalsOK
<1>2. claim[p].epoch = bound[call[p].nonce] /\ bound[call[p].nonce] # 0
      /\ bound[call[p].nonce] \in 0 .. lastEpoch
  BY <1>1 DEF BindInv, NoEpoch
<1>3. claim[p].epoch \in 1 .. lastEpoch
  BY <1>2 DEF TypeInv, DataOK
<1>4. claim[p].seq \in Nat
  BY <1>1 DEF ClaimRows
<1>5. Used(call[p].nonce, claim[p].seq)
  BY <1>1 DEF Used, Drawn
<1>6. claim[p].seq <= lastSeq
  BY <1>1, <1>4, <1>5 DEF OriginInv
<1>7. QED
  BY <1>1, <1>2, <1>3, <1>4, <1>5, <1>6

\* What carries a nonce carries its epoch.
LEMMA BindKept ==
  ASSUME TypeInv, TypeInv', BindInv, OriginInv, [Next]_vars
  PROVE  BindInv'
<1>1. TableStep /\ \A q \in Procs : Change(q)
  BY Tables, Changes
<1>2. lastEpoch \in Nat /\ lastEpoch' \in Nat /\ lastEpoch <= lastEpoch' /\ NoEpoch = 0
  BY <1>1 DEF TypeInv, DataOK, TableStep, EpochStep, NoEpoch
<1>3. /\ \A n \in Nonces : bound'[n] \in 0 .. lastEpoch'
      /\ \A n \in Nonces : bound[n] # NoEpoch => bound'[n] = bound[n]
  BY <1>1, <1>2 DEF TableStep, BindStep, BindInv, TypeInv, WorldOK
<1>4. conv'.epoch \in 0 .. lastEpoch'
  BY <1>1, <1>2 DEF TableStep, EpochStep, BindInv
<1>5. \A n \in Nonces : nonces'[n] # NoClaim => nonces'[n].epoch = bound'[n] /\ bound'[n] # NoEpoch
  <2> SUFFICES ASSUME NEW n \in Nonces, nonces'[n] # NoClaim
               PROVE  nonces'[n].epoch = bound'[n] /\ bound'[n] # NoEpoch
    OBVIOUS
  <2>1. CASE nonces[n] # NoClaim /\ nonces'[n] \in {nonces[n], [nonces[n] EXCEPT !.state = "committed"]}
    BY <1>3, <2>1 DEF BindInv, TypeInv, DataOK, ClaimRows
  <2>2. ASSUME NEW q \in Procs, Draws(q), call[q].nonce = n
        PROVE  nonces'[n].epoch = bound'[n] /\ bound'[n] # NoEpoch
    BY <1>3, <2>2 DEF Draws, NewClaim, BindInv, TypeInv, DataOK
  <2>3. QED
    BY <1>1, <2>1, <2>2 DEF TableStep, ClaimStep
<1>6. \A m \in msgs' : m.epoch = bound'[m.nonce] /\ m.epoch # NoEpoch
  <2>1. \A m \in msgs : m.epoch = bound'[m.nonce] /\ m.epoch # NoEpoch
    BY <1>3 DEF BindInv, TypeInv, DataOK, Messages
  <2>2. ASSUME NEW q \in Procs, pc[q] = "insert"
        PROVE  MessageOf(q).epoch = bound'[MessageOf(q).nonce] /\ MessageOf(q).epoch # NoEpoch
    <3>1. pc[q] \in HasClaim
      BY <2>2 DEF HasClaim, Storing
    <3>2. QED
      BY <1>2, <1>3, <3>1, Holder DEF MessageOf
  <2>3. QED
    BY <1>1, <2>1, <2>2 DEF TableStep, MessageStep
<1>7. ASSUME NEW q \in Procs
      PROVE  /\ call'[q].op = "create" =>
                  call'[q].epoch = bound'[call'[q].nonce] /\ call'[q].epoch # NoEpoch
             /\ pc'[q] \in HasClaim => claim'[q].epoch = bound'[call'[q].nonce]
  <2>1. call[q].op = "create" =>
          /\ call[q].nonce \in Nonces
          /\ call[q].epoch = bound'[call[q].nonce] /\ call[q].epoch # NoEpoch
    BY <1>3 DEF BindInv, TypeInv, ControlInv, CallInv
  <2>2. pc[q] \in HasClaim => call[q].op = "create" /\ claim[q].epoch = bound'[call[q].nonce]
    BY <1>2, <1>3, Holder
  <2>3. CASE Same(q) \/ Drops(q) \/ GoesOn(q)
    BY <2>1, <2>2, <2>3 DEF Same, Drops, GoesOn
  <2>4. CASE Starts(q)
    BY <1>2, <2>4 DEF Starts, HasClaim, Storing, TypeInv, WorldOK, ControlInv, CallInv
  <2>5. CASE Takes(q) \/ Draws(q)
    BY <1>3, <2>1, <2>5 DEF Takes, Draws, NewClaim, BindInv
  <2>6. QED
    BY <1>1, <2>3, <2>4, <2>5 DEF Change
<1>8. QED
  BY <1>3, <1>4, <1>5, <1>6, <1>7 DEF BindInv

\* A sequence number is drawn for one nonce.
LEMMA OriginKept ==
  ASSUME TypeInv, TypeInv', BindInv, OriginInv, [Next]_vars
  PROVE  OriginInv'
<1>1. TableStep /\ \A q \in Procs : Change(q)
  BY Tables, Changes
<1>2. lastSeq \in Nat /\ lastSeq <= lastSeq'
  BY <1>1 DEF TypeInv, DataOK, TableStep, EpochStep
<1>3. ASSUME NEW n \in Nonces, NEW s \in Nat, Used(n, s)', ~Used(n, s)
      PROVE  \E q \in Procs : Draws(q) /\ call[q].nonce = n /\ s = lastSeq + 1
  <2>1. CASE nonces'[n] # NoClaim /\ nonces'[n].seq = s
    <3>1. ~(nonces[n] # NoClaim /\ nonces'[n].seq = nonces[n].seq)
      BY <1>3, <2>1 DEF Used, Drawn
    <3>2. [nonces[n] EXCEPT !.state = "committed"].seq = nonces[n].seq
      BY DEF TypeInv, DataOK, ClaimRows
    <3>3. PICK q \in Procs : Draws(q) /\ call[q].nonce = n
      BY <1>1, <2>1, <3>1, <3>2 DEF TableStep, ClaimStep
    <3>4. nonces'[n].seq = lastSeq + 1
      BY <3>3 DEF Draws, NewClaim, TypeInv, DataOK
    <3>5. QED
      BY <2>1, <3>3, <3>4
  <2>2. ASSUME NEW q \in Procs, pc'[q] \in HasClaim, call'[q].nonce = n, claim'[q].seq = s
        PROVE  Draws(q) /\ call[q].nonce = n /\ s = lastSeq + 1
    <3>1. CASE Same(q) \/ GoesOn(q)
      BY <1>3, <2>2, <3>1 DEF Same, GoesOn, Used, Drawn
    <3>2. CASE Takes(q)
      BY <1>3, <2>2, <3>2 DEF Takes, Used, Drawn
    <3>3. CASE Drops(q) \/ Starts(q)
      BY <2>2, <3>3 DEF Drops, Starts, HasClaim, Storing
    <3>4. CASE Draws(q)
      BY <2>2, <3>4 DEF Draws, NewClaim
    <3>5. QED
      BY <1>1, <3>1, <3>2, <3>3, <3>4 DEF Change
  <2>3. ASSUME NEW m \in msgs', m.nonce = n, m.seq = s PROVE FALSE
    <3>1. PICK q \in Procs : pc[q] = "insert" /\ m = MessageOf(q)
      BY <1>1, <1>3, <2>3 DEF TableStep, MessageStep, Used
    <3>2. pc[q] \in HasClaim
      BY <3>1 DEF HasClaim, Storing
    <3>3. QED
      BY <1>3, <2>3, <3>1, <3>2 DEF MessageOf, Used, Drawn
  <2>4. QED
    BY <1>3, <2>1, <2>2, <2>3 DEF Used, Drawn
\* Two processes never draw at once.
<1>4. ASSUME NEW q \in Procs, Draws(q), NEW r \in Procs, Draws(r) PROVE call[q].nonce = call[r].nonce
  <2>1. CASE q # r
    <3>1. nonces'[call[q].nonce] # nonces[call[q].nonce] /\ nonces'[call[q].nonce].owner = q
          /\ call[q].nonce \in Nonces
      <4>1. call[q].nonce \in Nonces
        BY <1>4 DEF Draws, TypeInv, ControlInv, CallInv
      <4>2. nonces'[call[q].nonce].seq = lastSeq + 1 /\ nonces'[call[q].nonce].owner = q
        BY <1>4, <4>1 DEF Draws, NewClaim, TypeInv, DataOK
      <4>3. nonces[call[q].nonce] # NoClaim => Used(call[q].nonce, nonces[call[q].nonce].seq)
        BY DEF Used, Drawn
      <4>4. nonces[call[q].nonce].seq \in Nat
        BY <4>1 DEF TypeInv, DataOK, ClaimRows
      <4>5. nonces[call[q].nonce].seq <= lastSeq
        BY <1>2, <4>1, <4>3, <4>4 DEF OriginInv, NoClaim
      <4>6. QED
        BY <1>2, <4>1, <4>2, <4>5
    <3>2. nonces' = [nonces EXCEPT ![call[r].nonce] = NewClaim(r, call[r].epoch)]
      BY <1>4 DEF Draws
    <3>3. QED
      BY <3>1, <3>2 DEF TypeInv, DataOK
  <2>2. QED
    BY <2>1
<1>5. \A n \in Nonces, s \in Nat : Used(n, s)' => s <= lastSeq'
  <2> SUFFICES ASSUME NEW n \in Nonces, NEW s \in Nat, Used(n, s)' PROVE s <= lastSeq'
    OBVIOUS
  <2>1. CASE Used(n, s)
    BY <1>2, <2>1 DEF OriginInv, TypeInv, DataOK
  <2>2. CASE ~Used(n, s)
    BY <1>2, <1>3, <2>2 DEF Draws
  <2>3. QED
    BY <2>1, <2>2
<1>6. ASSUME NEW n \in Nonces, NEW o \in Nonces, NEW s \in Nat, Used(n, s)', Used(o, s)'
      PROVE  n = o
  <2>1. CASE Used(n, s) /\ Used(o, s)
    BY <2>1 DEF OriginInv
  <2>2. CASE ~Used(n, s) /\ ~Used(o, s)
    BY <1>3, <1>4, <1>6, <2>2
  <2>3. Used(n, s) \/ Used(o, s) => s # lastSeq + 1
    BY <1>2 DEF OriginInv
  <2>4. QED
    BY <1>3, <1>6, <2>1, <2>2, <2>3
<1>7. QED
  BY <1>5, <1>6 DEF OriginInv

\* A message of an epoch that goes on stays, unless end_conversations wiped that epoch.
LEMMA MessageStays ==
  ASSUME TypeInv, TypeInv', KeepInv, [Next]_vars,
         NEW m \in msgs, m.epoch = conv'.epoch, m.epoch \notin wiped'
  PROVE  m \in msgs' /\ conv'.epoch = conv.epoch
<1>1. TableStep
  BY Tables DEF KeepInv
<1>2. m.epoch \in 1 .. lastEpoch /\ lastEpoch \in Nat
  BY DEF KeepInv, BindInv, NoEpoch, TypeInv, DataOK, Messages
<1>3. conv'.epoch = conv.epoch
  BY <1>1, <1>2 DEF TableStep, EpochStep, NoEpoch
<1>4. conv' # NoConv
  BY <1>2 DEF NoConv, NoEpoch
<1>5. ~(\E q \in Procs : pc[q] = "undo_message" /\ m.epoch = claim[q].epoch)
  BY <1>3 DEF KeepInv, UndoInv
<1>6. ~(sweepStep = "drop_orphans" /\ m.epoch \in sweepEpochs)
  BY <1>3 DEF KeepInv, SweepInv
<1>7. \A q \in Procs : EndMessages(q) => m.epoch # row[q].epoch
  BY DEF EndMessages
<1>8. QED
  BY <1>1, <1>3, <1>4, <1>5, <1>6, <1>7 DEF TableStep, MessageStep

\* The message that a process has found under the number of its claim is that of its nonce.
LEMMA FoundIsOwn ==
  ASSUME TypeInv, KeepInv, NEW q \in Procs, pc[q] = "find", Stored(claim[q].epoch, claim[q].seq)
  PROVE  Has(call[q].nonce, claim[q].epoch, claim[q].seq)
<1>1. PICK m \in msgs : m.epoch = claim[q].epoch /\ m.seq = claim[q].seq
  BY DEF Stored
<1>2. pc[q] \in HasClaim
  BY DEF HasClaim
<1>3. m.nonce \in Nonces /\ Used(m.nonce, claim[q].seq)
  BY <1>1 DEF Used, TypeInv, DataOK, Messages
<1>4. m.nonce = call[q].nonce
  BY <1>2, <1>3, Holder DEF KeepInv, OriginInv
<1>5. QED
  BY <1>1, <1>4 DEF Has

\* What is there of an epoch that goes on is there after the step.
LEMMA HasStays ==
  ASSUME TypeInv, TypeInv', KeepInv, [Next]_vars,
         NEW n \in Nonces, NEW e \in 1 .. lastEpoch, NEW s \in Nat,
         Lasts(e)', Lasts(e) => Has(n, e, s)
  PROVE  Has(n, e, s)'
<1>1. TableStep /\ lastEpoch \in Nat
  BY Tables DEF KeepInv, TypeInv, DataOK
<1>2. Lasts(e)
  BY <1>1 DEF Lasts, TableStep, EpochStep, NoEpoch
<1>3. PICK m \in msgs : m.nonce = n /\ m.epoch = e /\ m.seq = s
  BY <1>2 DEF Has
<1>4. m \in msgs'
  BY <1>3, MessageStays DEF Lasts
<1>5. QED
  BY <1>3, <1>4 DEF Has

\* What was stored, found or answered stays.
LEMMA KeptKept ==
  ASSUME TypeInv, TypeInv', KeepInv, [Next]_vars
  PROVE  KeptInv'
<1>1. TableStep /\ \A q \in Procs : Change(q) /\ Answers(q)
  BY Tables, Changes, AllAnswers DEF KeepInv
<1>2. lastEpoch \in Nat /\ lastEpoch' \in Nat /\ lastEpoch <= lastEpoch'
  BY <1>1 DEF TypeInv, DataOK, TableStep, EpochStep
<1>3. AfterInsert \subseteq HasClaim /\ {"insert", "find", "lookup"} \cap AfterInsert = {}
  BY DEF AfterInsert, HasClaim, Storing
<1>4. ASSUME NEW q \in Procs, pc'[q] \in AfterInsert, Lasts(claim[q].epoch)'
      PROVE  Has(call[q].nonce, claim[q].epoch, claim[q].seq)'
             /\ call'[q] = call[q] /\ claim'[q] = claim[q]
  <2>1. (Same(q) \/ GoesOn(q)) /\ call'[q] = call[q] /\ claim'[q] = claim[q]
    BY <1>1, <1>3, <1>4 DEF Change, Drops, Starts, Takes, Draws, Same, GoesOn
  <2>2. PICK n, e, s : n = call[q].nonce /\ e = claim[q].epoch /\ s = claim[q].seq
    OBVIOUS
  <2>3. pc[q] \in HasClaim
    BY <1>3, <1>4, <2>1 DEF Same, GoesOn
  <2>4. n \in Nonces /\ e \in 1 .. lastEpoch /\ s \in Nat
    BY <2>2, <2>3, Holder DEF KeepInv
  <2>5. Lasts(e)'
    BY <1>4, <2>1, <2>2 DEF Lasts
  <2>6. CASE pc[q] \in AfterInsert
    <3>1. Lasts(e) => Has(n, e, s)
      BY <2>2, <2>6 DEF KeepInv, KeptInv
    <3>2. QED
      BY <2>1, <2>2, <2>4, <2>5, <3>1, HasStays
  <2>7. CASE pc[q] = "insert" /\ MessageOf(q) \in msgs'
    BY <2>1, <2>7 DEF MessageOf, Has
  <2>8. CASE pc[q] = "find" /\ Stored(claim[q].epoch, claim[q].seq)
    <3>1. Has(n, e, s)
      BY <2>2, <2>8, FoundIsOwn
    <3>2. QED
      BY <2>1, <2>2, <2>4, <2>5, <3>1, HasStays
  <2>9. QED
    BY <1>4, <2>1, <2>6, <2>7, <2>8 DEF Same, GoesOn
<1>5. ASSUME NEW q \in Procs, Answered(q)'
      PROVE  /\ reply'[q].epoch \in 1 .. lastEpoch' /\ reply'[q].nonce \in Nonces
             /\ Lasts(reply[q].epoch)' => Has(reply[q].nonce, reply[q].epoch, reply[q].seq)'
  <2>1. PICK n, e, s : n = reply'[q].nonce /\ e = reply'[q].epoch /\ s = reply'[q].seq
    OBVIOUS
  <2>2. n \in Nonces \cup {None} /\ s \in Nat
    BY <2>1 DEF TypeInv, ControlInv, Replies
  <2>3. n \in Nonces /\ e \in 1 .. lastEpoch /\ (Lasts(e) => Has(n, e, s))
    <3>1. CASE reply'[q] = reply[q]
      BY <1>5, <2>1, <3>1 DEF Answered, KeepInv, KeptInv
    <3>2. CASE pc[q] \in {"recheck", "mark_committed"} /\ n = call[q].nonce
               /\ e = claim[q].epoch /\ s = claim[q].seq
      <4>1. pc[q] \in AfterInsert /\ pc[q] \in HasClaim
        BY <3>2 DEF AfterInsert, HasClaim
      <4>2. QED
        BY <3>2, <4>1, Holder DEF KeepInv, KeptInv
    <3>3. CASE pc[q] = "find" /\ Stored(claim[q].epoch, claim[q].seq) /\ n = call[q].nonce
               /\ e = claim[q].epoch /\ s = claim[q].seq
      <4>1. pc[q] \in HasClaim
        BY <3>3 DEF HasClaim
      <4>2. QED
        BY <3>3, <4>1, Holder, FoundIsOwn DEF KeepInv
    <3>4. QED
      BY <1>1, <1>5, <2>1, <3>1, <3>2, <3>3 DEF Answers, Answered
  <2>4. Lasts(e)' => Has(n, e, s)'
    BY <2>2, <2>3, HasStays
  <2>5. QED
    BY <1>2, <2>1, <2>3, <2>4 DEF Lasts, Has
<1>6. ASSUME NEW q \in Procs, pc'[q] \in AfterInsert, Lasts(claim[q].epoch)'
      PROVE  Has(call[q].nonce, claim[q].epoch, claim[q].seq)'
  BY <1>4, <1>6
<1>7. QED
  BY <1>5, <1>6 DEF KeptInv

\* An undo is for an epoch that is over, which stays over.
LEMMA UndoKept ==
  ASSUME TypeInv, TypeInv', KeepInv, [Next]_vars
  PROVE  UndoInv'
<1>1. TableStep /\ \A q \in Procs : Change(q)
  BY Tables, Changes DEF KeepInv
<1>2. ASSUME NEW q \in Procs, pc'[q] \in Undoing
      PROVE  claim'[q].epoch # conv'.epoch
  <2>1. (Same(q) \/ GoesOn(q)) /\ claim'[q] = claim[q]
    BY <1>1, <1>2 DEF Change, Drops, Starts, Takes, Draws, Same, GoesOn, Undoing, HasClaim, Storing
  <2>2. pc[q] \in HasClaim
    BY <1>2, <2>1 DEF Same, GoesOn, Undoing, HasClaim
  <2>3. claim[q].epoch # conv.epoch
    BY <1>2, <2>1 DEF Same, GoesOn, Undoing, KeepInv, UndoInv
  <2>4. claim[q].epoch \in 1 .. lastEpoch /\ lastEpoch \in Nat
    BY <2>2, Holder DEF KeepInv, TypeInv, DataOK
  <2>5. QED
    BY <1>1, <2>1, <2>3, <2>4 DEF TableStep, EpochStep, NoEpoch
<1>3. QED
  BY <1>2 DEF UndoInv, Undoing

\* The sweep deletes only what was over when it filtered.
LEMMA SweepKept ==
  ASSUME TypeInv, TypeInv', KeepInv, [Next]_vars
  PROVE  SweepInv'
<1>1. TableStep
  BY Tables DEF KeepInv
<1>2. lastEpoch \in Nat /\ lastEpoch' \in Nat /\ lastEpoch <= lastEpoch'
  BY <1>1 DEF TypeInv, DataOK, TableStep, EpochStep
<1>3. {m.epoch : m \in msgs} \subseteq 1 .. lastEpoch
  BY <1>2 DEF KeepInv, BindInv, NoEpoch, TypeInv, DataOK, Messages
<1>4. \/ UNCHANGED <<sweepStep, sweepEpochs>>
      \/ sweepEpochs' = {}
      \/ sweepStep' = "filter" /\ sweepEpochs' = {m.epoch : m \in msgs}
      \/ sweepEpochs' = sweepEpochs \ {conv.epoch} /\ conv' = conv
      \/ sweepStep = "drop_orphans" /\ sweepEpochs' \subseteq sweepEpochs
  <2>1. CASE Sweep \/ Tick \/ OwnerDown \/ OwnerUp \/ UNCHANGED vars
    BY <2>1 DEF Sweep, SweepStart, SweepConv, SweepScan, SweepFilter, SweepOrphans,
       SweepScanClaims, SweepNonce, Sweeping, SweepOn, Tick, OwnerDown, OwnerUp, vars, sweep, tables
  <2>2. ASSUME NEW p \in Procs, Begin(p) \/ Step(p) \/ Exit(p)
        PROVE  UNCHANGED <<sweepStep, sweepEpochs>>
    BY <2>2 DEF Begin, Step, Exit, Abort, Die, OpenConversation, CreateMessage, Unavailable,
       EndConversations, Call, Lookup, OpenNew, Rotate, Claim, LookupNonce, Find, DropClaim,
       ResolveInFlight, MarkCommitted, Reclaim, Insert, TouchLookup, TouchLast, TouchCount, Commit,
       Recheck, UndoMessage, UndoNonce, EndConv, EndMessages, sweep
  <2>3. QED
    BY <2>1, <2>2 DEF Next
<1>5. sweepEpochs' \subseteq 1 .. lastEpoch
  BY <1>3, <1>4 DEF KeepInv, SweepInv
<1>6. sweepStep' = "drop_orphans" => conv.epoch \notin sweepEpochs'
  BY <1>4 DEF KeepInv, SweepInv
<1>7. QED
  BY <1>1, <1>2, <1>5, <1>6 DEF TableStep, EpochStep, NoEpoch, SweepInv

\* Every step keeps the invariant.
LEMMA KeepNext ==
  ASSUME TypeInv, TypeInv', KeepInv, [Next]_vars
  PROVE  KeepInv'
BY BindKept, OriginKept, KeptKept, UndoKept, SweepKept DEF KeepInv

\* Messages, answers, undos and the sweep agree with the tables in every state, also when
\* processes die in the middle of a call.
THEOREM KeepInvariant == Spec => [](TypeInv /\ KeepInv)
<1>1. Init => TypeInv /\ KeepInv
  BY TypeInit, KeepInit
<1>2. TypeInv /\ KeepInv /\ [Next]_vars => (TypeInv /\ KeepInv)'
  BY TypeNext, KeepNext
<1>3. QED
  BY <1>1, <1>2, PTL DEF Spec

\* A sender who was told "stored" finds the message in the conversation for as long as
\* its epoch lasts and no reset wipes it: no undo, sweep or retry of another process takes
\* it away, even if the processes of other calls die.
THEOREM AnswersAreKept == Spec => []AnsweredIsKept
<1>1. KeepInv => AnsweredIsKept
  BY DEF KeepInv, KeptInv, Lasts, Has, AnsweredIsKept
<1>2. QED
  BY <1>1, KeepInvariant, PTL

\* No step takes a message out of an epoch that goes on but the one of end_conversations:
\* neither the undo of insert_claimed nor the sweep, which delete by what they read
\* before.
THEOREM MessagesAreKept == Spec => KeptWhileCurrent
<1>1. TypeInv /\ TypeInv' /\ KeepInv /\ [Next]_vars
        => [conv'.epoch = conv.epoch => \A m \in Visible \ msgs' : m.epoch \in wiped']_vars
  <2> SUFFICES ASSUME TypeInv, TypeInv', KeepInv, [Next]_vars, conv'.epoch = conv.epoch,
                      NEW m \in Visible \ msgs'
               PROVE  m.epoch \in wiped'
    OBVIOUS
  <2>1. m \in msgs /\ m.epoch = conv'.epoch
    BY DEF Visible, OfEpoch
  <2>2. QED
    BY <2>1, MessageStays
<1>2. QED
  BY <1>1, KeepInvariant, PTL DEF Spec, KeptWhileCurrent

-----------------------------------------------------------------------------
(* If no process dies in the middle of a call: claims stay with the answers*)

\* A process is storing the message of this number.
Busy(e, s) == \E q \in Procs : pc[q] \in Storing /\ claim[q].epoch = e /\ claim[q].seq = s

\* Whoever stores has drawn its number itself, and everybody who has looked its claim up
\* knows it for the owner; a claim that was seen committed and an answer that was given
\* are of a message that nobody is storing any more.
SettledInv ==
  /\ \A n \in Nonces : nonces[n].state = "none" => nonces[n] = NoClaim
  /\ \A p \in Procs :
       /\ pc[p] \in Storing \cup {"recheck"} => claim[p].owner = p
       /\ pc[p] \in HasClaim /\ claim[p].epoch = conv.epoch =>
            \A q \in Procs : pc[q] \in Storing /\ claim[q].seq = claim[p].seq => claim[p].owner = q
       /\ pc[p] = "find" /\ claim[p].state = "committed" /\ claim[p].epoch = conv.epoch =>
            ~Busy(claim[p].epoch, claim[p].seq)
       /\ Answered(p) /\ reply[p].epoch = conv.epoch =>
            reply[p].seq <= lastSeq /\ ~Busy(reply[p].epoch, reply[p].seq)

\* The empty store
LEMMA SettledInit == Init => SettledInv
BY StepSets DEF Init, SettledInv, NoClaims, NoReply, Answered, Storing

\* A process that stores had its number before the step, or draws the next one.
LEMMA BusyBefore ==
  ASSUME TypeInv, [Next]_vars, \A q \in Procs : Change(q), NEW q \in Procs, pc'[q] \in Storing
  PROVE  \/ pc[q] \in Storing /\ call'[q] = call[q] /\ claim'[q] = claim[q]
         \/ Draws(q) /\ claim'[q].seq = lastSeq + 1 /\ claim'[q].owner = q
<1>1. "find" \notin Storing /\ "lookup" \notin Storing /\ Storing \subseteq HasClaim
  BY DEF Storing, HasClaim
<1>2. CASE Same(q) \/ GoesOn(q)
  BY <1>1, <1>2 DEF Same, GoesOn
<1>3. CASE Drops(q) \/ Starts(q) \/ Takes(q)
  BY <1>1, <1>3 DEF Drops, Starts, Takes
<1>4. CASE Draws(q)
  BY <1>4 DEF Draws, NewClaim
<1>5. QED
  BY <1>2, <1>3, <1>4 DEF Change

\* The row of a nonce is the claim of the process that stores under its number.
LEMMA RowIsBusy ==
  ASSUME TypeInv, OnceInv, OriginInv, NEW n \in Nonces, nonces[n] # NoClaim,
         nonces[n].epoch = conv.epoch, NEW q \in Procs, pc[q] \in Storing,
         claim[q].seq = nonces[n].seq
  PROVE  nonces[n] = claim[q] /\ claim[q].owner = q /\ claim[q].state = "pending"
<1>1. pc[q] \in HasClaim /\ BindInv
  BY StepSets DEF OnceInv
<1>2. nonces[n].seq \in Nat /\ Used(n, nonces[n].seq)
  BY DEF Used, Drawn, TypeInv, DataOK, ClaimRows
<1>3. call[q].nonce = n
  BY <1>1, <1>2, Holder DEF OriginInv
<1>4. claim[q].epoch = conv.epoch
  BY <1>1, <1>3 DEF BindInv
<1>5. QED
  BY <1>3, <1>4 DEF OnceInv, ClaimInv

\* Every step keeps it.
LEMMA SettledNext ==
  ASSUME TypeInv, TypeInv', OnceInv, KeepInv, SettledInv, [Next]_vars
  PROVE  SettledInv'
<1>1. TableStep /\ \A q \in Procs : Change(q) /\ Answers(q)
  BY Tables, Changes, AllAnswers DEF KeepInv
<1>2. lastEpoch \in Nat /\ lastSeq \in Nat /\ lastSeq <= lastSeq' /\ lastSeq' \in Nat
  BY <1>1 DEF TypeInv, DataOK, TableStep, EpochStep
\* An epoch in use that is current was current.
<1>3. \A e \in 1 .. lastEpoch : e = conv'.epoch => e = conv.epoch
  BY <1>1, <1>2 DEF TableStep, EpochStep, NoEpoch
<1>4. \A q \in Procs : pc[q] \in HasClaim =>
        claim[q].seq \in Nat /\ claim[q].seq <= lastSeq /\ claim[q].epoch \in 1 .. lastEpoch
  BY Holder DEF KeepInv
<1>5. Storing \subseteq HasClaim /\ {"find", "lookup", "recheck", "mark_committed"} \cap Storing = {}
      /\ {"find", "recheck", "mark_committed"} \subseteq HasClaim /\ "lookup" \notin HasClaim
  BY DEF Storing, HasClaim
<1>6. ASSUME NEW q \in Procs, pc'[q] \in Storing
      PROVE  \/ pc[q] \in Storing /\ call'[q] = call[q] /\ claim'[q] = claim[q]
             \/ Draws(q) /\ claim'[q].seq = lastSeq + 1 /\ claim'[q].owner = q
  BY <1>1, <1>6, BusyBefore
<1>7. ASSUME NEW n \in Nonces, nonces[n] # NoClaim
      PROVE  nonces[n].seq \in Nat /\ nonces[n].seq <= lastSeq /\ nonces[n].epoch \in 1 .. lastEpoch
  <2>1. nonces[n].seq \in Nat /\ Used(n, nonces[n].seq)
    BY <1>7 DEF Used, Drawn, TypeInv, DataOK, ClaimRows
  <2>2. nonces[n].epoch \in 0 .. lastEpoch /\ nonces[n].epoch # 0
    BY <1>7 DEF KeepInv, BindInv, NoEpoch
  <2>3. QED
    BY <1>2, <2>1, <2>2 DEF KeepInv, OriginInv
<1>8. ASSUME NEW n \in Nonces, nonces'[n].state = "none" PROVE nonces'[n] = NoClaim
  <2>1. CASE nonces'[n] = nonces[n]
    BY <1>8, <2>1 DEF SettledInv
  <2>2. CASE nonces'[n] = [nonces[n] EXCEPT !.state = "committed"]
    BY <1>8, <2>2 DEF TypeInv, DataOK, ClaimRows
  <2>3. ASSUME NEW q \in Procs, Draws(q), call[q].nonce = n PROVE FALSE
    BY <1>8, <2>3 DEF Draws, NewClaim, TypeInv, DataOK
  <2>4. QED
    BY <1>1, <2>1, <2>2, <2>3 DEF TableStep, ClaimStep
<1>9. ASSUME NEW p \in Procs, pc'[p] \in Storing \cup {"recheck"}
      PROVE  claim'[p].owner = p
  <2>1. CASE Same(p) \/ GoesOn(p)
    BY <1>9, <2>1 DEF Same, GoesOn, SettledInv
  <2>2. CASE Drops(p) \/ Starts(p) \/ Takes(p)
    BY <1>5, <1>9, <2>2 DEF Drops, Starts, Takes
  <2>3. CASE Draws(p)
    BY <2>3 DEF Draws, NewClaim
  <2>4. QED
    BY <1>1, <2>1, <2>2, <2>3 DEF Change
<1>10. ASSUME NEW p \in Procs, pc'[p] \in HasClaim, claim'[p].epoch = conv'.epoch,
              NEW q \in Procs, pc'[q] \in Storing, claim'[q].seq = claim'[p].seq
       PROVE  claim'[p].owner = q
  <2>1. CASE (Same(p) \/ GoesOn(p)) /\ pc[p] \in HasClaim
    <3>1. claim'[p] = claim[p] /\ claim[p].epoch = conv.epoch /\ claim[p].seq # lastSeq + 1
      BY <1>2, <1>3, <1>4, <1>10, <2>1 DEF Same, GoesOn
    <3>2. QED
      BY <1>6, <1>10, <2>1, <3>1 DEF SettledInv
  <2>2. CASE Takes(p)
    <3>1. PICK n \in Nonces : n = call[p].nonce
      BY <2>2 DEF Takes, TypeInv, ControlInv, CallInv
    <3>2. nonces[n] # NoClaim /\ claim'[p] = nonces[n] /\ nonces[n].epoch = conv.epoch
          /\ nonces[n].seq # lastSeq + 1
      BY <1>2, <1>3, <1>7, <1>10, <2>2, <3>1 DEF Takes
    <3>3. QED
      BY <1>6, <1>10, <3>2, RowIsBusy DEF KeepInv
  <2>3. CASE Draws(p)
    <3>1. claim'[p].seq = lastSeq + 1 /\ claim'[p].owner = p
      BY <2>3 DEF Draws, NewClaim
    <3>2. CASE q # p
      <4>1. pc[q] \in Storing /\ claim'[q] = claim[q]
        BY <1>10, <2>3, <3>2 DEF Draws, Same
      <4>2. QED
        BY <1>2, <1>4, <1>5, <1>10, <3>1, <4>1
    <3>3. QED
      BY <3>1, <3>2
  <2>4. CASE Drops(p) \/ Starts(p)
    BY <1>5, <1>10, <2>4 DEF Drops, Starts
  <2>5. QED
    BY <1>1, <1>10, <2>1, <2>2, <2>3, <2>4 DEF Change, Same, GoesOn
<1>11. ASSUME NEW p \in Procs, pc'[p] = "find", claim'[p].state = "committed",
              claim'[p].epoch = conv'.epoch,
              NEW q \in Procs, pc'[q] \in Storing, claim'[q].seq = claim'[p].seq
       PROVE  FALSE
  <2>1. CASE Same(p)
    <3>1. pc[p] = "find" /\ claim'[p] = claim[p] /\ claim[p].epoch = conv.epoch
          /\ claim[p].seq # lastSeq + 1
      BY <1>2, <1>3, <1>4, <1>5, <1>11, <2>1 DEF Same
    <3>2. pc[q] \in Storing /\ claim[q].seq = claim[p].seq
      BY <1>6, <1>11, <3>1
    <3>3. claim[q].epoch = claim[p].epoch
      <4>1. Used(call[q].nonce, claim[q].seq) /\ Used(call[p].nonce, claim[p].seq)
        BY <1>5, <3>1, <3>2 DEF Used, Drawn
      <4>2. call[q].nonce = call[p].nonce
        BY <1>5, <3>1, <3>2, <4>1, Holder DEF KeepInv, OriginInv
      <4>3. QED
        BY <1>5, <3>1, <3>2, <4>2 DEF KeepInv, BindInv
    <3>4. QED
      BY <1>11, <3>1, <3>2, <3>3 DEF SettledInv, Busy
  <2>2. CASE Takes(p)
    <3>1. PICK n \in Nonces : n = call[p].nonce
      BY <2>2 DEF Takes, TypeInv, ControlInv, CallInv
    <3>2. nonces[n] # NoClaim /\ claim'[p] = nonces[n] /\ nonces[n].epoch = conv.epoch
          /\ nonces[n].seq # lastSeq + 1
      BY <1>2, <1>3, <1>7, <1>11, <2>2, <3>1 DEF Takes
    <3>3. nonces[n] = claim[q] /\ claim[q].state = "pending"
      BY <1>6, <1>11, <3>2, RowIsBusy DEF KeepInv
    <3>4. QED
      BY <1>11, <3>2, <3>3
  <2>3. CASE Drops(p) \/ Starts(p) \/ Draws(p) \/ GoesOn(p)
    BY <1>5, <1>11, <2>3 DEF Drops, Starts, Draws, GoesOn
  <2>4. QED
    BY <1>1, <2>1, <2>2, <2>3 DEF Change
<1>12. ASSUME NEW p \in Procs, Answered(p)', reply'[p].epoch = conv'.epoch
       PROVE  /\ reply'[p].seq <= lastSeq
              /\ \A q \in Procs : ~(pc'[q] \in Storing /\ claim'[q].epoch = reply'[p].epoch
                                    /\ claim'[q].seq = reply'[p].seq)
  <2>1. PICK e, s : e = reply'[p].epoch /\ s = reply'[p].seq
    OBVIOUS
  <2>2. CASE reply'[p] = reply[p]
    <3>1. Answered(p) /\ e \in 1 .. lastEpoch
      BY <1>12, <2>1, <2>2 DEF Answered, KeepInv, KeptInv
    <3>2. e = conv.epoch
      BY <1>3, <1>12, <2>1, <3>1
    <3>3. s <= lastSeq /\ ~Busy(e, s)
      BY <2>1, <2>2, <3>1, <3>2 DEF SettledInv
    <3>4. QED
      BY <1>2, <1>6, <2>1, <3>3 DEF Busy, TypeInv, ControlInv, Replies
  <2>3. CASE /\ pc[p] \in {"recheck", "mark_committed", "find"}
             /\ pc[p] = "mark_committed" => ~OwnerAlive(p)
             /\ pc[p] = "find" => claim[p].state = "committed"
             /\ e = claim[p].epoch /\ s = claim[p].seq
    <3>1. pc[p] \in HasClaim /\ pc[p] \notin Storing
      BY <1>5, <2>3
    <3>2. e = conv.epoch /\ s <= lastSeq /\ s \in Nat
      BY <1>3, <1>4, <1>12, <2>1, <2>3, <3>1
    <3>3. ASSUME NEW q \in Procs, pc[q] \in Storing, claim[q].epoch = e, claim[q].seq = s
          PROVE  FALSE
      <4>1. claim[p].owner = q /\ q # p
        BY <2>3, <3>1, <3>2, <3>3 DEF SettledInv
      <4>2. CASE pc[p] = "recheck"
        BY <4>1, <4>2 DEF SettledInv
      <4>3. CASE pc[p] = "mark_committed"
        <5>1. q \in alive
          BY <1>5, <3>3, StepSets DEF OnceInv, LifeInv
        <5>2. QED
          BY <2>3, <4>1, <4>3, <5>1 DEF OwnerAlive
      <4>4. CASE pc[p] = "find"
        <5>1. ~Busy(claim[p].epoch, claim[p].seq)
          BY <2>3, <3>2, <4>4 DEF SettledInv
        <5>2. QED
          BY <2>3, <3>3, <5>1 DEF Busy
      <4>5. QED
        BY <2>3, <4>2, <4>3, <4>4
    <3>4. QED
      BY <1>2, <1>6, <2>1, <3>2, <3>3 DEF TypeInv, ControlInv, Replies
  <2>4. QED
    BY <1>1, <1>12, <2>1, <2>2, <2>3 DEF Answers, Answered
<1>13. ASSUME NEW p \in Procs, pc'[p] = "find", claim'[p].state = "committed",
              claim'[p].epoch = conv'.epoch
       PROVE  ~Busy(claim[p].epoch, claim[p].seq)'
  BY <1>11, <1>13 DEF Busy
<1>14. ASSUME NEW p \in Procs, Answered(p)', reply'[p].epoch = conv'.epoch
       PROVE  reply'[p].seq <= lastSeq' /\ ~Busy(reply[p].epoch, reply[p].seq)'
  <2>1. reply'[p].seq \in Nat
    BY DEF TypeInv, ControlInv, Replies
  <2>2. QED
    BY <1>2, <1>12, <1>14, <2>1 DEF Busy
<1>15. QED
  BY <1>8, <1>9, <1>10, <1>13, <1>14 DEF SettledInv

\* If no process dies in the middle of a call, the claim on a nonce stays committed under
\* the number its sender was told, for as long as its epoch lasts and no reset wipes it:
\* every later retry of the nonce is answered "duplicate".
THEOREM ClaimsAreKept ==
  ASSUME Mortal = {}
  PROVE  Spec => []AnsweredStaysClaimed
<1>1. Init => TypeInv /\ OnceInv /\ KeepInv /\ SettledInv
  BY TypeInit, OnceInit, KeepInit, SettledInit
<1>2. TypeInv /\ OnceInv /\ KeepInv /\ SettledInv /\ [Next]_vars
        => (TypeInv /\ OnceInv /\ KeepInv /\ SettledInv)'
  BY TypeNext, OnceNext, KeepNext, SettledNext
<1>3. ASSUME TypeInv, OnceInv, KeepInv, SettledInv PROVE AnsweredStaysClaimed
  <2> SUFFICES ASSUME NEW p \in Procs, Answered(p), reply[p].epoch = conv.epoch,
                      conv.epoch \notin wiped
               PROVE  /\ nonces[reply[p].nonce].epoch = reply[p].epoch
                      /\ nonces[reply[p].nonce].seq = reply[p].seq
                      /\ nonces[reply[p].nonce].state = "committed"
    BY DEF AnsweredStaysClaimed
  <2>1. PICK n \in Nonces : n = reply[p].nonce
    BY <1>3 DEF KeepInv, KeptInv
  <2>2. Has(n, reply[p].epoch, reply[p].seq) /\ reply[p].epoch \in 1 .. lastEpoch
    BY <1>3, <2>1 DEF KeepInv, KeptInv, Lasts
  <2>3. nonces[n].epoch = reply[p].epoch /\ nonces[n].seq = reply[p].seq
    BY <1>3, <2>2 DEF Has, OnceInv, ViewInv
  <2>4. nonces[n].state # "pending"
    <3>1. nonces[n].state = "pending" =>
            \E o \in Procs : pc[o] \in Storing /\ claim[o] = nonces[n]
      BY <1>3, <2>3 DEF OnceInv, ClaimInv
    <3>2. ~Busy(reply[p].epoch, reply[p].seq)
      BY <1>3 DEF SettledInv
    <3>3. QED
      BY <2>3, <3>1, <3>2 DEF Busy
  <2>5. nonces[n].state # "none"
    <3>1. nonces[n].epoch # 0
      BY <1>3, <2>2, <2>3 DEF TypeInv, DataOK
    <3>2. QED
      BY <1>3, <3>1 DEF SettledInv, NoClaim, NoEpoch
  <2>6. nonces[n].state \in {"none", "pending", "committed"}
    BY <1>3 DEF TypeInv, DataOK, ClaimRows
  <2>7. QED
    BY <2>1, <2>3, <2>4, <2>5, <2>6
<1>4. QED
  BY <1>1, <1>2, <1>3, PTL DEF Spec

-----------------------------------------------------------------------------
(* The counter of a conversation                                           *)

Touching == {"touch_lookup", "touch_last", "touch_count"}

\* A process that has stored and not yet counted goes on to count, and nothing but counting
\* changes the counter of a conversation that goes on.
LEMMA CountStays ==
  ASSUME Mortal = {}, TypeInv, OnceInv, [Next]_vars, conv.epoch # NoEpoch,
         conv'.epoch = conv.epoch
  PROVE  /\ conv'.count = conv.count \/ \E p \in Procs : TouchCount(p)
         /\ \A q \in Uncounted : TouchCount(q) \/ q \in Uncounted'
<1>1. NoConv.epoch = NoEpoch /\ conv # NoConv /\ up
  BY DEF NoConv, OnceInv, LifeInv
<1>2. ASSUME NEW p \in Procs, Begin(p) \/ Step(p) \/ Exit(p)
      PROVE  conv'.count = conv.count \/ TouchCount(p)
  <2>1. CASE conv' = conv
    BY <2>1
  <2>2. CASE TouchLast(p)
    BY <1>1, <2>2 DEF TouchLast, TypeInv, DataOK, ConvRows
  <2>3. CASE OpenNew(p) \/ Rotate(p)
    <3>1. conv' # conv => conv'.epoch = lastEpoch + 1
      BY <2>3 DEF OpenNew, Rotate, NewConv
    <3>2. conv.epoch \in 0 .. lastEpoch /\ lastEpoch \in Nat
      BY DEF OnceInv, BindInv, TypeInv, DataOK
    <3>3. QED
      BY <3>1, <3>2
  <2>4. CASE EndConv(p)
    BY <1>1, <2>4 DEF EndConv
  <2>5. QED
    BY <1>2, <2>1, <2>2, <2>3, <2>4 DEF Begin, Step, Exit, Abort, Die, OpenConversation,
       CreateMessage, Unavailable, EndConversations, Call, Lookup, Claim, LookupNonce, Find,
       DropClaim, ResolveInFlight, MarkCommitted, Reclaim, Insert, TouchLookup, Commit, Recheck,
       UndoMessage, UndoNonce, EndMessages, tables
<1>3. CASE Sweep \/ Tick \/ OwnerDown \/ OwnerUp \/ UNCHANGED vars
  <2>1. conv' \in {conv, NoConv}
    BY <1>3 DEF Sweep, SweepStart, SweepConv, SweepScan, SweepFilter, SweepOrphans,
       SweepScanClaims, SweepNonce, Tick, OwnerDown, OwnerUp, vars, tables
  <2>2. QED
    BY <1>1, <1>3, <2>1, SystemSame DEF Uncounted
<1>4. ASSUME NEW p \in Procs, Begin(p) \/ Step(p) \/ Exit(p), NEW q \in Uncounted
      PROVE  TouchCount(q) \/ q \in Uncounted'
  <2>1. q \in Procs /\ pc[q] \in Touching /\ call[q].epoch = conv.epoch
    BY DEF Uncounted, Touching
  <2>2. CASE q # p
    BY <1>4, <2>1, <2>2, OthersSame DEF Same, Uncounted, Touching
  <2>3. CASE TouchLookup(q) \/ TouchLast(q)
    BY <2>1, <2>3 DEF TouchLookup, TouchLast, Goto, locals, Uncounted, Touching, TypeInv, ControlInv
  <2>4. ~Begin(q) /\ ~Exit(q) /\ ~Abort(q)
    BY <1>1, <2>1 DEF Begin, Exit, Abort, OpenConversation, CreateMessage, Unavailable,
       EndConversations, Call, Touching
  <2>5. CASE Step(q)
    BY <2>1, <2>3, <2>4, <2>5 DEF Step, Touching, At, Lookup, OpenNew, Rotate, Claim, LookupNonce,
       Find, DropClaim, ResolveInFlight, MarkCommitted, Reclaim, Insert, Commit, Recheck,
       UndoMessage, UndoNonce, EndConv, EndMessages
  <2>6. QED
    BY <1>4, <2>2, <2>4, <2>5
<1>5. QED
  BY <1>2, <1>3, <1>4 DEF Next

\* Two processes do not count, or count and store, in one step.
LEMMA TouchesAlone ==
  ASSUME TypeInv, NEW p \in Procs, Insert(p) \/ TouchCount(p), NEW q \in Procs, TouchCount(q)
  PROVE  q = p /\ ~Insert(p)
<1>1. pc'[p] \in {"touch_lookup", "commit"} /\ pc[p] \in {"insert", "touch_count"}
  BY DEF Insert, TouchCount, At, Goto, TypeInv, ControlInv
<1>2. pc[q] = "touch_count" /\ pc'[q] = "commit"
  BY DEF TouchCount, At, Goto, TypeInv, ControlInv
<1>3. q # p => pc'[q] = pc[q]
  BY DEF Insert, TouchCount, Goto, TypeInv, ControlInv
<1>4. QED
  BY <1>2, <1>3 DEF Insert, At

\* An epoch that begins has no messages.
LEMMA VisibleIsNew ==
  ASSUME TypeInv, TypeInv', KeepInv, BindInv', [Next]_vars,
         conv'.epoch # conv.epoch \/ conv'.epoch = NoEpoch
  PROVE  Visible' = {}
<1>1. TableStep
  BY Tables DEF KeepInv
<1>2. SUFFICES ASSUME NEW m \in msgs', m.epoch = conv'.epoch PROVE FALSE
  BY DEF Visible, OfEpoch
<1>3. m.epoch # NoEpoch
  BY DEF BindInv
<1>4. conv'.epoch = lastEpoch + 1 /\ conv' # conv
  BY <1>1, <1>2, <1>3 DEF TableStep, EpochStep
<1>5. m \in msgs
  BY <1>1, <1>4 DEF TableStep, MessageStep, Insert
<1>6. m.epoch \in 0 .. lastEpoch /\ lastEpoch \in Nat
  BY <1>5 DEF KeepInv, BindInv, TypeInv, DataOK, Messages
<1>7. QED
  BY <1>2, <1>4, <1>6

CountInv == IsFiniteSet(msgs) /\ CountCovers

\* The empty store
LEMMA CountInit == Init => CountInv
<1> SUFFICES ASSUME Init PROVE CountInv
  OBVIOUS
<1>1. msgs = {} /\ Visible = {} /\ Uncounted = {} /\ conv.count = 0
  BY DEF Init, NoConv, Visible, Uncounted
<1>2. QED
  BY <1>1, FS_EmptySet DEF CountInv, CountCovers

\* A message is added by a process that then counts it; the counter grows by one when a
\* process has counted.
LEMMA CountNext ==
  ASSUME Mortal = {}, TypeInv, TypeInv', OnceInv, OnceInv', KeepInv, CountInv, [Next]_vars
  PROVE  CountInv'
<1>1. TableStep
  BY Tables DEF KeepInv
<1>2. ASSUME NEW p \in Procs, Insert(p)
      PROVE  msgs' = msgs \cup {MessageOf(p)} /\ conv' = conv
  BY <1>2 DEF Insert, MessageOf
<1>4. IsFiniteSet(msgs')
  <2>1. \/ msgs' \subseteq msgs
        \/ \E p \in Procs : msgs' = msgs \cup {MessageOf(p)}
    BY <1>1, <1>2 DEF TableStep, MessageStep
  <2>2. IsFiniteSet(msgs)
    BY DEF CountInv
  <2>3. QED
    BY <2>1, <2>2, FS_Subset, FS_AddElement
<1>5. /\ IsFiniteSet(Visible) /\ IsFiniteSet(Visible') /\ IsFiniteSet(Uncounted) /\ IsFiniteSet(Uncounted')
      /\ Cardinality(Visible) \in Nat /\ Cardinality(Visible') \in Nat
      /\ Cardinality(Uncounted) \in Nat /\ Cardinality(Uncounted') \in Nat
      /\ conv.count \in Nat /\ conv'.count \in Nat
      /\ Uncounted \subseteq Procs
  <2>1. Visible \subseteq msgs /\ Visible' \subseteq msgs' /\ Uncounted \subseteq Procs /\ Uncounted' \subseteq Procs
    BY DEF Visible, OfEpoch, Uncounted
  <2>2. IsFiniteSet(Visible) /\ IsFiniteSet(Visible') /\ IsFiniteSet(Uncounted) /\ IsFiniteSet(Uncounted')
    BY <1>4, <2>1, FS_Subset, ConstantsAssumption DEF CountInv
  <2>3. conv.count \in Nat /\ conv'.count \in Nat
    BY DEF TypeInv, DataOK, ConvRows
  <2>4. QED
    BY <2>1, <2>2, <2>3, FS_CardinalityType
<1>6. CASE conv'.epoch # conv.epoch \/ conv'.epoch = NoEpoch
  <2>1. Visible' = {}
    BY <1>6, VisibleIsNew DEF OnceInv
  <2>2. QED
    BY <1>4, <1>5, <2>1, FS_EmptySet DEF CountInv, CountCovers
<1>7. CASE conv'.epoch = conv.epoch /\ conv.epoch # NoEpoch
  <2>1. /\ conv'.count = conv.count \/ \E p \in Procs : TouchCount(p)
        /\ \A q \in Uncounted : TouchCount(q) \/ q \in Uncounted'
    BY <1>7, CountStays
  <2>2. Visible = OfEpoch(conv.epoch) /\ Visible' = {m \in msgs' : m.epoch = conv.epoch}
    BY <1>7 DEF Visible, OfEpoch, NoConv
  <2>3. ASSUME NEW p \in Procs, Insert(p) PROVE CountCovers'
    <3>1. \A q \in Procs : ~TouchCount(q)
      BY <2>3, OthersSame, TouchesAlone DEF Step
    <3>2. Uncounted \subseteq Uncounted' /\ conv'.count = conv.count
      BY <1>5, <2>1, <3>1
    <3>3. CASE claim[p].epoch # conv.epoch
      <4>1. Visible' \subseteq Visible
        BY <1>2, <2>2, <2>3, <3>3 DEF OfEpoch, MessageOf
      <4>2. QED
        BY <1>5, <3>2, <4>1, FS_Subset DEF CountInv, CountCovers
    <3>4. CASE claim[p].epoch = conv.epoch
      <4>1. Visible' \subseteq Visible \cup {MessageOf(p)}
        BY <1>2, <2>2, <2>3 DEF OfEpoch
      <4>2. p \in Uncounted' /\ p \notin Uncounted
        <5>1. pc[p] = "insert" /\ pc'[p] = "touch_lookup" /\ call'[p] = call[p]
          BY <2>3 DEF Insert, At, Goto, locals, TypeInv, ControlInv
        <5>2. call[p].epoch = claim[p].epoch
          BY <5>1, StepSets DEF OnceInv, BindInv, TypeInv, ControlInv, CallInv, Storing
        <5>3. QED
          BY <1>7, <3>4, <5>1, <5>2 DEF Uncounted
      <4>3. Cardinality(Visible') <= Cardinality(Visible) + 1
        <5>1. IsFiniteSet(Visible \cup {MessageOf(p)})
              /\ Cardinality(Visible \cup {MessageOf(p)}) \in {Cardinality(Visible), Cardinality(Visible) + 1}
          BY <1>5, FS_AddElement
        <5>2. Cardinality(Visible') <= Cardinality(Visible \cup {MessageOf(p)})
          BY <4>1, <5>1, FS_Subset
        <5>3. QED
          BY <1>5, <5>1, <5>2
      <4>4. Cardinality(Uncounted') >= Cardinality(Uncounted) + 1
        <5>1. IsFiniteSet(Uncounted \cup {p}) /\ Cardinality(Uncounted \cup {p}) = Cardinality(Uncounted) + 1
          BY <1>5, <4>2, FS_AddElement
        <5>2. Uncounted \cup {p} \subseteq Uncounted'
          BY <3>2, <4>2
        <5>3. Cardinality(Uncounted \cup {p}) <= Cardinality(Uncounted')
          BY <1>5, <5>2, FS_Subset
        <5>4. QED
          BY <1>5, <5>1, <5>3
      <4>5. QED
        BY <1>5, <3>2, <4>3, <4>4 DEF CountInv, CountCovers
    <3>5. QED
      BY <3>3, <3>4
  <2>4. CASE \A p \in Procs : ~Insert(p)
    <3>1. Visible' \subseteq Visible
      BY <1>1, <2>2, <2>4 DEF OfEpoch, TableStep, MessageStep
    <3>2. Cardinality(Visible') <= Cardinality(Visible)
      BY <1>5, <3>1, FS_Subset
    <3>3. ASSUME NEW p \in Procs, TouchCount(p) PROVE CountCovers'
      <4>1. conv'.count = conv.count + 1
        BY <1>7, <3>3 DEF TouchCount, NoConv, TypeInv, DataOK, ConvRows
      <4>2. Uncounted \ {p} \subseteq Uncounted'
        BY <1>5, <2>1, <3>3, TouchesAlone
      <4>3. PICK S : S = Uncounted
        OBVIOUS
      <4>4. IsFiniteSet(S) /\ IsFiniteSet(S \ {p})
        BY <1>5, <4>3, FS_Subset
      <4>5. Cardinality(S \ {p}) = IF p \in S THEN Cardinality(S) - 1 ELSE Cardinality(S)
        BY <4>4, FS_RemoveElement
      <4>6. Cardinality(S \ {p}) \in Nat /\ Cardinality(S \ {p}) <= Cardinality(Uncounted')
        BY <1>5, <4>2, <4>3, <4>4, FS_Subset, FS_CardinalityType
      <4>7. QED
        BY <1>5, <3>2, <4>1, <4>3, <4>5, <4>6 DEF CountInv, CountCovers
    <3>4. CASE \A p \in Procs : ~TouchCount(p)
      <4>1. Uncounted \subseteq Uncounted' /\ conv'.count = conv.count
        BY <1>5, <2>1, <3>4
      <4>2. Cardinality(Uncounted) <= Cardinality(Uncounted')
        BY <1>5, <4>1, FS_Subset
      <4>3. QED
        BY <1>4, <1>5, <3>2, <4>1, <4>2 DEF CountInv, CountCovers
    <3>5. QED
      BY <1>4, <3>3, <3>4 DEF CountInv
  <2>5. QED
    BY <1>4, <2>3, <2>4 DEF CountInv
<1>8. QED
  BY <1>6, <1>7

\* If no process dies in the middle of a call, the counter that makes a conversation rotate
\* lags behind what is stored by no more than the calls that are about to count:
\* concurrent senders lose no increment.
THEOREM CounterCovers ==
  ASSUME Mortal = {}
  PROVE  Spec => []CountCovers
<1>1. Init => TypeInv /\ OnceInv /\ KeepInv /\ CountInv
  BY TypeInit, OnceInit, KeepInit, CountInit
<1>2. TypeInv /\ OnceInv /\ KeepInv /\ CountInv /\ [Next]_vars
        => (TypeInv /\ OnceInv /\ KeepInv /\ CountInv)'
  BY TypeNext, OnceNext, KeepNext, CountNext
<1>3. CountInv => CountCovers
  BY DEF CountInv
<1>4. QED
  BY <1>1, <1>2, <1>3, PTL DEF Spec

-----------------------------------------------------------------------------
(* The store implements the conversation                                   *)

\* The empty store is the conversation that has not begun.
LEMMA LogInit == Init => Log!Init
BY DEF Init, Log!Init, Visible, NoConv, NoEpoch, NoReply

\* The log of an epoch that goes on is what it was but for a reset and a new message.
LEMMA LogStays ==
  ASSUME TypeInv, TypeInv', KeepInv, [Next]_vars, conv'.epoch = conv.epoch,
         \A q \in Procs : ~EndMessages(q) /\ ~Insert(q)
  PROVE  Visible' = Visible
<1>1. TableStep /\ \A m \in msgs : m.epoch # NoEpoch
  BY Tables DEF KeepInv, BindInv
<1>2. NoConv.epoch = NoEpoch
  BY DEF NoConv
<1>3. msgs' \subseteq msgs
  BY <1>1 DEF TableStep, MessageStep
<1>4. ASSUME NEW m \in msgs, m.epoch = conv.epoch PROVE m \in msgs'
  <2>1. conv' # NoConv
    BY <1>1, <1>2, <1>4
  <2>2. ~(\E q \in Procs : pc[q] = "undo_message" /\ m.epoch = claim[q].epoch)
    BY <1>4 DEF KeepInv, UndoInv
  <2>3. ~(sweepStep = "drop_orphans" /\ m.epoch \in sweepEpochs)
    BY <1>4 DEF KeepInv, SweepInv
  <2>4. QED
    BY <1>1, <2>1, <2>2, <2>3 DEF TableStep, MessageStep
<1>5. QED
  BY <1>1, <1>2, <1>3, <1>4 DEF Visible, OfEpoch

\* Every step turns, clears or extends the log, or leaves it alone.
LEMMA LogStep ==
  ASSUME TypeInv, TypeInv', OnceInv, OnceInv', KeepInv, [Next]_vars
  PROVE  Log!Turn \/ Log!Store \/ Log!Clear \/ UNCHANGED <<conv.epoch, Visible, wiped>>
<1>1. TableStep /\ \A m \in msgs : m.epoch # NoEpoch
  BY Tables DEF KeepInv, BindInv
<1>2. NoConv.epoch = NoEpoch /\ NoEpoch = 0
  BY DEF NoConv, NoEpoch
<1>3. CASE conv'.epoch # conv.epoch
  <2>1. Visible' = {}
    BY <1>3, VisibleIsNew DEF OnceInv
  <2>2. wiped' = wiped
    BY <1>1, <1>3 DEF TableStep, EpochStep, EndMessages
  <2>3. QED
    BY <1>3, <2>1, <2>2 DEF Log!Turn
<1>4. ASSUME NEW p \in Procs, EndMessages(p)
      PROVE  Log!Clear
  <2>1. PICK e : e = row[p].epoch
    OBVIOUS
  <2>2. conv' = conv /\ msgs' = msgs \ OfEpoch(e) /\ wiped' = wiped \cup {e}
    BY <1>4, <2>1 DEF EndMessages
  <2>3. Visible' = IF e = conv.epoch THEN {} ELSE Visible
    BY <1>1, <1>2, <2>2 DEF Visible, OfEpoch
  <2>4. QED
    BY <2>2, <2>3 DEF Log!Clear
<1>5. ASSUME NEW p \in Procs, Insert(p)
      PROVE  Log!Store \/ UNCHANGED <<conv.epoch, Visible, wiped>>
  <2>1. /\ pc[p] = "insert" /\ conv' = conv /\ wiped' = wiped
        /\ msgs' = msgs \cup {MessageOf(p)}
    BY <1>5 DEF Insert, At, MessageOf
  <2>2. pc[p] \in Storing /\ pc[p] \in HasClaim
    BY <2>1 DEF Storing, HasClaim
  <2>3. /\ claim[p].epoch # 0 /\ call[p].nonce \in Nonces
        /\ MessageOf(p).epoch = claim[p].epoch /\ MessageOf(p).seq = claim[p].seq
        /\ MessageOf(p).nonce = call[p].nonce
    BY <2>2, ClaimHolder DEF MessageOf, TypeInv, DataOK
  <2>4. CASE claim[p].epoch # conv.epoch
    BY <2>1, <2>3, <2>4 DEF Visible, OfEpoch
  <2>5. CASE claim[p].epoch = conv.epoch
    <3>1. Visible = OfEpoch(conv.epoch) /\ Visible' = Visible \cup {MessageOf(p)}
      BY <1>2, <2>1, <2>3, <2>5 DEF Visible, OfEpoch
    <3>2. CASE \A old \in Visible : old.nonce # call[p].nonce
      BY <1>2, <2>1, <2>3, <2>5, <3>1, <3>2 DEF Log!Store
    <3>3. ASSUME NEW old \in Visible, old.nonce = call[p].nonce PROVE Visible' = Visible
      <4>1. nonces[old.nonce] = claim[p]
        BY <2>2, <2>5, <3>3 DEF OnceInv, ClaimInv
      <4>2. old \in msgs /\ old.epoch = conv.epoch
        BY <3>1 DEF OfEpoch
      <4>3. old.seq = claim[p].seq /\ old \in Messages
        BY <4>1, <4>2 DEF OnceInv, ViewInv, TypeInv, DataOK
      <4>4. old = MessageOf(p)
        BY <2>5, <3>3, <4>2, <4>3 DEF Messages, MessageOf
      <4>5. QED
        BY <3>1, <4>4
    <3>4. QED
      BY <2>1, <3>2, <3>3
  <2>6. QED
    BY <2>4, <2>5
<1>6. CASE conv'.epoch = conv.epoch /\ \A q \in Procs : ~EndMessages(q) /\ ~Insert(q)
  <2>1. wiped' = wiped
    BY <1>1, <1>6 DEF TableStep, EpochStep
  <2>2. QED
    BY <1>6, <2>1, LogStays
<1>7. QED
  BY <1>3, <1>4, <1>5, <1>6

\* Every answer is truthful: who says "stored" has the message in the log.
LEMMA LogAnswer ==
  ASSUME TypeInv, TypeInv', KeepInv, [Next]_vars
  PROVE  Log!Answer \/ UNCHANGED reply
<1>1. ASSUME NEW p \in Procs, Begin(p) \/ Step(p) \/ Exit(p)
      PROVE  Log!Answer
  <2>1. Answers(p)
    BY AllAnswers
  <2>2. PICK r : r = reply'[p]
    OBVIOUS
  <2>3. reply' = [reply EXCEPT ![p] = reply'[p]]
    BY <1>1, OthersSame DEF TypeInv, ControlInv
  <2>4. CASE r = reply[p]
    <3>1. \A m \in msgs : m.epoch = conv.epoch => m \in Visible
      BY DEF Visible, OfEpoch, KeepInv, BindInv, NoConv
    <3>2. Log!Truthful(r)
      BY <2>4, <3>1 DEF Log!Truthful, KeepInv, KeptInv, Answered, Lasts, Has
    <3>3. QED
      BY <2>2, <2>3, <3>2 DEF Log!Answer
  <2>5. CASE r.kind \notin {"ok", "duplicate"}
    BY <2>2, <2>3, <2>5 DEF Log!Answer, Log!Truthful
  <2>6. CASE /\ pc[p] \in AfterInsert \/ (pc[p] = "find" /\ Stored(claim[p].epoch, claim[p].seq))
             /\ r.nonce = call[p].nonce /\ r.epoch = claim[p].epoch /\ r.seq = claim[p].seq
    <3>1. \A m \in msgs : m.epoch = conv.epoch => m \in Visible
      BY DEF Visible, OfEpoch, KeepInv, BindInv, NoConv
    <3>2. Lasts(r.epoch) => Has(r.nonce, r.epoch, r.seq)
      BY <2>6, FoundIsOwn DEF KeepInv, KeptInv
    <3>3. Log!Truthful(r)
      BY <3>1, <3>2 DEF Log!Truthful, Lasts, Has
    <3>4. QED
      BY <2>2, <2>3, <3>3 DEF Log!Answer
  <2>7. QED
    BY <2>1, <2>2, <2>4, <2>5, <2>6 DEF Answers, AfterInsert
<1>2. CASE Sweep \/ Tick \/ OwnerDown \/ OwnerUp \/ UNCHANGED vars
  BY <1>2, SystemSame
<1>3. QED
  BY <1>1, <1>2 DEF Next

\* If no process dies in the middle of a call, the store of ETS tables, claims, undos and
\* sweeps implements the conversation that its members are promised: one log in each
\* epoch, which a nonce enters at most once, which loses nothing but by the end of the
\* epoch or a reset, and about which every answer is true.
THEOREM StoreImplementsConversation ==
  ASSUME Mortal = {}
  PROVE  Spec => ImplementsConversation
<1>1. Init => TypeInv /\ OnceInv /\ KeepInv
  BY TypeInit, OnceInit, KeepInit
<1>2. TypeInv /\ OnceInv /\ KeepInv /\ [Next]_vars => (TypeInv /\ OnceInv /\ KeepInv)'
  BY TypeNext, OnceNext, KeepNext
<1>3. ASSUME TypeInv, TypeInv', OnceInv, OnceInv', KeepInv, [Next]_vars
      PROVE  [Log!Next]_Log!vars
  <2>1. Log!Turn \/ Log!Store \/ Log!Clear \/ UNCHANGED <<conv.epoch, Visible, wiped>>
    BY <1>3, LogStep
  <2>2. Log!Answer \/ UNCHANGED reply
    BY <1>3, LogAnswer
  <2>3. QED
    BY <2>1, <2>2 DEF Log!Next, Log!vars
<1>4. QED
  BY <1>1, <1>2, <1>3, LogInit, PTL DEF Spec, Log!Spec, ImplementsConversation
=============================================================================
