--------------------------- MODULE ChatStoreProofs ---------------------------
(***************************************************************************)
(* Theorems about ChatStore, for any number of processes, nonces, epochs   *)
(* and retries.                                                            *)
(***************************************************************************)
EXTENDS ChatStore, TLAPS

CreateSteps ==
  {"claim", "lookup_nonce", "find", "drop_claim", "mark_committed", "reclaim",
   "insert", "touch_lookup", "touch_last", "touch_count", "commit", "recheck",
   "undo_message", "undo_nonce"}

\* What a step relies on: only create_message claims a nonce, do_open rotates only with
\* a retry left, and only a pending claim is taken over.
CallInv ==
  \A p \in Procs :
    /\ pc[p] \in CreateSteps => call[p].op = "create"
    /\ call[p].op = "create" => call[p].nonce \in Nonces
    /\ pc[p] = "rotate" => tries[p] > 0
    /\ pc[p] = "reclaim" => claim[p].state = "pending"

LocalsOK ==
  /\ call \in [Procs -> Calls]
  /\ tries \in [Procs -> 0 .. MaxRetries]
  /\ row \in [Procs -> ConvRows]
  /\ claim \in [Procs -> ClaimRows]

ControlInv ==
  /\ pc \in [Procs -> Steps]
  /\ LocalsOK
  /\ reply \in [Procs -> Replies]
  /\ CallInv

DataOK ==
  /\ conv \in ConvRows
  /\ msgs \subseteq Messages
  /\ nonces \in [Nonces -> ClaimRows]
  /\ lastEpoch \in Nat /\ lastSeq \in Nat
  /\ wiped \subseteq Nat

WorldOK ==
  /\ up \in BOOLEAN
  /\ clock \in Nat /\ resets \in Nat /\ crashes \in Nat
  /\ alive \subseteq Procs
  /\ bound \in [Nonces -> Nat]

SweepOK ==
  /\ sweepStep \in SweepSteps
  /\ sweepRow \in ConvRows
  /\ sweepEpochs \subseteq Nat
  /\ sweepClaims \in [Nonces -> ClaimRows]

TypeInv == DataOK /\ WorldOK /\ SweepOK /\ ControlInv

\* The invariant that is proved implies the one that is checked.
LEMMA TypeInvTypeOK == TypeInv => TypeOK
  BY DEF TypeInv, TypeOK, DataOK, WorldOK, SweepOK, ControlInv, LocalsOK

\* The empty rows, calls and replies have their types.
LEMMA RowTypes ==
  /\ NoConv \in ConvRows
  /\ NoClaim \in ClaimRows
  /\ NoCall \in Calls
  /\ NoReply \in Replies
  /\ NoClaims \in [Nonces -> ClaimRows]
  /\ NoCall.op = "open"
<1>1. NoConv \in ConvRows /\ NoClaim \in ClaimRows
  BY DEF NoConv, ConvRows, NoClaim, ClaimRows, NoEpoch
<1>2. NoCall \in Calls /\ NoReply \in Replies /\ NoCall.op = "open"
  BY DEF NoCall, Calls, NoReply, Replies, Ops, Kinds, NoEpoch
<1>3. QED
  BY <1>1, <1>2 DEF NoClaims

-----------------------------------------------------------------------------
(* What the control operators preserve                                     *)

\* Setting the locals of one process keeps their types.
LEMMA LocalsTyped ==
  ASSUME LocalsOK, NEW p \in Procs, NEW c \in Calls, NEW t \in 0 .. MaxRetries,
         NEW r \in ConvRows, NEW k \in ClaimRows, Locals(p, c, t, r, k)
  PROVE  LocalsOK'
  BY DEF LocalsOK, Locals

\* A step to s that keeps the locals.
LEMMA GotoControl ==
  ASSUME ControlInv, NEW p \in Procs, NEW s \in Steps, Goto(p, s), UNCHANGED locals,
         s \in CreateSteps => call[p].op = "create",
         s = "rotate" => tries[p] > 0,
         s = "reclaim" => claim[p].state = "pending"
  PROVE  ControlInv'
  BY DEF ControlInv, CallInv, Goto, LocalsOK, locals

\* A step to s that keeps the call and sets the other locals.
LEMMA LocalsControl ==
  ASSUME ControlInv, NEW p \in Procs, NEW s \in Steps, Goto(p, s),
         NEW t \in 0 .. MaxRetries, NEW r \in ConvRows, NEW k \in ClaimRows,
         Locals(p, call[p], t, r, k),
         s \in CreateSteps => call[p].op = "create",
         s = "rotate" => t > 0,
         s = "reclaim" => k.state = "pending"
  PROVE  ControlInv'
<1>1. LocalsOK'
  BY LocalsTyped DEF ControlInv, LocalsOK
<1>2. CallInv'
  BY DEF ControlInv, CallInv, Goto, Locals, LocalsOK
<1>3. QED
  BY <1>1, <1>2 DEF ControlInv, Goto

\* A call that returns leaves its process idle and well typed.
LEMMA ReturnControl ==
  ASSUME ControlInv, NEW p \in Procs, NEW k \in Kinds, NEW e \in Nat, NEW s \in Nat,
         Return(p, k, e, s)
  PROVE  ControlInv'
<1>1. call[p].nonce \in Nonces \cup {None}
  BY DEF ControlInv, LocalsOK, Calls
<1>2. reply' \in [Procs -> Replies]
  BY <1>1 DEF ControlInv, Return, Replies
<1>3. LocalsOK'
  BY RowTypes, LocalsTyped, ConstantsAssumption DEF ControlInv, Return
<1>4. pc' \in [Procs -> Steps]
  BY DEF ControlInv, Return, Steps
<1>5. CallInv'
  BY RowTypes DEF ControlInv, CallInv, Return, Locals, CreateSteps, LocalsOK
<1>6. QED
  BY <1>2, <1>3, <1>4, <1>5 DEF ControlInv

\* What follows do_open.
LEMMA OpenedControl ==
  ASSUME ControlInv, NEW p \in Procs, NEW e \in Nat, Opened(p, e)
  PROVE  ControlInv'
<1>1. CASE Return(p, "epoch", e, 0)
  BY <1>1, ReturnControl DEF Kinds
<1>2. CASE Return(p, "stale_epoch", e, 0)
  BY <1>2, ReturnControl DEF Kinds
<1>3. CASE /\ call[p].op = "create"
           /\ Goto(p, "claim")
           /\ Locals(p, call[p], MaxRetries, NoConv, NoClaim)
  BY <1>3, LocalsControl, RowTypes, ConstantsAssumption DEF Steps
<1>4. QED
  BY <1>1, <1>2, <1>3 DEF Opened

\* do_open is retried only while retries are left, so their number stays a number.
LEMMA OpenAgainControl ==
  ASSUME ControlInv, NEW p \in Procs, tries[p] > 0, OpenAgain(p)
  PROVE  ControlInv'
<1>1. tries[p] - 1 \in 0 .. MaxRetries
  BY ConstantsAssumption DEF ControlInv, LocalsOK
<1>2. "lookup" \in Steps /\ "lookup" \notin CreateSteps
  BY DEF Steps, CreateSteps
<1>3. QED
  BY <1>1, <1>2, LocalsControl, RowTypes DEF OpenAgain

\* claim_and_insert is retried, or gives up with in_flight.
LEMMA ClaimAgainControl ==
  ASSUME ControlInv, NEW p \in Procs, call[p].op = "create", ClaimAgain(p)
  PROVE  ControlInv'
<1>1. CASE Return(p, "in_flight", NoEpoch, 0)
  BY <1>1, ReturnControl DEF Kinds, NoEpoch
<1>2. CASE /\ tries[p] > 0
           /\ Goto(p, "claim")
           /\ Locals(p, call[p], tries[p] - 1, NoConv, NoClaim)
  <2>1. tries[p] - 1 \in 0 .. MaxRetries
    BY <1>2, ConstantsAssumption DEF ControlInv, LocalsOK
  <2>2. QED
    BY <1>2, <2>1, LocalsControl, RowTypes DEF Steps
<1>3. QED
  BY <1>1, <1>2 DEF ClaimAgain

-----------------------------------------------------------------------------
(* Type correctness                                                        *)

\* The tables start empty and every process idle.
LEMMA TypeInit == Init => TypeInv
<1> SUFFICES ASSUME Init PROVE TypeInv
  OBVIOUS
<1>1. DataOK /\ WorldOK
  BY RowTypes DEF Init, DataOK, WorldOK, NoEpoch, NoClaims
<1>2. SweepOK
  BY RowTypes DEF Init, SweepOK, SweepSteps
<1>3. LocalsOK /\ CallInv
  BY RowTypes, ConstantsAssumption DEF Init, LocalsOK, CallInv, CreateSteps
<1>4. ControlInv
  BY RowTypes, <1>3 DEF Init, ControlInv, Steps
<1>5. QED
  BY <1>1, <1>2, <1>4 DEF TypeInv

\* The steps of open_conversation and of the first half of create_message
LEMMA TypeOpen ==
  ASSUME TypeInv, NEW p \in Procs, Lookup(p) \/ OpenNew(p) \/ Rotate(p)
  PROVE  TypeInv'
<1> USE DEF TypeInv
<1>1. WorldOK' /\ SweepOK'
  BY DEF Lookup, OpenNew, Rotate, world, sweep, WorldOK, SweepOK
<1>2. lastEpoch + 1 \in Nat /\ conv.epoch \in Nat /\ call[p].now \in Nat
  BY DEF DataOK, ConvRows, ControlInv, LocalsOK, Calls
<1>3. NewConv(lastEpoch + 1, call[p].now) \in ConvRows
  BY <1>2 DEF NewConv, ConvRows
<1>4. DataOK'
  BY <1>2, <1>3 DEF Lookup, OpenNew, Rotate, tables, ids, world, DataOK
<1>5. ControlInv'
  <2>1. CASE Lookup(p)
    <3>1. CASE Goto(p, "open_new") /\ UNCHANGED locals
      BY <3>1, GotoControl DEF Steps, CreateSteps
    <3>2. CASE MustRotate(p) /\ Goto(p, "rotate") /\ Locals(p, call[p], tries[p], conv, NoClaim)
      <4>1. tries[p] \in 0 .. MaxRetries /\ tries[p] > 0 /\ conv \in ConvRows
        BY <3>2 DEF MustRotate, ControlInv, LocalsOK, DataOK
      <4>2. QED
        BY <3>2, <4>1, LocalsControl, RowTypes DEF Steps, CreateSteps
    <3>3. CASE Opened(p, conv.epoch)
      BY <3>3, <1>2, OpenedControl
    <3>4. QED
      BY <2>1, <3>1, <3>2, <3>3 DEF Lookup
  <2>2. CASE OpenNew(p)
    BY <2>2, <1>2, OpenedControl, OpenAgainControl DEF OpenNew
  <2>3. CASE Rotate(p)
    <3>1. tries[p] > 0
      BY <2>3 DEF Rotate, At, ControlInv, CallInv
    <3>2. QED
      BY <2>3, <3>1, <1>2, OpenedControl, OpenAgainControl DEF Rotate
  <2>4. QED
    BY <2>1, <2>2, <2>3
<1>6. QED
  BY <1>1, <1>4, <1>5

\* The steps that settle who holds the claim on the nonce
LEMMA TypeClaim ==
  ASSUME TypeInv, NEW p \in Procs,
         \/ Claim(p) \/ LookupNonce(p) \/ Find(p) \/ DropClaim(p)
         \/ ResolveInFlight(p) \/ MarkCommitted(p) \/ Reclaim(p)
  PROVE  TypeInv'
<1> USE DEF TypeInv
<1> DEFINE n == call[p].nonce
<1>1. WorldOK' /\ SweepOK'
  BY DEF Claim, LookupNonce, Find, DropClaim, ResolveInFlight, MarkCommitted, Reclaim,
     world, sweep, WorldOK, SweepOK
<1>2. /\ pc[p] \in CreateSteps /\ call[p].op = "create" /\ n \in Nonces
      /\ nonces[n] \in ClaimRows /\ claim[p] \in ClaimRows /\ tries[p] \in 0 .. MaxRetries
      /\ claim[p].epoch \in Nat /\ claim[p].seq \in Nat
  <2>1. pc[p] \in CreateSteps
    BY DEF Claim, LookupNonce, Find, DropClaim, ResolveInFlight, MarkCommitted, Reclaim,
       At, CreateSteps
  <2>2. call[p].op = "create" /\ n \in Nonces
    BY <2>1 DEF ControlInv, CallInv
  <2>3. claim[p] \in ClaimRows /\ tries[p] \in 0 .. MaxRetries /\ nonces[n] \in ClaimRows
    BY <2>2 DEF ControlInv, LocalsOK, DataOK
  <2>4. QED
    BY <2>1, <2>2, <2>3 DEF ClaimRows
<1>3. NewClaim(p, call[p].epoch) \in ClaimRows
  BY DEF NewClaim, ClaimRows, ControlInv, LocalsOK, Calls, DataOK
<1>4. \A c \in ClaimRows : [c EXCEPT !.state = "committed"] \in ClaimRows
  BY DEF ClaimRows
<1>5. DataOK'
  <2>1. nonces' \in [Nonces -> ClaimRows]
    BY <1>2, <1>3, <1>4, RowTypes
       DEF Claim, LookupNonce, Find, DropClaim, ResolveInFlight, MarkCommitted, Reclaim,
           tables, DataOK
  <2>2. lastSeq' \in Nat
    BY DEF Claim, LookupNonce, Find, DropClaim, ResolveInFlight, MarkCommitted, Reclaim,
           ids, DataOK
  <2>3. QED
    BY <2>1, <2>2
       DEF Claim, LookupNonce, Find, DropClaim, ResolveInFlight, MarkCommitted, Reclaim,
           tables, ids, DataOK
<1>6. ControlInv'
  <2>1. CASE Claim(p)
    BY <2>1, <1>2, <1>3, GotoControl, LocalsControl, RowTypes, ConstantsAssumption
       DEF Claim, Steps
  <2>2. CASE LookupNonce(p)
    BY <2>2, <1>2, ClaimAgainControl, LocalsControl, RowTypes DEF LookupNonce, Steps
  <2>3. CASE Find(p)
    BY <2>3, <1>2, ReturnControl, GotoControl DEF Find, Steps, Kinds
  <2>4. CASE DropClaim(p)
    BY <2>4, <1>2, ClaimAgainControl DEF DropClaim
  <2>5. CASE ResolveInFlight(p)
    BY <2>5, ReturnControl DEF ResolveInFlight, Kinds, NoEpoch
  <2>6. CASE MarkCommitted(p)
    BY <2>6, <1>2, ReturnControl DEF MarkCommitted, Kinds
  <2>7. CASE Reclaim(p)
    BY <2>7, <1>2, <1>3, ClaimAgainControl, LocalsControl, RowTypes, ConstantsAssumption
       DEF Reclaim, Steps
  <2>8. QED
    BY <2>1, <2>2, <2>3, <2>4, <2>5, <2>6, <2>7
<1>7. QED
  BY <1>1, <1>5, <1>6

\* The steps of insert_claimed
LEMMA TypeInsert ==
  ASSUME TypeInv, NEW p \in Procs,
         \/ Insert(p) \/ TouchLookup(p) \/ TouchLast(p) \/ TouchCount(p)
         \/ Commit(p) \/ Recheck(p) \/ UndoMessage(p) \/ UndoNonce(p)
  PROVE  TypeInv'
<1> USE DEF TypeInv
<1> DEFINE n == call[p].nonce
<1>1. WorldOK' /\ SweepOK'
  BY DEF Insert, TouchLookup, TouchLast, TouchCount, Commit, Recheck, UndoMessage, UndoNonce,
     world, sweep, WorldOK, SweepOK
<1>2. /\ pc[p] \in CreateSteps /\ call[p].op = "create" /\ n \in Nonces
      /\ nonces[n] \in ClaimRows /\ claim[p] \in ClaimRows /\ tries[p] \in 0 .. MaxRetries
      /\ claim[p].epoch \in Nat /\ claim[p].seq \in Nat
      /\ conv.epoch \in Nat /\ conv.count + 1 \in Nat /\ call[p].now \in Nat
      /\ row[p].epoch \in Nat
  <2>1. pc[p] \in CreateSteps
    BY DEF Insert, TouchLookup, TouchLast, TouchCount, Commit, Recheck, UndoMessage, UndoNonce,
       At, CreateSteps
  <2>2. call[p].op = "create" /\ n \in Nonces
    BY <2>1 DEF ControlInv, CallInv
  <2>3. claim[p] \in ClaimRows /\ tries[p] \in 0 .. MaxRetries /\ nonces[n] \in ClaimRows
    BY <2>2 DEF ControlInv, LocalsOK, DataOK
  <2>4. conv \in ConvRows /\ row[p] \in ConvRows /\ call[p] \in Calls
    BY DEF ControlInv, LocalsOK, DataOK
  <2>5. QED
    BY <2>1, <2>2, <2>3, <2>4 DEF ClaimRows, ConvRows, Calls
<1>3. DataOK'
  <2>1. conv' \in ConvRows
    BY <1>2 DEF Insert, TouchLookup, TouchLast, TouchCount, Commit, Recheck, UndoMessage,
       UndoNonce, tables, DataOK, ConvRows
  <2>2. msgs' \subseteq Messages
    <3>1. [epoch |-> claim[p].epoch, seq |-> claim[p].seq, nonce |-> n] \in Messages
      BY <1>2 DEF Messages
    <3>2. QED
      BY <3>1 DEF Insert, TouchLookup, TouchLast, TouchCount, Commit, Recheck, UndoMessage,
         UndoNonce, tables, DataOK
  <2>3. nonces' \in [Nonces -> ClaimRows]
    <3>1. [nonces[n] EXCEPT !.state = "committed"] \in ClaimRows
      BY <1>2 DEF ClaimRows
    <3>2. QED
      BY <1>2, <3>1, RowTypes DEF Insert, TouchLookup, TouchLast, TouchCount, Commit, Recheck,
         UndoMessage, UndoNonce, tables, DataOK
  <2>4. QED
    BY <1>2, <2>1, <2>2, <2>3 DEF Insert, TouchLookup, TouchLast, TouchCount, Commit, Recheck,
       UndoMessage, UndoNonce, ids, DataOK
<1>4. ControlInv'
  <2>1. CASE Insert(p) \/ TouchLookup(p) \/ TouchLast(p) \/ TouchCount(p) \/ Commit(p)
             \/ UndoMessage(p)
    BY <2>1, <1>2, GotoControl DEF Insert, TouchLookup, TouchLast, TouchCount, Commit,
       UndoMessage, Steps
  <2>2. CASE Recheck(p)
    <3>1. conv \in ConvRows
      BY DEF DataOK
    <3>2. QED
      BY <2>2, <3>1, <1>2, ReturnControl, LocalsControl DEF Recheck, Steps, Kinds
  <2>3. CASE UndoNonce(p)
    BY <2>3, <1>2, ReturnControl DEF UndoNonce, Kinds
  <2>4. QED
    BY <2>1, <2>2, <2>3
<1>5. QED
  BY <1>1, <1>3, <1>4

\* Calls that begin, the steps of end_conversations, and deaths
LEMMA TypeCalls ==
  ASSUME TypeInv, NEW p \in Procs,
         Begin(p) \/ EndConv(p) \/ EndMessages(p) \/ Exit(p) \/ Abort(p)
  PROVE  TypeInv'
<1> USE DEF TypeInv
<1>1. CASE OpenConversation(p)
  <2>1. [op |-> "open", nonce |-> None, epoch |-> NoEpoch, now |-> clock] \in Calls
    BY DEF Calls, Ops, NoEpoch, WorldOK
  <2>2. LocalsOK'
    BY <1>1, <2>1, LocalsTyped, RowTypes, ConstantsAssumption
       DEF OpenConversation, Call, ControlInv
  <2>3. ControlInv'
    BY <1>1, <2>2, RowTypes DEF OpenConversation, Call, ControlInv, CallInv, Locals, LocalsOK,
       Steps, CreateSteps
  <2>4. QED
    BY <1>1, <2>3 DEF OpenConversation, Call, tables, ids, world, sweep,
       DataOK, WorldOK, SweepOK
<1>2. ASSUME NEW n \in Nonces, CreateMessage(p, n)
      PROVE  TypeInv'
  <2>1. PICK e \in 1 .. lastEpoch : CreateMessage(p, n)!(e)
    BY <1>2 DEF CreateMessage
  <2>2. e \in Nat
    BY DEF DataOK
  <2>3. [op |-> "create", nonce |-> n, epoch |-> e, now |-> clock] \in Calls
    BY <2>2 DEF Calls, Ops, WorldOK
  <2>4. LocalsOK'
    BY <2>1, <2>3, LocalsTyped, RowTypes, ConstantsAssumption DEF Call, ControlInv
  <2>5. ControlInv'
    BY <2>1, <2>4, RowTypes DEF Call, ControlInv, CallInv, Locals, LocalsOK, Steps, CreateSteps
  <2>6. bound' \in [Nonces -> Nat]
    BY <2>1, <2>2 DEF WorldOK
  <2>7. QED
    BY <2>1, <2>5, <2>6 DEF Call, tables, ids, sweep, DataOK, WorldOK, SweepOK
<1>3. CASE Unavailable(p)
  <2>1. ControlInv'
    BY <1>3 DEF Unavailable, ControlInv, CallInv, locals, LocalsOK, Replies, NoReply, Kinds,
       NoEpoch
  <2>2. QED
    BY <1>3, <2>1 DEF Unavailable, tables, ids, world, sweep, DataOK, WorldOK, SweepOK
<1>4. CASE EndConversations(p)
  <2>1. ControlInv'
    <3>1. reply' \in [Procs -> Replies]
      BY <1>4, RowTypes DEF EndConversations, ControlInv, Replies, NoReply, Kinds, NoEpoch
    <3>2. CASE UNCHANGED <<pc, locals>>
      BY <3>1, <3>2 DEF ControlInv, CallInv, locals, LocalsOK
    <3>3. CASE /\ pc' = [pc EXCEPT ![p] = "end_conv"]
               /\ Locals(p, [NoCall EXCEPT !.op = "end"], 0, conv, NoClaim)
      <4>1. [NoCall EXCEPT !.op = "end"] \in Calls /\ conv \in ConvRows
        BY DEF NoCall, Calls, Ops, NoEpoch, DataOK
      <4>2. LocalsOK'
        BY <3>3, <4>1, LocalsTyped, RowTypes, ConstantsAssumption DEF ControlInv
      <4>3. CallInv'
        BY <3>3, <4>1 DEF ControlInv, CallInv, Locals, LocalsOK, CreateSteps, NoCall
      <4>4. QED
        BY <3>1, <3>3, <4>2, <4>3 DEF ControlInv, Steps
    <3>4. QED
      BY <1>4, <3>2, <3>3 DEF EndConversations
  <2>2. WorldOK'
    BY <1>4 DEF EndConversations, WorldOK
  <2>3. QED
    BY <1>4, <2>1, <2>2 DEF EndConversations, tables, ids, sweep, DataOK, SweepOK
<1>5. CASE EndConv(p)
  <2>1. ControlInv'
    BY <1>5, GotoControl DEF EndConv, Steps, CreateSteps
  <2>2. QED
    BY <1>5, <2>1, RowTypes DEF EndConv, ids, world, sweep, DataOK, WorldOK, SweepOK
<1>6. CASE EndMessages(p)
  <2>1. ControlInv'
    BY <1>6, ReturnControl DEF EndMessages, Kinds, NoEpoch
  <2>2. row[p].epoch \in Nat
    BY DEF ControlInv, LocalsOK, ConvRows
  <2>3. QED
    BY <1>6, <2>1, <2>2 DEF EndMessages, ids, world, sweep, DataOK, WorldOK, SweepOK
<1>7. CASE Die(p)
  <2>1. LocalsOK'
    BY <1>7, LocalsTyped, RowTypes, ConstantsAssumption DEF Die, ControlInv
  <2>2. ControlInv'
    BY <1>7, <2>1, RowTypes DEF Die, ControlInv, CallInv, Locals, LocalsOK, Steps, CreateSteps
  <2>3. QED
    BY <1>7, <2>2 DEF Die, tables, ids, sweep, DataOK, WorldOK, SweepOK
<1>8. QED
  BY <1>1, <1>2, <1>3, <1>4, <1>5, <1>6, <1>7 DEF Begin, Exit, Abort

\* The sweep, the clock and the owner of the tables
LEMMA TypeSystem ==
  ASSUME TypeInv, Sweep \/ Tick \/ OwnerDown \/ OwnerUp
  PROVE  TypeInv'
<1> USE DEF TypeInv
<1>1. ControlInv'
  BY DEF Sweep, SweepStart, SweepConv, SweepScan, SweepFilter, SweepOrphans, SweepScanClaims,
     SweepNonce, Tick, OwnerDown, OwnerUp, locals, ControlInv, CallInv, LocalsOK
<1>2. WorldOK'
  <2>1. CASE Sweep
    BY <2>1 DEF Sweep, SweepStart, SweepConv, SweepScan, SweepFilter, SweepOrphans,
       SweepScanClaims, SweepNonce, world, WorldOK
  <2>2. CASE Tick \/ OwnerDown \/ OwnerUp
    <3>1. up' \in BOOLEAN
      BY <2>2, Zenon DEF Tick, OwnerDown, OwnerUp, WorldOK
    <3>2. clock' \in Nat /\ crashes' \in Nat
      BY <2>2 DEF Tick, OwnerDown, OwnerUp, WorldOK
    <3>3. QED
      BY <2>2, <3>1, <3>2, Zenon DEF Tick, OwnerDown, OwnerUp, WorldOK
  <2>3. QED
    BY <2>1, <2>2
<1>3. SweepOK'
  <2>1. {m.epoch : m \in msgs} \subseteq Nat
    BY DEF DataOK, Messages
  <2>2. sweep' = sweep \/ \E s \in SweepSteps, r \in ConvRows, es \in SUBSET Nat,
                             cs \in [Nonces -> ClaimRows] : SweepOn(s, r, es, cs)
    <3>1. CASE SweepStart \/ SweepConv \/ SweepFilter \/ SweepOrphans \/ OwnerDown
      BY <3>1, RowTypes DEF SweepStart, SweepConv, SweepFilter, SweepOrphans, OwnerDown,
         SweepSteps, DataOK, SweepOK
    <3>2. CASE SweepScan
      BY <3>2, <2>1, RowTypes DEF SweepScan, SweepSteps
    <3>3. CASE SweepScanClaims \/ SweepNonce
      BY <3>3, RowTypes DEF SweepScanClaims, SweepNonce, SweepSteps, SweepOK, DataOK
    <3>4. CASE Tick \/ OwnerUp
      BY <3>4 DEF Tick, OwnerUp
    <3>5. QED
      BY <3>1, <3>2, <3>3, <3>4 DEF Sweep
  <2>3. QED
    BY <2>2 DEF SweepOn, sweep, SweepOK
<1>4. DataOK'
  <2>1. nonces' \in [Nonces -> ClaimRows]
    <3>1. \A c \in ClaimRows : Swept(c) \in ClaimRows
      BY RowTypes DEF Swept, ClaimRows
    <3>2. QED
      BY <3>1, RowTypes DEF Sweep, SweepStart, SweepConv, SweepScan, SweepFilter, SweepOrphans,
         SweepScanClaims, SweepNonce, Tick, OwnerDown, OwnerUp, tables, DataOK, SweepOK
  <2>2. QED
    BY <2>1, RowTypes DEF Sweep, SweepStart, SweepConv, SweepScan, SweepFilter, SweepOrphans,
       SweepScanClaims, SweepNonce, Tick, OwnerDown, OwnerUp, tables, ids, DataOK
<1>5. QED
  BY <1>1, <1>2, <1>3, <1>4

\* Every step of the store keeps the types.
LEMMA TypeNext == TypeInv /\ [Next]_vars => TypeInv'
<1> SUFFICES ASSUME TypeInv, [Next]_vars PROVE TypeInv'
  OBVIOUS
<1>1. ASSUME NEW p \in Procs, Begin(p) \/ Step(p) \/ Exit(p) PROVE TypeInv'
  BY <1>1, TypeOpen, TypeClaim, TypeInsert, TypeCalls DEF Step
<1>2. CASE Sweep \/ Tick \/ OwnerDown \/ OwnerUp
  BY <1>2, TypeSystem
<1>3. CASE UNCHANGED vars
  BY <1>3 DEF vars, tables, ids, world, locals, sweep, TypeInv, DataOK, WorldOK,
     SweepOK, ControlInv, CallInv, LocalsOK
<1>4. QED
  BY <1>1, <1>2, <1>3 DEF Next

\* The tables, the world, the sweep and the control of every process are well typed.
THEOREM TypeInvariant == Spec => []TypeInv
<1>1. QED
  BY TypeInit, TypeNext, PTL DEF Spec

\* Every variable, ETS row and local of the store keeps its type: no retry count runs
\* below zero, whatever the interleaving of callers, sweep and deaths.
THEOREM TypeCorrect == Spec => []TypeOK
<1>1. QED
  BY TypeInvariant, TypeInvTypeOK, PTL

-----------------------------------------------------------------------------
(* The inductive invariant of StoredOnce                                   *)

\* From the claim to its commit mark
Storing == {"insert", "touch_lookup", "touch_last", "touch_count", "commit"}

HasClaim == Storing \cup
  {"find", "drop_claim", "mark_committed", "reclaim", "recheck", "undo_message", "undo_nonce"}

\* Everything that carries a nonce carries the epoch the nonce was encrypted for, and
\* no epoch is in use before it is generated.
BindInv ==
  /\ conv.epoch \in 0 .. lastEpoch
  /\ \A n \in Nonces :
       /\ bound[n] \in 0 .. lastEpoch
       /\ nonces[n] # NoClaim => nonces[n].epoch = bound[n] /\ bound[n] # NoEpoch
  /\ \A m \in msgs : m.epoch = bound[m.nonce] /\ m.epoch # NoEpoch
  /\ \A p \in Procs :
       /\ call[p].op = "create" => call[p].epoch = bound[call[p].nonce] /\ call[p].epoch # NoEpoch
       /\ pc[p] \in HasClaim => claim[p].epoch = bound[call[p].nonce]

\* The sequence number s was drawn for nonce n.
Drawn(n, s) ==
  \/ nonces[n] # NoClaim /\ nonces[n].seq = s
  \/ \E p \in Procs : pc[p] \in HasClaim /\ call[p].nonce = n /\ claim[p].seq = s

SeqInv ==
  /\ \A n \in Nonces, s \in Nat : Drawn(n, s) => s <= lastSeq
  /\ \A n, o \in Nonces, s \in Nat : Drawn(n, s) /\ Drawn(o, s) => n = o

\* In the current epoch a pending claim and the process that stores its message go
\* together.
ClaimInv ==
  /\ \A p \in Procs :
       pc[p] \in Storing /\ claim[p].epoch = conv.epoch
         => /\ nonces[call[p].nonce] = claim[p]
            /\ claim[p].state = "pending" /\ claim[p].owner = p
  /\ \A n \in Nonces :
       nonces[n].state = "pending" /\ nonces[n].epoch = conv.epoch
         => LET o == nonces[n].owner
            IN /\ o \in Procs /\ o \in alive
               /\ pc[o] \in Storing /\ call[o].nonce = n /\ claim[o] = nonces[n]

\* A visible message is the one that the claim on its nonce names.
ViewInv ==
  \A m \in msgs :
    m.epoch = conv.epoch
      => nonces[m.nonce].epoch = m.epoch /\ nonces[m.nonce].seq = m.seq

\* Nobody is about to insert the message that a claim looked up as committed names, so
\* that if it is not found it is gone for good.
DropInv ==
  \A p \in Procs :
    /\ pc[p] \in {"find", "drop_claim"} /\ claim[p].state = "committed" /\ claim[p].epoch = conv.epoch
         => \A q \in Procs : pc[q] = "insert" => claim[q].seq # claim[p].seq
    /\ pc[p] = "drop_claim" /\ claim[p].epoch = conv.epoch
         => claim[p].state = "committed" /\ ~Stored(claim[p].epoch, claim[p].seq)

UndoInv ==
  \A p \in Procs : pc[p] \in {"undo_message", "undo_nonce"} => claim[p].epoch # conv.epoch

LifeInv ==
  /\ \A p \in Procs : pc[p] # "idle" => p \in alive
  /\ ~up => conv = NoConv /\ msgs = {} /\ nonces = NoClaims

OnceInv ==
  BindInv /\ SeqInv /\ ClaimInv /\ ViewInv /\ DropInv /\ UndoInv /\ LifeInv

\* How the sets of steps include and exclude each other.
LEMMA StepSets ==
  /\ Storing \subseteq HasClaim /\ HasClaim \subseteq CreateSteps
  /\ {"idle", "lookup", "open_new", "rotate", "claim", "end_conv", "end_messages"} \cap HasClaim = {}
  /\ {"recheck", "undo_message", "undo_nonce", "find", "drop_claim", "mark_committed", "reclaim"}
       \cap Storing = {}
  BY DEF Storing, HasClaim, CreateSteps

\* What a process with a captured or written claim is known to have.
LEMMA ClaimHolder ==
  ASSUME TypeInv, OnceInv, NEW p \in Procs, pc[p] \in HasClaim
  PROVE  /\ call[p].op = "create" /\ call[p].nonce \in Nonces
         /\ claim[p] \in ClaimRows
         /\ claim[p].epoch \in 1 .. lastEpoch
         /\ claim[p].epoch = bound[call[p].nonce]
         /\ claim[p].seq \in Nat /\ claim[p].seq <= lastSeq
<1>1. call[p].op = "create" /\ call[p].nonce \in Nonces /\ claim[p] \in ClaimRows
  BY StepSets DEF TypeInv, ControlInv, CallInv, LocalsOK
<1>2. claim[p].epoch = bound[call[p].nonce] /\ bound[call[p].nonce] # 0
      /\ bound[call[p].nonce] \in 0 .. lastEpoch
  BY <1>1 DEF OnceInv, BindInv, NoEpoch
<1>3. claim[p].epoch \in 1 .. lastEpoch
  BY <1>2 DEF TypeInv, DataOK
<1>4. claim[p].seq \in Nat
  BY <1>1 DEF ClaimRows
<1>5. Drawn(call[p].nonce, claim[p].seq)
  BY <1>1 DEF Drawn
<1>6. claim[p].seq <= lastSeq
  BY <1>1, <1>4, <1>5 DEF OnceInv, SeqInv
<1>7. QED
  BY <1>1, <1>2, <1>3, <1>4, <1>6

\* A process that a step leaves alone, that gives up its claim without being about to
\* store, or that goes on with the claim it has.
Same(q) == pc'[q] = pc[q] /\ call'[q] = call[q] /\ claim'[q] = claim[q]

Leaves(q) ==
  /\ pc[q] \notin Storing /\ pc'[q] \notin HasClaim
  /\ call'[q] = call[q] \/ call'[q].op # "create"

Moves(q) ==
  /\ call'[q] = call[q] /\ claim'[q] = claim[q]
  /\ pc[q] \in HasClaim /\ pc'[q] \in HasClaim \ {"insert", "find"}
  /\ pc[q] \in Storing <=> pc'[q] \in Storing
  /\ pc'[q] \in {"undo_message", "undo_nonce"} => claim[q].epoch # conv.epoch
  /\ pc'[q] = "drop_claim" =>
       pc[q] = "find" /\ claim[q].state = "committed" /\ ~Stored(claim[q].epoch, claim[q].seq)

\* A step that writes no claim and stores no message preserves the invariant.
LEMMA QuietStep ==
  ASSUME TypeInv, OnceInv, LifeInv', TypeInv',
         UNCHANGED <<nonces, bound, lastSeq, alive>>,
         msgs' \subseteq msgs,
         lastEpoch' \in {lastEpoch, lastEpoch + 1},
         \/ conv'.epoch = conv.epoch
         \/ conv'.epoch = NoEpoch
         \/ conv'.epoch = lastEpoch + 1 /\ lastEpoch' = lastEpoch + 1,
         \A q \in Procs : Same(q) \/ Leaves(q) \/ Moves(q)
  PROVE  OnceInv'
<1>1. lastEpoch \in Nat /\ lastSeq \in Nat
  BY DEF TypeInv, DataOK
<1>2. BindInv'
  <2>1. \A q \in Procs : pc'[q] \in HasClaim => claim'[q] = claim[q] /\ call'[q] = call[q] /\ pc[q] \in HasClaim
    BY DEF Same, Leaves, Moves
  <2>2. \A q \in Procs : call'[q].op = "create" => call'[q] = call[q]
    BY DEF Same, Leaves, Moves
  <2>3. QED
    BY <1>1, <2>1, <2>2 DEF OnceInv, BindInv, NoEpoch
<1>3. SeqInv'
  <2>1. \A n \in Nonces, s \in Nat : Drawn(n, s)' => Drawn(n, s)
    BY DEF Same, Leaves, Moves, Drawn
  <2>2. QED
    BY <2>1 DEF OnceInv, SeqInv
\* Nothing that is there is of an epoch that becomes current.
<1>4. CASE conv'.epoch # conv.epoch
  <2>1. \A q \in Procs : pc'[q] \in HasClaim => claim'[q].epoch # conv'.epoch
    <3>1. ASSUME NEW q \in Procs, pc'[q] \in HasClaim PROVE claim'[q].epoch # conv'.epoch
      <4>1. claim'[q] = claim[q] /\ pc[q] \in HasClaim
        BY <3>1 DEF Same, Leaves, Moves
      <4>2. claim[q].epoch \in 1 .. lastEpoch
        BY <4>1, ClaimHolder
      <4>3. QED
        BY <1>1, <1>4, <4>1, <4>2 DEF NoEpoch
    <3>2. QED
      BY <3>1
  <2>2. \A m \in msgs' : m.epoch # conv'.epoch
    <3>1. \A m \in msgs : m.epoch \in 1 .. lastEpoch
      BY <1>1 DEF OnceInv, BindInv, NoEpoch, TypeInv, DataOK, Messages
    <3>2. QED
      BY <1>1, <1>4, <3>1 DEF NoEpoch
  <2>3. \A n \in Nonces : nonces[n].state = "pending" => nonces[n].epoch # conv'.epoch
    <3>1. \A n \in Nonces : nonces[n].state = "pending" => nonces[n].epoch \in 1 .. lastEpoch
      BY <1>1 DEF OnceInv, BindInv, NoEpoch, NoClaim
    <3>2. QED
      BY <1>1, <1>4, <3>1 DEF NoEpoch
  <2>4. ClaimInv'
    BY <2>1, <2>3, StepSets DEF ClaimInv
  <2>5. ViewInv'
    BY <2>2 DEF ViewInv
  <2>6. DropInv' /\ UndoInv'
    BY <2>1, StepSets DEF DropInv, UndoInv, HasClaim
  <2>7. QED
    BY <1>2, <1>3, <2>4, <2>5, <2>6 DEF OnceInv
<1>5. CASE conv'.epoch = conv.epoch
  <2>1. ClaimInv'
    <3>1. \A q \in Procs : pc'[q] \in Storing =>
                             pc[q] \in Storing /\ claim'[q] = claim[q] /\ call'[q] = call[q]
      BY StepSets DEF Same, Leaves, Moves
    <3>2. \A q \in Procs : pc[q] \in Storing =>
                             pc'[q] \in Storing /\ claim'[q] = claim[q] /\ call'[q] = call[q]
      BY StepSets DEF Same, Leaves, Moves
    <3>3. QED
      BY <1>5, <3>1, <3>2 DEF OnceInv, ClaimInv
  <2>2. ViewInv'
    BY <1>5 DEF OnceInv, ViewInv
  <2>3. DropInv'
    <3>1. \A q \in Procs : pc'[q] = "insert" => pc[q] = "insert" /\ claim'[q] = claim[q]
      BY DEF Same, Leaves, Moves, HasClaim, Storing
    <3>2. \A q \in Procs : pc'[q] \in {"find", "drop_claim"} =>
                             pc[q] \in {"find", "drop_claim"} /\ claim'[q] = claim[q]
      BY DEF Same, Leaves, Moves, HasClaim
    <3>3. \A q \in Procs : pc'[q] = "drop_claim" =>
                             \/ pc[q] = "drop_claim"
                             \/ claim[q].state = "committed" /\ ~Stored(claim[q].epoch, claim[q].seq)
      BY DEF Same, Leaves, Moves, HasClaim
    <3>4. \A e, s : ~Stored(e, s) => ~Stored(e, s)'
      BY DEF Stored
    <3>5. QED
      BY <1>5, <3>1, <3>2, <3>3, <3>4 DEF OnceInv, DropInv
  <2>4. UndoInv'
    BY <1>5 DEF OnceInv, UndoInv, Same, Leaves, Moves, HasClaim
  <2>5. QED
    BY <1>2, <1>3, <2>1, <2>2, <2>3, <2>4 DEF OnceInv
<1>6. QED
  BY <1>4, <1>5

\* The invariant holds in the empty store.
LEMMA OnceInit == Init => OnceInv
<1> SUFFICES ASSUME Init PROVE OnceInv
  OBVIOUS
<1>1. /\ \A n \in Nonces : nonces[n] = NoClaim /\ bound[n] = 0
      /\ \A p \in Procs : pc[p] = "idle" /\ call[p] = NoCall
      /\ lastEpoch = 0 /\ conv.epoch = 0
  BY DEF Init, NoClaims, NoConv, NoEpoch
<1>2. NoCall.op # "create" /\ NoClaim.state # "pending"
  BY DEF NoCall, NoClaim
<1>3. BindInv
  BY <1>1, <1>2 DEF Init, BindInv, HasClaim, Storing
<1>4. \A n \in Nonces, s \in Nat : ~Drawn(n, s)
  BY <1>1 DEF Drawn, HasClaim, Storing
<1>5. SeqInv /\ ClaimInv /\ ViewInv /\ DropInv /\ UndoInv
  BY <1>1, <1>2, <1>4 DEF Init, SeqInv, ClaimInv, ViewInv, DropInv, UndoInv, Storing
<1>6. LifeInv
  BY <1>1 DEF Init, LifeInv
<1>7. QED
  BY <1>3, <1>5, <1>6 DEF OnceInv

\* The steps before and after the life of a claim
LEMMA OnceQuiet ==
  ASSUME TypeInv, TypeInv', OnceInv, NEW p \in Procs,
         \/ OpenConversation(p) \/ Unavailable(p) \/ EndConversations(p)
         \/ Lookup(p) \/ OpenNew(p) \/ Rotate(p)
         \/ Find(p) \/ ResolveInFlight(p)
         \/ TouchLookup(p) \/ TouchLast(p) \/ TouchCount(p) \/ Recheck(p) \/ UndoMessage(p)
         \/ EndConv(p) \/ EndMessages(p)
  PROVE  OnceInv'
<1>1. UNCHANGED <<nonces, bound, lastSeq, alive, up>> /\ msgs' \subseteq msgs
  BY DEF OpenConversation, Unavailable, EndConversations, Call, Lookup, OpenNew, Rotate, Find,
     ResolveInFlight, TouchLookup, TouchLast, TouchCount, Recheck, UndoMessage, EndConv,
     EndMessages, tables, ids, world
<1>2. NoCall.op # "create" /\ NoConv.epoch = NoEpoch
  BY DEF NoCall, NoConv
<1>3. /\ lastEpoch' \in {lastEpoch, lastEpoch + 1}
      /\ \/ conv'.epoch = conv.epoch
         \/ conv'.epoch = NoEpoch
         \/ conv'.epoch = lastEpoch + 1 /\ lastEpoch' = lastEpoch + 1
  <2>1. CASE Lookup(p) \/ OpenNew(p) \/ Rotate(p) \/ EndConv(p)
    BY <2>1, <1>2 DEF Lookup, OpenNew, Rotate, EndConv, NewConv, tables, ids
  <2>2. CASE TouchLast(p) \/ TouchCount(p)
    BY <2>2 DEF TouchLast, TouchCount, TypeInv, DataOK, ConvRows, ids
  <2>3. CASE ~(\/ Lookup(p) \/ OpenNew(p) \/ Rotate(p) \/ EndConv(p)
               \/ TouchLast(p) \/ TouchCount(p))
    BY <2>3 DEF OpenConversation, Unavailable, EndConversations, Call, Find, ResolveInFlight,
       TouchLookup, Recheck, UndoMessage, EndMessages, tables, ids
  <2>4. QED
    BY <2>1, <2>2, <2>3
<1>4. \A q \in Procs \ {p} : Same(q)
  BY DEF OpenConversation, Unavailable, EndConversations, Call, Lookup, OpenNew, Rotate, Find,
     ResolveInFlight, TouchLookup, TouchLast, TouchCount, Recheck, UndoMessage, EndConv,
     EndMessages, Opened, OpenAgain, Return, Goto, Locals, locals, Same,
     TypeInv, ControlInv, LocalsOK
<1>5. Same(p) \/ Leaves(p) \/ Moves(p)
  <2>1. CASE OpenConversation(p)
    BY <2>1 DEF OpenConversation, Call, Locals, Leaves, Storing, HasClaim, TypeInv, ControlInv,
       LocalsOK
  <2>2. CASE Unavailable(p)
    BY <2>2 DEF Unavailable, locals, Same
  <2>3. CASE EndConversations(p)
    BY <2>3 DEF EndConversations, Locals, locals, Same, Leaves, Storing, HasClaim, NoCall,
       TypeInv, ControlInv, LocalsOK
  <2>4. CASE Lookup(p) \/ OpenNew(p) \/ Rotate(p)
    BY <2>4, <1>2 DEF Lookup, OpenNew, Rotate, At, Opened, OpenAgain, Return, Goto, Locals, locals,
       Leaves, Storing, HasClaim, TypeInv, ControlInv, LocalsOK
  <2>5. CASE Find(p)
    BY <2>5, <1>2 DEF Find, At, Return, Goto, Locals, locals, Leaves, Moves, Storing, HasClaim,
       TypeInv, ControlInv, LocalsOK
  <2>6. CASE ResolveInFlight(p)
    BY <2>6, <1>2 DEF ResolveInFlight, At, Return, Locals, Leaves, Storing, HasClaim,
       TypeInv, ControlInv, LocalsOK
  <2>7. CASE TouchLookup(p) \/ TouchLast(p) \/ TouchCount(p)
    BY <2>7 DEF TouchLookup, TouchLast, TouchCount, At, Goto, locals, Moves, Storing, HasClaim,
       TypeInv, ControlInv, LocalsOK
  <2>8. CASE Recheck(p)
    BY <2>8, <1>2 DEF Recheck, At, Return, Goto, Locals, Leaves, Moves, Storing, HasClaim,
       TypeInv, ControlInv, LocalsOK
  <2>9. CASE UndoMessage(p)
    BY <2>9 DEF UndoMessage, At, Goto, locals, Moves, Storing, HasClaim,
       TypeInv, ControlInv, LocalsOK, OnceInv, UndoInv
  <2>10. CASE EndConv(p) \/ EndMessages(p)
    BY <2>10, <1>2 DEF EndConv, EndMessages, At, Goto, Return, Locals, locals, Leaves, Storing,
       HasClaim, TypeInv, ControlInv, LocalsOK
  <2>11. QED
    BY <2>1, <2>2, <2>3, <2>4, <2>5, <2>6, <2>7, <2>8, <2>9, <2>10
<1>6. LifeInv'
  <2>1. up \/ UNCHANGED <<conv, msgs>>
    BY DEF OpenConversation, Unavailable, EndConversations, Call, Lookup, OpenNew, Rotate, Find,
       ResolveInFlight, TouchLookup, TouchLast, TouchCount, Recheck, UndoMessage, EndConv,
       EndMessages, At, tables
  <2>2. p \in alive
    BY DEF OpenConversation, Unavailable, EndConversations, Call, Lookup, OpenNew, Rotate, Find,
       ResolveInFlight, TouchLookup, TouchLast, TouchCount, Recheck, UndoMessage, EndConv,
       EndMessages, At
  <2>3. QED
    BY <1>1, <1>4, <2>1, <2>2 DEF OnceInv, LifeInv, Same
<1>7. QED
  BY <1>1, <1>3, <1>4, <1>5, <1>6, QuietStep DEF Same

\* A nonce is bound once, to an epoch that was generated; what is there of the nonce
\* is of that epoch already.
LEMMA OnceCreate ==
  ASSUME TypeInv, TypeInv', OnceInv, NEW p \in Procs, NEW n \in Nonces, CreateMessage(p, n)
  PROVE  OnceInv'
<1>1. PICK e \in 1 .. lastEpoch : CreateMessage(p, n)!(e)
  BY DEF CreateMessage
<1>2. /\ UNCHANGED <<conv, msgs, nonces, lastEpoch, lastSeq, up, alive>>
      /\ bound[n] \in {NoEpoch, e} /\ bound' = [bound EXCEPT ![n] = e]
      /\ pc[p] = "idle" /\ pc' = [pc EXCEPT ![p] = "lookup"] /\ p \in alive
      /\ call' = [call EXCEPT ![p] = [op |-> "create", nonce |-> n, epoch |-> e, now |-> clock]]
      /\ claim' = [claim EXCEPT ![p] = NoClaim]
  BY <1>1 DEF Call, Locals, tables, ids
<1>3. /\ e \in Nat \ {0} /\ lastEpoch \in Nat
      /\ \A o \in Nonces : bound[o] # NoEpoch => bound'[o] = bound[o]
      /\ bound'[n] = e
  BY <1>2 DEF TypeInv, DataOK, WorldOK, NoEpoch
<1>4. /\ \A q \in Procs \ {p} : Same(q)
      /\ pc'[p] = "lookup" /\ "lookup" \notin HasClaim
      /\ call'[p] = [op |-> "create", nonce |-> n, epoch |-> e, now |-> clock]
  BY <1>2, StepSets DEF Same, TypeInv, ControlInv, LocalsOK
<1>5. BindInv'
  <2>1. \A o \in Nonces : bound'[o] \in 0 .. lastEpoch
    BY <1>2, <1>3 DEF OnceInv, BindInv, TypeInv, WorldOK
  <2>2. \A o \in Nonces : nonces[o] # NoClaim => nonces[o].epoch = bound'[o] /\ bound'[o] # NoEpoch
    BY <1>3 DEF OnceInv, BindInv
  <2>3. \A m \in msgs : m.epoch = bound'[m.nonce] /\ m.epoch # NoEpoch
    BY <1>3 DEF OnceInv, BindInv, TypeInv, DataOK, Messages
  <2>4. \A q \in Procs \ {p} :
          /\ call[q].op = "create" =>
               call[q].epoch = bound'[call[q].nonce] /\ call[q].epoch # NoEpoch
          /\ pc[q] \in HasClaim => claim[q].epoch = bound'[call[q].nonce]
    <3>1. \A q \in Procs : pc[q] \in HasClaim => bound[call[q].nonce] # NoEpoch /\ call[q].nonce \in Nonces
      BY ClaimHolder DEF NoEpoch
    <3>2. \A q \in Procs : call[q].op = "create" => call[q].nonce \in Nonces
      BY DEF TypeInv, ControlInv, CallInv
    <3>3. QED
      BY <1>3, <3>1, <3>2 DEF OnceInv, BindInv
  <2>5. QED
    BY <1>2, <1>3, <1>4, <2>1, <2>2, <2>3, <2>4 DEF OnceInv, BindInv, Same, NoEpoch
<1>6. SeqInv'
  <2>1. \A o \in Nonces, s \in Nat : Drawn(o, s)' => Drawn(o, s)
    BY <1>2, <1>4 DEF Same, Drawn
  <2>2. QED
    BY <1>2, <2>1 DEF OnceInv, SeqInv
<1>7. ClaimInv'
  <2>1. \A q \in Procs : pc'[q] \in Storing => q # p
    BY <1>4, StepSets
  <2>2. \A q \in Procs : pc[q] \in Storing => q # p
    BY <1>2, StepSets
  <2>3. QED
    BY <1>2, <1>4, <2>1, <2>2 DEF OnceInv, ClaimInv, Same
<1>8. ViewInv' /\ DropInv' /\ UndoInv'
  BY <1>2, <1>4 DEF OnceInv, ViewInv, DropInv, UndoInv, Same, Stored
<1>9. LifeInv'
  BY <1>2, <1>4 DEF OnceInv, LifeInv, Same
<1>10. QED
  BY <1>5, <1>6, <1>7, <1>8, <1>9 DEF OnceInv

\* A claim, new or taken over, on a nonce whose claim nobody relies on
LEMMA OnceNewClaim ==
  ASSUME TypeInv, TypeInv', OnceInv, NEW p \in Procs, NEW n \in Nonces,
         p \in alive, up, pc[p] \in {"claim", "reclaim"}, call[p].nonce = n,
         UNCHANGED <<conv, msgs, lastEpoch, up, alive, bound>>,
         nonces' = [nonces EXCEPT ![n] = NewClaim(p, call[p].epoch)],
         lastSeq' = lastSeq + 1,
         Locals(p, call[p], 0, NoConv, NewClaim(p, call[p].epoch)),
         Goto(p, "insert"),
         nonces[n] = NoClaim \/ nonces[n].state = "pending",
         nonces[n].state = "pending" =>
           nonces[n].epoch # conv.epoch \/ nonces[n].owner \notin alive \/ nonces[n].owner = p
  PROVE  OnceInv'
<1> DEFINE c == NewClaim(p, call[p].epoch)
<1>1. /\ nonces'[n] = c /\ claim'[p] = c /\ pc'[p] = "insert" /\ call'[p] = call[p]
      /\ \A o \in Nonces \ {n} : nonces'[o] = nonces[o]
      /\ \A q \in Procs \ {p} : Same(q)
  BY DEF Locals, Goto, Same, TypeInv, DataOK, ControlInv, LocalsOK
<1>2. /\ c.state = "pending" /\ c.epoch = call[p].epoch /\ c.seq = lastSeq + 1 /\ c.owner = p
      /\ c # NoClaim /\ lastSeq \in Nat
  BY DEF NewClaim, NoClaim, TypeInv, DataOK
<1>3. call[p].op = "create" /\ c.epoch = bound[n] /\ c.epoch # NoEpoch
  BY <1>2 DEF OnceInv, BindInv, TypeInv, ControlInv, CallInv, CreateSteps
<1>4. "insert" \in Storing /\ "insert" \in HasClaim /\ pc[p] \notin Storing
  BY DEF Storing, HasClaim
\* Nothing of the nonce is in use in the current epoch.
<1>5. c.epoch = conv.epoch =>
        /\ \A q \in Procs : pc[q] \in Storing => call[q].nonce # n
        /\ \A m \in msgs : m.nonce # n \/ m.epoch # conv.epoch
  <2>1. SUFFICES ASSUME c.epoch = conv.epoch
                 PROVE  /\ \A q \in Procs : pc[q] \in Storing => call[q].nonce # n
                        /\ \A m \in msgs : m.nonce # n \/ m.epoch # conv.epoch
    OBVIOUS
  <2>2. nonces[n] = NoClaim
    <3>1. nonces[n].state = "pending" => nonces[n].epoch = conv.epoch
      BY <2>1, <1>3 DEF OnceInv, BindInv, NoClaim
    <3>2. nonces[n].state # "pending"
      BY <3>1, <1>4 DEF OnceInv, ClaimInv
    <3>3. QED
      BY <3>2
  <2>3. \A q \in Procs : pc[q] \in Storing /\ call[q].nonce = n => FALSE
    <3>1. ASSUME NEW q \in Procs, pc[q] \in Storing, call[q].nonce = n PROVE FALSE
      <4>1. claim[q].epoch = conv.epoch
        BY <3>1, <2>1, <1>3, ClaimHolder, StepSets
      <4>2. nonces[n] = claim[q] /\ claim[q].state = "pending"
        BY <3>1, <4>1 DEF OnceInv, ClaimInv
      <4>3. QED
        BY <4>2, <2>2 DEF NoClaim
    <3>2. QED
      BY <3>1
  <2>4. \A m \in msgs : m.nonce # n \/ m.epoch # conv.epoch
    BY <2>1, <2>2, <1>3 DEF OnceInv, ViewInv, NoClaim
  <2>5. QED
    BY <2>3, <2>4
<1>6. BindInv'
  BY <1>1, <1>2, <1>3, <1>4 DEF OnceInv, BindInv, Same
<1>7. SeqInv'
  <2>1. \A o \in Nonces, s \in Nat : Drawn(o, s)' => Drawn(o, s) \/ (o = n /\ s = lastSeq + 1)
    BY <1>1, <1>2 DEF Drawn, Same
  <2>2. QED
    BY <1>2, <2>1 DEF OnceInv, SeqInv
<1>8. ClaimInv'
  <2>1. ASSUME NEW q \in Procs, pc'[q] \in Storing, claim'[q].epoch = conv.epoch
        PROVE  nonces'[call'[q].nonce] = claim'[q] /\ claim'[q].state = "pending" /\ claim'[q].owner = q
    <3>1. CASE q = p
      BY <3>1, <1>1, <1>2
    <3>2. CASE q # p
      <4>1. pc[q] \in Storing /\ claim[q].epoch = conv.epoch /\ Same(q)
        BY <3>2, <2>1, <1>1 DEF Same
      <4>2. nonces[call[q].nonce] = claim[q] /\ claim[q].state = "pending" /\ claim[q].owner = q
        BY <4>1 DEF OnceInv, ClaimInv
      <4>3. call[q].nonce \in Nonces /\ claim[q].epoch = bound[call[q].nonce]
        BY <4>1, ClaimHolder, StepSets
      <4>4. call[q].nonce # n
        BY <1>3, <1>5, <4>1, <4>3
      <4>5. QED
        BY <1>1, <4>1, <4>2, <4>3, <4>4 DEF Same
    <3>3. QED
      BY <3>1, <3>2
  <2>2. ASSUME NEW o \in Nonces, nonces'[o].state = "pending", nonces'[o].epoch = conv.epoch
        PROVE  LET w == nonces'[o].owner
               IN /\ w \in Procs /\ w \in alive /\ pc'[w] \in Storing
                  /\ call'[w].nonce = o /\ claim'[w] = nonces'[o]
    <3>1. CASE o = n
      BY <3>1, <1>1, <1>2, <1>4
    <3>2. CASE o # n
      <4>1. nonces[o].state = "pending" /\ nonces[o].epoch = conv.epoch /\ nonces'[o] = nonces[o]
        BY <3>2, <2>2, <1>1
      <4>2. LET w == nonces[o].owner
            IN w \in Procs /\ w \in alive /\ pc[w] \in Storing /\ call[w].nonce = o /\ claim[w] = nonces[o]
        BY <4>1 DEF OnceInv, ClaimInv
      <4>3. nonces[o].owner # p
        BY <4>2, <1>4
      <4>4. QED
        BY <1>1, <4>1, <4>2, <4>3 DEF Same
    <3>3. QED
      BY <3>1, <3>2
  <2>3. QED
    BY <2>1, <2>2 DEF ClaimInv
<1>9. ViewInv'
  <2>1. \A m \in msgs : m.nonce \in Nonces /\ m.epoch = bound[m.nonce]
    BY DEF TypeInv, DataOK, Messages, OnceInv, BindInv
  <2>2. QED
    BY <1>1, <1>3, <1>5, <2>1 DEF OnceInv, ViewInv
<1>10. DropInv'
  <2>1. \A q \in Procs : pc[q] \in {"find", "drop_claim"} => claim[q].seq # c.seq
    BY <1>2, ClaimHolder DEF HasClaim
  <2>2. QED
    BY <1>1, <2>1 DEF OnceInv, DropInv, Same, Stored
<1>11. UndoInv' /\ LifeInv'
  BY <1>1 DEF OnceInv, UndoInv, LifeInv, Same
<1>12. QED
  BY <1>6, <1>7, <1>8, <1>9, <1>10, <1>11 DEF OnceInv

\* A claim is new, or it takes over that of a dead process or of its own.
LEMMA OnceClaim ==
  ASSUME TypeInv, TypeInv', OnceInv, NEW p \in Procs, Claim(p) \/ Reclaim(p)
  PROVE  OnceInv'
<1> DEFINE n == call[p].nonce
<1>1. n \in Nonces /\ pc[p] \in {"claim", "reclaim"} /\ p \in alive /\ up
  BY DEF Claim, Reclaim, At, TypeInv, ControlInv, CallInv, CreateSteps
<1>2. CASE Claim(p) /\ nonces[n] = NoClaim
  <2>1. nonces[n].state # "pending"
    BY <1>2 DEF NoClaim
  <2>2. QED
    BY <1>1, <1>2, <2>1, OnceNewClaim DEF Claim, At, ids, world
<1>3. CASE Reclaim(p) /\ nonces[n] = claim[p]
  <2>1. nonces[n].state = "pending"
    BY <1>3 DEF Reclaim, At, TypeInv, ControlInv, CallInv
  <2>2. nonces[n].owner = p \/ nonces[n].owner \notin alive
    BY <1>3 DEF Reclaim, OwnerAlive
  <2>3. QED
    BY <1>1, <1>3, <2>1, <2>2, OnceNewClaim DEF Reclaim, At, ids, world
<1>4. CASE (Claim(p) /\ nonces[n] # NoClaim) \/ (Reclaim(p) /\ nonces[n] # claim[p])
  <2>1. NoCall.op # "create"
    BY DEF NoCall
  <2>2. \A q \in Procs \ {p} : Same(q)
    BY <1>4 DEF Claim, Reclaim, ClaimAgain, Return, Goto, Locals, locals, Same,
       TypeInv, ControlInv, LocalsOK
  <2>3. Leaves(p)
    BY <1>4, <2>1 DEF Claim, Reclaim, At, ClaimAgain, Return, Goto, Locals, locals, Leaves,
       Storing, HasClaim, TypeInv, ControlInv, LocalsOK
  <2>4. UNCHANGED <<conv, msgs, nonces, bound, lastEpoch, lastSeq, alive, up>>
    BY <1>4 DEF Claim, Reclaim, ids, world
  <2>5. LifeInv'
    BY <1>1, <2>2, <2>4 DEF OnceInv, LifeInv, Same
  <2>6. QED
    BY <2>2, <2>3, <2>4, <2>5, QuietStep
<1>5. QED
  BY <1>2, <1>3, <1>4 DEF Claim, Reclaim

\* The claim on the nonce is looked up.
LEMMA OnceLookup ==
  ASSUME TypeInv, TypeInv', OnceInv, NEW p \in Procs, LookupNonce(p)
  PROVE  OnceInv'
<1> DEFINE n == call[p].nonce
<1>1. /\ n \in Nonces /\ p \in alive /\ pc[p] = "lookup_nonce" /\ pc[p] \notin Storing
      /\ UNCHANGED <<conv, msgs, nonces, bound, lastEpoch, lastSeq, alive, up>>
      /\ \A q \in Procs \ {p} : Same(q)
  BY DEF LookupNonce, At, ClaimAgain, Return, Goto, Locals, Same, tables, ids, world, Storing,
     TypeInv, ControlInv, CallInv, CreateSteps, LocalsOK
<1>2. LifeInv'
  BY <1>1 DEF OnceInv, LifeInv, Same
<1>3. CASE nonces[n] = NoClaim
  <2>1. Leaves(p)
    BY <1>1, <1>3 DEF LookupNonce, ClaimAgain, Return, Goto, Locals, NoCall, Leaves, HasClaim,
       Storing, TypeInv, ControlInv, LocalsOK
  <2>2. QED
    BY <1>1, <1>2, <2>1, QuietStep
<1>4. CASE nonces[n] # NoClaim
  <2>1. pc'[p] = "find" /\ claim'[p] = nonces[n] /\ call'[p] = call[p]
    BY <1>4 DEF LookupNonce, Goto, Locals, TypeInv, ControlInv, LocalsOK
  <2>2. BindInv'
    BY <1>1, <1>4, <2>1 DEF OnceInv, BindInv, Same
  <2>3. SeqInv'
    <3>1. \A o \in Nonces, s \in Nat : Drawn(o, s)' => Drawn(o, s)
      BY <1>1, <1>4, <2>1 DEF Drawn, Same
    <3>2. QED
      BY <1>1, <3>1 DEF OnceInv, SeqInv
  <2>4. ClaimInv'
    <3>1. pc'[p] \notin Storing
      BY <2>1 DEF Storing
    <3>2. QED
      BY <1>1, <3>1 DEF OnceInv, ClaimInv, Same
  <2>5. DropInv'
    <3>1. ASSUME claim'[p].state = "committed", claim'[p].epoch = conv.epoch,
                 NEW q \in Procs, pc'[q] = "insert", claim'[q].seq = claim'[p].seq
          PROVE  FALSE
      <4>1. pc[q] = "insert" /\ claim[q].seq = nonces[n].seq /\ q # p
        BY <3>1, <1>1, <2>1 DEF Same
      <4>2. pc[q] \in Storing /\ pc[q] \in HasClaim
        BY <4>1 DEF Storing, HasClaim
      <4>3. Drawn(n, nonces[n].seq) /\ Drawn(call[q].nonce, nonces[n].seq)
        BY <1>4, <4>1, <4>2 DEF Drawn
      <4>4. call[q].nonce = n
        BY <1>1, <4>2, <4>3, ClaimHolder DEF OnceInv, SeqInv, TypeInv, DataOK, ClaimRows
      <4>5. claim[q].epoch = conv.epoch
        BY <1>4, <2>1, <3>1, <4>2, <4>4, ClaimHolder DEF OnceInv, BindInv
      <4>6. nonces[n].state = "pending"
        BY <4>2, <4>4, <4>5 DEF OnceInv, ClaimInv
      <4>7. QED
        BY <2>1, <3>1, <4>6
    <3>2. QED
      BY <1>1, <2>1, <3>1 DEF OnceInv, DropInv, Same, Stored
  <2>6. ViewInv' /\ UndoInv'
    BY <1>1, <2>1 DEF OnceInv, ViewInv, UndoInv, Same
  <2>7. QED
    BY <1>2, <2>2, <2>3, <2>4, <2>5, <2>6 DEF OnceInv
<1>5. QED
  BY <1>3, <1>4

-----------------------------------------------------------------------------
(* Steps that write a claim or a message                                   *)

\* The step of insert_claimed that sets the commit mark on nonce n
Marks(q, n) ==
  /\ pc[q] = "commit" /\ pc'[q] = "recheck" /\ call[q].nonce = n
  /\ call'[q] = call[q] /\ claim'[q] = claim[q]

\* A claim may be deleted, or marked as committed, if the current epoch does not need
\* it: whoever relied on it has gone on, and a deleted one has no message.
LEMMA ClaimWrite ==
  ASSUME TypeInv, OnceInv, LifeInv', NEW n \in Nonces,
         UNCHANGED <<conv, msgs, lastEpoch, lastSeq, bound, alive>>,
         nonces[n] # NoClaim,
         \/ nonces' = [nonces EXCEPT ![n] = NoClaim]
         \/ nonces' = [nonces EXCEPT ![n].state = "committed"],
         \A q \in Procs : Same(q) \/ Leaves(q) \/ Moves(q) \/ Marks(q, n),
         bound[n] = conv.epoch =>
           /\ \A q \in Procs : pc'[q] \in Storing => call[q].nonce # n
           /\ nonces'[n] = NoClaim => \A m \in msgs : m.nonce = n => m.epoch # conv.epoch
  PROVE  OnceInv'
<1>1. /\ \A o \in Nonces \ {n} : nonces'[o] = nonces[o]
      /\ nonces'[n] = NoClaim \/ nonces'[n] = [nonces[n] EXCEPT !.state = "committed"]
      /\ nonces[n] \in ClaimRows
  BY DEF TypeInv, DataOK
<1>2. /\ nonces'[n].state # "pending"
      /\ nonces'[n] # NoClaim => nonces'[n].epoch = nonces[n].epoch /\ nonces'[n].seq = nonces[n].seq
  BY <1>1 DEF ClaimRows, NoClaim
<1>3. \A q \in Procs : pc'[q] \in HasClaim => claim'[q] = claim[q] /\ call'[q] = call[q] /\ pc[q] \in HasClaim
  BY DEF Same, Leaves, Moves, Marks, HasClaim, Storing
<1>4. BindInv'
  <2>1. \A q \in Procs : call'[q].op = "create" => call'[q] = call[q]
    BY DEF Same, Leaves, Moves, Marks
  <2>2. \A o \in Nonces : nonces'[o] # NoClaim => nonces[o] # NoClaim /\ nonces'[o].epoch = nonces[o].epoch
    BY <1>1, <1>2
  <2>3. QED
    BY <1>3, <2>1, <2>2 DEF OnceInv, BindInv
<1>5. SeqInv'
  <2>1. \A o \in Nonces, s \in Nat : Drawn(o, s)' => Drawn(o, s)
    BY <1>1, <1>2, <1>3 DEF Drawn
  <2>2. QED
    BY <2>1 DEF OnceInv, SeqInv
<1>6. ClaimInv'
  <2>1. \A q \in Procs : pc'[q] \in Storing =>
                           pc[q] \in Storing /\ claim'[q] = claim[q] /\ call'[q] = call[q]
    BY StepSets DEF Same, Leaves, Moves, Marks
  <2>2. ASSUME NEW q \in Procs, pc'[q] \in Storing, claim'[q].epoch = conv.epoch
        PROVE  nonces'[call'[q].nonce] = claim'[q] /\ claim'[q].state = "pending" /\ claim'[q].owner = q
    <3>1. pc[q] \in Storing /\ claim'[q] = claim[q] /\ call'[q] = call[q]
      BY <2>1, <2>2
    <3>2. call[q].nonce \in Nonces /\ claim[q].epoch = bound[call[q].nonce]
      BY <3>1, ClaimHolder, StepSets
    <3>3. call[q].nonce # n
      BY <2>2, <3>1, <3>2
    <3>4. QED
      BY <1>1, <2>2, <3>1, <3>2, <3>3 DEF OnceInv, ClaimInv
  <2>3. ASSUME NEW o \in Nonces, nonces'[o].state = "pending", nonces'[o].epoch = conv.epoch
        PROVE  LET w == nonces'[o].owner
               IN /\ w \in Procs /\ w \in alive /\ pc'[w] \in Storing
                  /\ call'[w].nonce = o /\ claim'[w] = nonces'[o]
    <3>1. o # n /\ nonces'[o] = nonces[o]
      BY <1>1, <1>2, <2>3
    <3>2. LET w == nonces[o].owner
          IN w \in Procs /\ w \in alive /\ pc[w] \in Storing /\ call[w].nonce = o /\ claim[w] = nonces[o]
      BY <2>3, <3>1 DEF OnceInv, ClaimInv
    <3>3. \A q \in Procs : pc[q] \in Storing /\ call[q].nonce # n =>
                             pc'[q] \in Storing /\ claim'[q] = claim[q] /\ call'[q] = call[q]
      BY StepSets DEF Same, Leaves, Moves, Marks
    <3>4. QED
      BY <3>1, <3>2, <3>3
  <2>4. QED
    BY <2>2, <2>3 DEF ClaimInv
<1>7. ViewInv'
  <2>1. \A m \in msgs : m.nonce \in Nonces /\ m.epoch = bound[m.nonce]
    BY DEF TypeInv, DataOK, Messages, OnceInv, BindInv
  <2>2. QED
    BY <1>1, <1>2, <2>1 DEF OnceInv, ViewInv
<1>8. DropInv'
  <2>1. \A q \in Procs : pc'[q] = "insert" => pc[q] = "insert" /\ claim'[q] = claim[q]
    BY DEF Same, Leaves, Moves, Marks, HasClaim, Storing
  <2>2. \A q \in Procs : pc'[q] \in {"find", "drop_claim"} =>
                           pc[q] \in {"find", "drop_claim"} /\ claim'[q] = claim[q]
    BY DEF Same, Leaves, Moves, Marks, HasClaim
  <2>3. \A q \in Procs : pc'[q] = "drop_claim" =>
                           \/ pc[q] = "drop_claim"
                           \/ claim[q].state = "committed" /\ ~Stored(claim[q].epoch, claim[q].seq)
    BY DEF Same, Leaves, Moves, Marks, HasClaim
  <2>4. QED
    BY <2>1, <2>2, <2>3 DEF OnceInv, DropInv, Stored
<1>9. UndoInv'
  BY DEF OnceInv, UndoInv, Same, Leaves, Moves, Marks, HasClaim
<1>10. QED
  BY <1>4, <1>5, <1>6, <1>7, <1>8, <1>9 DEF OnceInv

\* resolve_existing drops a committed claim only when its message is gone for good.
LEMMA OnceDrop ==
  ASSUME TypeInv, TypeInv', OnceInv, NEW p \in Procs, DropClaim(p)
  PROVE  OnceInv'
<1> DEFINE n == call[p].nonce
<1>1. /\ n \in Nonces /\ p \in alive /\ up /\ pc[p] = "drop_claim"
      /\ UNCHANGED <<conv, msgs, bound, lastEpoch, lastSeq, alive, up>>
      /\ \A q \in Procs \ {p} : Same(q)
  BY DEF DropClaim, At, ClaimAgain, Return, Goto, Locals, Same, ids, world,
     TypeInv, ControlInv, CallInv, CreateSteps, LocalsOK
<1>2. Leaves(p)
  BY <1>1 DEF DropClaim, ClaimAgain, Return, Goto, Locals, NoCall, Leaves, HasClaim, Storing,
     TypeInv, ControlInv, LocalsOK
<1>3. LifeInv'
  BY <1>1 DEF OnceInv, LifeInv, Same
<1>4. CASE nonces' = nonces
  BY <1>1, <1>2, <1>3, <1>4, QuietStep
<1>5. CASE nonces[n] = claim[p] /\ nonces[n] # NoClaim /\ nonces' = [nonces EXCEPT ![n] = NoClaim]
  <2>1. ASSUME bound[n] = conv.epoch
        PROVE  /\ nonces[n].state = "committed"
               /\ \A m \in msgs : m.nonce = n => m.epoch # conv.epoch
    <3>1. claim[p].epoch = conv.epoch
      BY <1>1, <2>1, ClaimHolder DEF HasClaim
    <3>2. claim[p].state = "committed" /\ ~Stored(claim[p].epoch, claim[p].seq)
      BY <1>1, <3>1 DEF OnceInv, DropInv
    <3>3. QED
      BY <1>5, <3>2 DEF OnceInv, ViewInv, Stored
  <2>2. ASSUME bound[n] = conv.epoch, NEW q \in Procs, pc'[q] \in Storing
        PROVE  call[q].nonce # n
    <3>1. pc[q] \in Storing
      BY <1>1, <1>2, <2>2, StepSets DEF Same, Leaves
    <3>2. call[q].nonce = n => claim[q].epoch = conv.epoch
      BY <2>2, <3>1, ClaimHolder, StepSets
    <3>3. QED
      BY <2>1, <2>2, <3>1, <3>2 DEF OnceInv, ClaimInv
  <2>3. QED
    BY <1>1, <1>2, <1>3, <1>5, <2>1, <2>2, ClaimWrite
<1>6. n \in DOMAIN nonces /\ (nonces[n] = NoClaim => nonces = [nonces EXCEPT ![n] = NoClaim])
  BY <1>1 DEF TypeInv, DataOK
<1>7. QED
  BY <1>4, <1>5, <1>6 DEF DropClaim

\* A retry or insert_claimed sets the commit mark; the owner of a claim that is marked
\* is dead, or it is the caller.
LEMMA OnceMark ==
  ASSUME TypeInv, TypeInv', OnceInv, NEW p \in Procs, MarkCommitted(p) \/ Commit(p)
  PROVE  OnceInv'
<1> DEFINE n == call[p].nonce
<1>1. /\ n \in Nonces /\ p \in alive /\ up /\ pc[p] \in {"mark_committed", "commit"}
      /\ UNCHANGED <<conv, msgs, bound, lastEpoch, lastSeq, alive, up>>
      /\ \A q \in Procs \ {p} : Same(q)
      /\ pc'[p] \in {"idle", "recheck"}
      /\ nonces[n] \in ClaimRows
  BY DEF MarkCommitted, Commit, At, Return, Goto, Locals, locals, Same, ids, world,
     TypeInv, DataOK, ControlInv, CallInv, CreateSteps, LocalsOK
<1>2. LifeInv'
  BY <1>1 DEF OnceInv, LifeInv, Same
\* A process that stores the message of n for the current epoch owns its claim.
<1>3. ASSUME bound[n] = conv.epoch, NEW q \in Procs, pc[q] \in Storing, call[q].nonce = n
      PROVE  nonces[n] = claim[q] /\ claim[q].owner = q /\ q \in alive
  <2>1. claim[q].epoch = conv.epoch
    BY <1>3, ClaimHolder, StepSets
  <2>2. nonces[n] = claim[q] /\ claim[q].owner = q
    BY <1>3, <2>1 DEF OnceInv, ClaimInv
  <2>3. pc[q] # "idle"
    BY <1>3, StepSets
  <2>4. QED
    BY <2>2, <2>3 DEF OnceInv, LifeInv
<1>4. CASE MarkCommitted(p)
  <2>1. Leaves(p)
    BY <1>4 DEF MarkCommitted, At, Return, Locals, NoCall, Leaves, HasClaim, Storing,
       TypeInv, ControlInv, LocalsOK
  <2>2. CASE nonces[n] = claim[p] /\ nonces[n] # NoClaim
    <3>1. ASSUME bound[n] = conv.epoch, NEW q \in Procs, pc'[q] \in Storing
          PROVE  call[q].nonce # n
      <4>1. q # p /\ pc[q] \in Storing
        BY <1>1, <3>1, StepSets DEF Same
      <4>2. ~OwnerAlive(p)
        BY <1>4 DEF MarkCommitted
      <4>3. QED
        BY <1>3, <2>2, <3>1, <4>1, <4>2 DEF OwnerAlive
    <3>2. nonces' = [nonces EXCEPT ![n].state = "committed"]
      BY <1>4, <2>2 DEF MarkCommitted
    <3>3. nonces'[n] # NoClaim
      BY <1>1, <3>2 DEF NoClaim, ClaimRows, TypeInv, DataOK
    <3>4. QED
      BY <1>1, <1>2, <2>1, <2>2, <3>1, <3>2, <3>3, ClaimWrite
  <2>3. CASE nonces[n] # claim[p]
    BY <1>1, <1>2, <1>4, <2>1, <2>3, QuietStep DEF MarkCommitted
  <2>4. CASE nonces[n] = claim[p] /\ nonces[n] = NoClaim
    <3>1. claim[p].epoch # 0
      BY <1>1, <1>4, ClaimHolder DEF MarkCommitted, At, HasClaim, TypeInv, DataOK
    <3>2. QED
      BY <2>4, <3>1 DEF NoClaim, NoEpoch
  <2>5. QED
    BY <2>2, <2>3, <2>4
<1>5. CASE Commit(p)
  <2>1. Marks(p, n)
    BY <1>5 DEF Commit, At, Goto, locals, Marks, TypeInv, ControlInv
  <2>2. CASE nonces[n] # NoClaim
    <3>1. ASSUME bound[n] = conv.epoch, NEW q \in Procs, pc'[q] \in Storing
          PROVE  call[q].nonce # n
      <4>1. q # p /\ pc[q] \in Storing
        BY <1>1, <3>1, StepSets DEF Same
      <4>2. pc[p] \in Storing
        BY <1>5 DEF Commit, At, Storing
      <4>3. QED
        BY <1>3, <3>1, <4>1, <4>2
    <3>2. nonces' = [nonces EXCEPT ![n].state = "committed"]
      BY <1>5, <2>2 DEF Commit
    <3>3. nonces'[n] # NoClaim
      BY <1>1, <3>2 DEF NoClaim, ClaimRows, TypeInv, DataOK
    <3>4. QED
      BY <1>1, <1>2, <2>1, <2>2, <3>1, <3>2, <3>3, ClaimWrite
  <2>3. CASE nonces[n] = NoClaim
    <3>1. nonces' = nonces /\ pc[p] = "commit" /\ pc'[p] = "recheck"
          /\ call'[p] = call[p] /\ claim'[p] = claim[p]
      BY <1>5, <2>1, <2>3 DEF Commit, Marks
    \* Its epoch is over: nobody else deletes a claim that is in use.
    <3>2. bound[n] # conv.epoch
      <4>1. pc[p] \in Storing /\ pc[p] \in HasClaim
        BY <3>1 DEF Storing, HasClaim
      <4>2. bound[n] = conv.epoch => claim[p] = NoClaim
        BY <1>3, <2>3, <4>1
      <4>3. claim[p].epoch # 0
        BY <4>1, ClaimHolder DEF TypeInv, DataOK
      <4>4. QED
        BY <4>2, <4>3 DEF NoClaim, NoEpoch
    <3>3. BindInv'
      BY <1>1, <3>1 DEF OnceInv, BindInv, Same, HasClaim, Storing
    <3>4. SeqInv'
      <4>1. \A o \in Nonces, s \in Nat : Drawn(o, s)' => Drawn(o, s)
        BY <1>1, <3>1 DEF Drawn, Same, HasClaim, Storing
      <4>2. QED
        BY <1>1, <4>1 DEF OnceInv, SeqInv
    <3>5. ClaimInv'
      <4>1. "recheck" \notin Storing /\ pc[p] \in HasClaim
        BY <3>1 DEF Storing, HasClaim
      <4>2. claim[p].epoch # conv.epoch
        BY <3>2, <4>1, ClaimHolder
      <4>3. \A o \in Nonces : nonces[o].state = "pending" /\ nonces[o].epoch = conv.epoch =>
                                nonces[o].owner # p
        BY <4>2 DEF OnceInv, ClaimInv
      <4>4. QED
        BY <1>1, <3>1, <4>1, <4>3 DEF OnceInv, ClaimInv, Same
    <3>6. ViewInv' /\ DropInv' /\ UndoInv'
      BY <1>1, <3>1 DEF OnceInv, ViewInv, DropInv, UndoInv, Same, Stored
    <3>7. QED
      BY <1>2, <3>3, <3>4, <3>5, <3>6 DEF OnceInv
  <2>4. QED
    BY <2>2, <2>3
<1>6. QED
  BY <1>4, <1>5

\* insert_claimed stores the message that the claim names.
LEMMA OnceInsert ==
  ASSUME TypeInv, TypeInv', OnceInv, NEW p \in Procs, Insert(p)
  PROVE  OnceInv'
<1> DEFINE n == call[p].nonce
           m == [epoch |-> claim[p].epoch, seq |-> claim[p].seq, nonce |-> n]
<1>1. /\ p \in alive /\ up /\ pc[p] = "insert" /\ pc'[p] = "touch_lookup"
      /\ msgs' = msgs \cup {m}
      /\ UNCHANGED <<conv, nonces, bound, lastEpoch, lastSeq, alive, up, call, claim>>
      /\ \A q \in Procs \ {p} : Same(q)
  BY DEF Insert, At, Goto, locals, Same, ids, world, TypeInv, ControlInv
<1>2. /\ pc[p] \in Storing /\ pc[p] \in HasClaim
      /\ pc'[p] \in Storing /\ pc'[p] \in HasClaim
  BY <1>1 DEF Storing, HasClaim
<1>3. /\ m.epoch = bound[n] /\ m.epoch # NoEpoch /\ n \in Nonces
      /\ m.epoch = claim[p].epoch /\ m.seq = claim[p].seq /\ m.nonce = n
  BY <1>2, ClaimHolder DEF NoEpoch, TypeInv, DataOK
<1>4. BindInv'
  BY <1>1, <1>2, <1>3 DEF OnceInv, BindInv, Same
<1>5. SeqInv'
  <2>1. \A o \in Nonces, s \in Nat : Drawn(o, s)' => Drawn(o, s)
    BY <1>1, <1>2 DEF Drawn, Same
  <2>2. QED
    BY <1>1, <2>1 DEF OnceInv, SeqInv
<1>6. ClaimInv'
  BY <1>1, <1>2 DEF OnceInv, ClaimInv, Same
<1>7. ViewInv'
  <2>1. m.epoch = conv.epoch => nonces[n] = claim[p]
    BY <1>2, <1>3 DEF OnceInv, ClaimInv
  <2>2. QED
    BY <1>1, <1>3, <2>1 DEF OnceInv, ViewInv
<1>8. DropInv'
  <2>1. \A q \in Procs : pc'[q] = "insert" => pc[q] = "insert"
    BY <1>1 DEF Same
  <2>2. \A q \in Procs : pc'[q] \in {"find", "drop_claim"} => pc'[q] = pc[q]
    BY <1>1 DEF Same
  <2>3. ASSUME NEW q \in Procs, pc'[q] = "drop_claim", claim[q].epoch = conv.epoch
        PROVE  claim[q].state = "committed" /\ ~Stored(claim[q].epoch, claim[q].seq)'
    <3>1. pc[q] = "drop_claim" /\ claim[q].state = "committed" /\ ~Stored(claim[q].epoch, claim[q].seq)
      BY <2>2, <2>3 DEF OnceInv, DropInv
    <3>2. claim[q].seq # m.seq
      BY <1>1, <1>3, <2>3, <3>1 DEF OnceInv, DropInv
    <3>3. QED
      BY <1>1, <1>3, <3>1, <3>2 DEF Stored
  <2>4. QED
    BY <1>1, <2>1, <2>2, <2>3 DEF OnceInv, DropInv
<1>9. UndoInv' /\ LifeInv'
  BY <1>1 DEF OnceInv, UndoInv, LifeInv, Same
<1>10. QED
  BY <1>4, <1>5, <1>6, <1>7, <1>8, <1>9 DEF OnceInv

\* The undo deletes the claim of an epoch that is over.
LEMMA OnceUndo ==
  ASSUME TypeInv, TypeInv', OnceInv, NEW p \in Procs, UndoNonce(p)
  PROVE  OnceInv'
<1> DEFINE n == call[p].nonce
<1>1. /\ n \in Nonces /\ p \in alive /\ up /\ pc[p] = "undo_nonce" /\ pc[p] \in HasClaim
      /\ UNCHANGED <<conv, msgs, bound, lastEpoch, lastSeq, alive, up>>
      /\ nonces' = [nonces EXCEPT ![n] = NoClaim]
      /\ \A q \in Procs \ {p} : Same(q)
  BY DEF UndoNonce, At, Return, Locals, Same, ids, world, HasClaim, Storing,
     TypeInv, ControlInv, CallInv, CreateSteps, LocalsOK
<1>2. Leaves(p)
  BY <1>1 DEF UndoNonce, Return, Locals, NoCall, Leaves, HasClaim, Storing,
     TypeInv, ControlInv, LocalsOK
<1>3. LifeInv'
  BY <1>1 DEF OnceInv, LifeInv, Same
<1>4. bound[n] # conv.epoch
  BY <1>1, ClaimHolder DEF OnceInv, UndoInv
<1>5. nonces[n] = NoClaim => nonces' = nonces
  BY <1>1 DEF TypeInv, DataOK
<1>6. QED
  BY <1>1, <1>2, <1>3, <1>4, <1>5, ClaimWrite, QuietStep

-----------------------------------------------------------------------------
(* The sweep, time and deaths                                              *)

\* The sweep deletes rows as they are and claims that the current epoch does not need.
LEMMA OnceSweep ==
  ASSUME TypeInv, TypeInv', OnceInv, Sweep
  PROVE  OnceInv'
<1>1. /\ UNCHANGED <<bound, lastEpoch, lastSeq, alive, up, pc, call, claim>> /\ up
      /\ msgs' \subseteq msgs
      /\ conv' \in {conv, NoConv}
  BY DEF Sweep, SweepStart, SweepConv, SweepScan, SweepFilter, SweepOrphans, SweepScanClaims,
     SweepNonce, Sweeping, tables, ids, world, locals
<1>2. \A q \in Procs : Same(q)
  BY <1>1 DEF Same
<1>3. LifeInv'
  BY <1>1 DEF OnceInv, LifeInv
<1>4. CASE nonces' = nonces
  <2>1. conv'.epoch \in {conv.epoch, NoEpoch}
    BY <1>1 DEF NoConv
  <2>2. QED
    BY <1>1, <1>2, <1>3, <1>4, <2>1, QuietStep
<1>5. CASE nonces' # nonces
  <2>1. PICK n \in Nonces :
          /\ sweepClaims[n] # NoClaim /\ nonces[n] = sweepClaims[n]
          /\ nonces' = [nonces EXCEPT ![n] = Swept(nonces[n])]
          /\ UNCHANGED <<conv, msgs>>
    BY <1>5 DEF Sweep, SweepStart, SweepConv, SweepScan, SweepFilter, SweepOrphans,
       SweepScanClaims, SweepNonce, tables
  <2>2. nonces[n] # NoClaim /\ bound[n] = nonces[n].epoch
    BY <2>1 DEF OnceInv, BindInv
  <2>3. nonces[n].state = "pending" /\ nonces[n].epoch = conv.epoch => nonces[n].owner \in alive
    BY DEF OnceInv, ClaimInv
  <2>4. conv.epoch # nonces[n].epoch
    <3>1. Swept(nonces[n]) # nonces[n]
      BY <1>5, <2>1 DEF TypeInv, DataOK
    <3>2. QED
      BY <2>3, <3>1 DEF Swept
  <2>5. nonces' = [nonces EXCEPT ![n] = NoClaim]
    BY <2>1, <2>4 DEF Swept
  <2>6. QED
    BY <1>1, <1>2, <1>3, <2>1, <2>2, <2>4, <2>5, ClaimWrite
<1>6. QED
  BY <1>4, <1>5

\* Without tables there is nothing to protect, and every captured claim is of an epoch
\* that is over.
LEMMA OnceEmpty ==
  ASSUME TypeInv, OnceInv, LifeInv',
         conv' = NoConv, msgs' = {}, nonces' = NoClaims,
         UNCHANGED <<bound, lastEpoch, lastSeq>>,
         \A q \in Procs : Same(q) \/ (pc'[q] \notin HasClaim /\ call'[q].op # "create")
  PROVE  OnceInv'
<1>1. /\ conv'.epoch = NoEpoch /\ NoEpoch = 0 /\ lastEpoch \in Nat
      /\ \A n \in Nonces : nonces'[n] = NoClaim
      /\ NoClaim.state # "pending"
  BY DEF NoConv, NoEpoch, NoClaims, NoClaim, TypeInv, DataOK
<1>2. \A q \in Procs : pc'[q] \in HasClaim =>
        claim'[q] = claim[q] /\ call'[q] = call[q] /\ pc[q] \in HasClaim /\ claim'[q].epoch # 0
  BY <1>1, ClaimHolder DEF Same
<1>3. BindInv'
  BY <1>1, <1>2 DEF OnceInv, BindInv, Same
<1>4. SeqInv'
  <2>1. \A n \in Nonces, s \in Nat : Drawn(n, s)' => Drawn(n, s)
    BY <1>1, <1>2 DEF Drawn
  <2>2. QED
    BY <2>1 DEF OnceInv, SeqInv
<1>5. ClaimInv' /\ ViewInv' /\ DropInv' /\ UndoInv'
  BY <1>1, <1>2, StepSets DEF ClaimInv, ViewInv, DropInv, UndoInv, HasClaim
<1>6. QED
  BY <1>3, <1>4, <1>5 DEF OnceInv

\* Time, the deaths of the table owner, and what they do to the callers.
LEMMA OnceWorld ==
  ASSUME TypeInv, TypeInv', OnceInv,
         Tick \/ OwnerDown \/ OwnerUp \/ (\E p \in Procs : Abort(p)) \/ UNCHANGED vars
  PROVE  OnceInv'
<1>1. CASE Tick \/ UNCHANGED vars \/ OwnerUp
  <2>1. /\ UNCHANGED <<conv, msgs, nonces, bound, lastEpoch, lastSeq, alive, pc, call, claim>>
        /\ up => up'
    BY <1>1 DEF Tick, OwnerUp, vars, tables, ids, world, locals
  <2>2. LifeInv'
    BY <2>1 DEF OnceInv, LifeInv
  <2>3. \A q \in Procs : Same(q)
    BY <2>1 DEF Same
  <2>4. QED
    BY <2>1, <2>2, <2>3, QuietStep
<1>2. CASE OwnerDown
  <2>1. /\ conv' = NoConv /\ msgs' = {} /\ nonces' = NoClaims
        /\ UNCHANGED <<bound, lastEpoch, lastSeq, alive, pc, call, claim>>
    BY <1>2 DEF OwnerDown, ids, locals
  <2>2. LifeInv'
    BY <2>1 DEF OnceInv, LifeInv
  <2>3. \A q \in Procs : Same(q)
    BY <2>1 DEF Same
  <2>4. QED
    BY <2>1, <2>2, <2>3, OnceEmpty
<1>3. ASSUME NEW p \in Procs, Abort(p) PROVE OnceInv'
  <2>1. /\ ~up /\ up' = up /\ UNCHANGED <<conv, msgs, nonces, bound, lastEpoch, lastSeq>>
        /\ alive' = alive \ {p} /\ pc'[p] = "idle" /\ call'[p] = NoCall
        /\ \A q \in Procs \ {p} : Same(q)
    BY <1>3 DEF Abort, Die, Locals, tables, ids, Same, TypeInv, ControlInv, LocalsOK
  <2>2. conv = NoConv /\ msgs = {} /\ nonces = NoClaims
    BY <2>1 DEF OnceInv, LifeInv
  <2>3. LifeInv'
    BY <2>1, <2>2 DEF OnceInv, LifeInv, Same
  <2>4. pc'[p] \notin HasClaim /\ call'[p].op # "create"
    BY <2>1, StepSets DEF NoCall
  <2>5. QED
    BY <2>1, <2>2, <2>3, <2>4, OnceEmpty
<1>4. QED
  BY <1>1, <1>2, <1>3

\* If no process dies in the middle of a call, every step preserves the invariant.
LEMMA OnceNext ==
  ASSUME Mortal = {}, TypeInv, TypeInv', OnceInv, [Next]_vars
  PROVE  OnceInv'
<1>1. ASSUME NEW p \in Procs, Begin(p) \/ Step(p) \/ Exit(p) PROVE OnceInv'
  <2>1. CASE Begin(p)
    BY <2>1, OnceQuiet, OnceCreate DEF Begin
  <2>2. CASE Step(p)
    BY <2>2, OnceQuiet, OnceClaim, OnceLookup, OnceDrop, OnceMark, OnceInsert, OnceUndo, OnceWorld
       DEF Step
  <2>3. ~Exit(p)
    BY DEF Exit
  <2>4. QED
    BY <1>1, <2>1, <2>2, <2>3
<1>2. QED
  BY <1>1, OnceSweep, OnceWorld DEF Next

\* Two visible messages of one nonce are the one that its claim names.
LEMMA OnceStored == TypeInv /\ OnceInv => StoredOnce
<1>1. ASSUME TypeInv, OnceInv, NEW m1 \in Visible, NEW m2 \in Visible, m1.nonce = m2.nonce
      PROVE  m1 = m2
  <2>1. m1 \in msgs /\ m2 \in msgs /\ m1.epoch = conv.epoch /\ m2.epoch = conv.epoch
    BY <1>1 DEF Visible, OfEpoch
  <2>2. m1.seq = m2.seq
    BY <1>1, <2>1 DEF OnceInv, ViewInv
  <2>3. m1 \in Messages /\ m2 \in Messages
    BY <1>1, <2>1 DEF TypeInv, DataOK
  <2>4. QED
    BY <1>1, <2>1, <2>2, <2>3 DEF Messages
<1>2. QED
  BY <1>1 DEF StoredOnce

\* However many calls with one nonce race over the tables, and whatever the sweep,
\* resets, rotations and restarts of the table owner do in between, a reader never sees
\* the message twice, as long as no caller dies between its first and its last ETS
\* operation.  (With such a death it does: run ChatStoreDuplicate.)
THEOREM MessageStoredOnce ==
  ASSUME Mortal = {}
  PROVE  Spec => []StoredOnce
<1>1. Init => TypeInv /\ OnceInv
  BY TypeInit, OnceInit
<1>2. TypeInv /\ OnceInv /\ [Next]_vars => (TypeInv /\ OnceInv)'
  BY TypeNext, OnceNext
<1>3. TypeInv /\ OnceInv => StoredOnce
  BY OnceStored
<1>4. QED
  BY <1>1, <1>2, <1>3, PTL DEF Spec
=============================================================================
