------------------------- MODULE LocalPrivacyProofs -------------------------
(***************************************************************************)
(* Theorems about LocalPrivacy, for any entries, any tasks, any hints, and *)
(* any number of locks, uses of the hint editors and faults.               *)
(***************************************************************************)
EXTENDS LocalPrivacy, SequenceTheorems, TLAPS

\* What a command, or the start of the page, may have left to do
LockLeft == <<"lock", "history">>
Rests ==
  {<< >>, LockLeft, <<"history">>, UnlockSteps, <<"fill", "history", "name", "hint">>,
   <<"history", "name", "hint">>, <<"name", "hint">>, <<"hint">>,
   <<"name", "hint", "history">>, <<"hint", "history">>}

\* ... with the history, or the hint, still to be rendered, and the lock decided
HistoryLeft ==
  {<<"history">>, <<"fill", "history", "name", "hint">>, <<"history", "name", "hint">>,
   <<"name", "hint", "history">>, <<"hint", "history">>}
HintLeft ==
  {<<"fill", "history", "name", "hint">>, <<"history", "name", "hint">>, <<"name", "hint">>,
   <<"hint">>, <<"name", "hint", "history">>, <<"hint", "history">>}

EditSteps == {"idle", "reading", "open", "saving", "rendering"}
Edits == [step : EditSteps, hint : Hints \cup {NoHint, Blank}]

Shown == Hints \cup {NoHint, Unlisted}

StoreOK ==
  /\ meta \in MetaRecord /\ wanted \in MetaRecord
  /\ staged = NotHeld \/ \E m \in MetaRecord : staged = Held(m)
  /\ signOut \in {"no", "waiting", "done"} /\ raced \in BOOLEAN

ScreenOK ==
  /\ lock \in 0 .. locks /\ history \in {"none", "plain", "hidden"}
  /\ text \in [Entries -> {"pending", "plain", "hidden"}]
  /\ shown \in [Pages -> Shown] /\ stale \subseteq Pages /\ overtaken \in BOOLEAN

WorkOK ==
  /\ task \in [Tasks -> Rests]
  /\ todo \in [Tasks -> SUBSET Entries]
  /\ attempt \in [Tasks -> 0 .. locks]
  /\ \A i \in Tasks : todo[i] # {} => task[i] = <<"fill", "history", "name", "hint">>
  /\ edit \in [Pages -> Edits]
  /\ edit["chat"].step = "rendering" => edit["chat"].hint \in Hints \cup {NoHint}

BoundsOK == locks \in 0 .. MaxLocks /\ saves \in 0 .. MaxSaves /\ faults \in 0 .. MaxFaults

TypeInv == StoreOK /\ ScreenOK /\ WorkOK /\ BoundsOK

-----------------------------------------------------------------------------
(* Sequences of steps                                                      *)

\* Each step leads from one rest to the next.
LEMMA Tails ==
  /\ Tail(LockLeft) = <<"history">>
  /\ Tail(<<"history">>) = << >>
  /\ Tail(UnlockSteps) = <<"fill", "history", "name", "hint">>
  /\ Tail(<<"fill", "history", "name", "hint">>) = <<"history", "name", "hint">>
  /\ Tail(<<"history", "name", "hint">>) = <<"name", "hint">>
  /\ Tail(<<"name", "hint">>) = <<"hint">>
  /\ Tail(<<"hint">>) = << >>
  /\ Tail(<<"name", "hint", "history">>) = <<"hint", "history">>
  /\ Tail(<<"hint", "history">>) = <<"history">>
  <1>1. Tail(LockLeft) = <<"history">>
    BY DEF LockLeft
  <1>2. Tail(UnlockSteps) = <<"fill", "history", "name", "hint">>
    BY DEF UnlockSteps
  <1> QED  BY <1>1, <1>2

\* The head of a rest tells which it may be.
LEMMA Heads ==
  ASSUME NEW q \in Rests, q # << >>
  PROVE  /\ Head(q) = "lock" => q = LockLeft
         /\ Head(q) = "unlock" => q = UnlockSteps
         /\ Head(q) = "fill" => q = <<"fill", "history", "name", "hint">>
         /\ Head(q) = "history" => q \in {<<"history">>, <<"history", "name", "hint">>}
         /\ Head(q) = "name" => q \in {<<"name", "hint">>, <<"name", "hint", "history">>}
         /\ Head(q) = "hint" => q \in {<<"hint">>, <<"hint", "history">>}
  BY DEF Rests, LockLeft, UnlockSteps

\* A rest without a hint
LEMMA NoHintLeft ==
  ASSUME NEW q \in Rests, \A n \in DOMAIN q : q[n] # "hint"
  PROVE  q \in {<< >>, LockLeft, <<"history">>}
  <1>1. <<"fill", "history", "name", "hint">>[4] = "hint" /\ 4 \in DOMAIN <<"fill", "history", "name", "hint">>
    OBVIOUS
  <1>2. UnlockSteps[5] = "hint" /\ 5 \in DOMAIN UnlockSteps
    BY DEF UnlockSteps
  <1>3. <<"history", "name", "hint">>[3] = "hint" /\ 3 \in DOMAIN <<"history", "name", "hint">>
    OBVIOUS
  <1>4. <<"name", "hint">>[2] = "hint" /\ 2 \in DOMAIN <<"name", "hint">>
    OBVIOUS
  <1>5. <<"hint">>[1] = "hint" /\ 1 \in DOMAIN <<"hint">>
    OBVIOUS
  <1>6. <<"name", "hint", "history">>[2] = "hint" /\ 2 \in DOMAIN <<"name", "hint", "history">>
    OBVIOUS
  <1>7. <<"hint", "history">>[1] = "hint" /\ 1 \in DOMAIN <<"hint", "history">>
    OBVIOUS
  <1> QED  BY <1>1, <1>2, <1>3, <1>4, <1>5, <1>6, <1>7 DEF Rests

\* A sequence of one element
LEMMA OneElement ==
  ASSUME NEW S, NEW r \in Seq(S), Len(r) = 1, NEW x \in S, r[1] = x
  PROVE  r = <<x>>
  <1>1. <<x>> \in Seq(S) /\ Len(<<x>>) = 1 /\ <<x>>[1] = x
    OBVIOUS
  <1>2. \A i \in 1 .. Len(r) : r[i] = <<x>>[i]
    BY <1>1
  <1> QED  BY <1>1, <1>2, SeqEqual

\* What loadPeerMeta leaves undone when it fails
LEMMA AfterFailedLoad ==
  /\ SubSeq(<<"name", "hint">>, 3, Len(<<"name", "hint">>)) = << >>
  /\ SubSeq(<<"name", "hint", "history">>, 3, Len(<<"name", "hint", "history">>)) = <<"history">>
  <1>1. SubSeq(<<"name", "hint">>, 3, Len(<<"name", "hint">>)) = << >>
    BY SubSeqEmpty
  <1> DEFINE q == <<"name", "hint", "history">>
  <1>2. q \in Seq(Steps) /\ Len(q) = 3 /\ q[3] = "history" /\ "history" \in Steps
    BY DEF Steps
  <1>3. /\ SubSeq(q, 3, 3) \in Seq(Steps)
        /\ Len(SubSeq(q, 3, 3)) = 1 /\ SubSeq(q, 3, 3)[1] = "history"
    BY <1>2, SubSeqProperties
  <1> HIDE DEF q
  <1>4. SubSeq(q, 3, 3) = <<"history">>
    BY <1>2, <1>3, OneElement
  <1> QED  BY <1>1, <1>2, <1>4 DEF q

\* The rests are sequences of steps.
LEMMA RestsAreSteps == Rests \subseteq Seq(Steps)
  BY DEF Rests, LockLeft, UnlockSteps, Steps

-----------------------------------------------------------------------------
(* Types                                                                   *)

\* A page begins with the types right.
LEMMA InitTypes == Init => TypeInv
  <1> SUFFICES ASSUME Init PROVE TypeInv
    OBVIOUS
  <1>1. StoreOK
    <2>1. meta \in MetaRecord /\ wanted \in MetaRecord
      <3>1. PICK h \in Hints \cup {NoHint}, n \in BOOLEAN, e \in Epochs :
              meta = [named |-> n, hint |-> h, epoch |-> e] /\ wanted = meta
        BY DEF Init
      <3> QED  BY <3>1 DEF MetaRecord
    <2>3. staged = NotHeld /\ signOut = "no"
      BY DEF Init
    <2>2. raced \in BOOLEAN
      BY Zenon DEF Init
    <2> QED  BY <2>1, <2>2, <2>3 DEF StoreOK
  <1>2. ScreenOK
    <2>1. overtaken \in BOOLEAN
      BY Zenon DEF Init
    <2>2. shown \in [Pages -> Shown]
      <3>1. PICK h \in Hints \cup {NoHint}, n \in BOOLEAN, e \in Epochs :
              /\ meta = [named |-> n, hint |-> h, epoch |-> e]
              /\ shown = [p \in Pages |-> IF p = "list" THEN Listed(meta) ELSE NoHint]
        BY DEF Init
      <3> QED  BY <3>1 DEF Pages, Listed, Shown
    <2>3. /\ lock \in 0 .. locks /\ history \in {"none", "plain", "hidden"}
          /\ text \in [Entries -> {"pending", "plain", "hidden"}] /\ stale \subseteq Pages
      BY DEF Init, Pages
    <2> QED  BY <2>1, <2>2, <2>3 DEF ScreenOK
  <1>3. WorkOK
    BY DEF Init, WorkOK, Rests, Edits, EditSteps, Pages
  <1>4. BoundsOK
    BY PrivacyAssumption DEF Init, BoundsOK
  <1> QED  BY <1>1, <1>2, <1>3, <1>4 DEF TypeInv

\* The actions that change the record, the sign-out and the editors
LEMMA RatchetTypes ==
  ASSUME TypeInv, RatchetRead \/ RatchetCommit \/ RatchetFails
  PROVE  TypeInv'
  <1>1. StoreOK'
    <2>1. CASE RatchetRead
      BY <2>1 DEF RatchetRead, TypeInv, StoreOK
    <2>2. CASE RatchetCommit
      <3>1. PICK m \in MetaRecord : staged = Held(m)
        BY <2>2 DEF RatchetCommit, TypeInv, StoreOK, NotHeld
      <3>2. PICK e \in Epochs :
              meta' = [m EXCEPT !.epoch = e] /\ wanted' = [wanted EXCEPT !.epoch = e]
        BY <2>2, <3>1 DEF RatchetCommit, Held
      <3>3. meta' \in MetaRecord /\ wanted' \in MetaRecord
        BY <3>2 DEF MetaRecord, TypeInv, StoreOK
      <3> QED  BY <2>2, <3>3 DEF RatchetCommit, TypeInv, StoreOK
    <2>3. CASE RatchetFails
      BY <2>3 DEF RatchetFails, TypeInv, StoreOK
    <2> QED  BY <2>1, <2>2, <2>3
  <1>2. UNCHANGED <<screen, work, bounds>>
    BY DEF RatchetRead, RatchetCommit, RatchetFails
  <1> QED
    BY <1>1, <1>2 DEF TypeInv, ScreenOK, WorkOK, BoundsOK, screen, work, bounds

\* A sign-out removes the hints, and clears the record or fails.
LEMMA SignOutTypes ==
  ASSUME TypeInv, SignOut \/ ClearHints \/ ClearFails
  PROVE  TypeInv'
  <1>1. StoreOK'
    BY DEF SignOut, ClearHints, ClearFails, RemoveHints, Update, TypeInv, StoreOK, MetaRecord
  <1>2. UNCHANGED <<lock, text, history, shown, overtaken, work, locks, saves>>
        /\ stale' \in SUBSET Pages /\ faults' \in 0 .. MaxFaults
    BY PrivacyAssumption
    DEF SignOut, ClearHints, ClearFails, RemoveHints, screen, bounds, Fault, TypeInv,
        ScreenOK, BoundsOK
  <1> QED  BY <1>1, <1>2 DEF TypeInv, ScreenOK, WorkOK, BoundsOK, work

\* The editors hold a hint or none, and what they store is a hint.
LEMMA EditorTypes ==
  ASSUME TypeInv, NEW p \in Pages,
         EditHint(p) \/ OpenEditor \/ CloseEditor(p) \/ SaveHint(p) \/ RenderSaved \/ ListConversations
  PROVE  TypeInv'
  <1> USE DEF TypeInv, StoreOK, ScreenOK, WorkOK, BoundsOK
  <1>1. CASE EditHint(p)
    <2>1. edit' \in [Pages -> Edits]
          /\ (edit'["chat"].step = "rendering" => edit'["chat"].hint \in Hints \cup {NoHint})
      BY <1>1 DEF EditHint, Edits, EditSteps, Pages
    <2>2. saves' \in 0 .. MaxSaves
      BY <1>1, PrivacyAssumption DEF EditHint
    <2> QED  BY <1>1, <2>1, <2>2 DEF EditHint, store, screen
  <1>2. CASE OpenEditor
    <2>1. edit' \in [Pages -> Edits] /\ edit'["chat"].step # "rendering"
      BY <1>2 DEF OpenEditor, Edits, EditSteps, Pages
    <2> QED  BY <1>2, <2>1 DEF OpenEditor, store, screen, bounds
  <1>3. CASE CloseEditor(p)
    <2>1. edit' \in [Pages -> Edits]
          /\ (edit'["chat"].step = "rendering" => edit'["chat"].hint \in Hints \cup {NoHint})
      BY <1>3 DEF CloseEditor, Edits, EditSteps, Pages
    <2> QED  BY <1>3, <2>1 DEF CloseEditor, store, screen, bounds
  <1>4. CASE SaveHint(p)
    <2>1. Normalized(edit[p].hint) \in Hints \cup {NoHint}
      BY DEF Normalized, Edits
    <2>2. meta' \in MetaRecord /\ wanted' \in MetaRecord
      BY <1>4, <2>1 DEF SaveHint, Update, MetaRecord
    <2>3. edit' \in [Pages -> Edits]
          /\ (edit'["chat"].step = "rendering" => edit'["chat"].hint \in Hints \cup {NoHint})
      BY <1>4, <2>1 DEF SaveHint, Edits, EditSteps, Pages
    <2>4. stale' \subseteq Pages
      BY <1>4 DEF SaveHint
    <2> QED  BY <1>4, <2>2, <2>3, <2>4 DEF SaveHint, bounds
  <1>5. CASE RenderSaved
    <2>1. edit' \in [Pages -> Edits] /\ edit'["chat"].step # "rendering"
      BY <1>5 DEF RenderSaved, Edits, EditSteps, Pages
    <2>2. shown' \in [Pages -> Shown]
      BY <1>5 DEF RenderSaved, Pages, Shown
    <2> QED  BY <1>5, <2>1, <2>2 DEF RenderSaved, store, bounds
  <1>6. CASE ListConversations
    <2>1. edit' \in [Pages -> Edits]
          /\ (edit'["chat"].step = "rendering" => edit'["chat"].hint \in Hints \cup {NoHint})
      BY <1>6 DEF ListConversations, Edits, EditSteps, Pages
    <2>2. shown' \in [Pages -> Shown] /\ stale' \subseteq Pages
      BY <1>6 DEF ListConversations, Pages, Listed, MetaRecord, Shown
    <2> QED  BY <1>6, <2>1, <2>2 DEF ListConversations, store, bounds
  <1> QED  BY <1>1, <1>2, <1>3, <1>4, <1>5, <1>6

\* The steps of the tasks
LEMMA RenderTypes ==
  ASSUME TypeInv, NEW e \in Entries, RenderEntry(e)
  PROVE  TypeInv'
  <1>1. text' \in [Entries -> {"pending", "plain", "hidden"}]
    BY DEF RenderEntry, Rendered, TypeInv, ScreenOK
  <1> QED
    BY <1>1 DEF RenderEntry, TypeInv, StoreOK, ScreenOK, WorkOK, BoundsOK, store, work, bounds

\* :lock and :unlock start a task in a free slot.
LEMMA CommandTypes ==
  ASSUME TypeInv, NEW i \in Tasks, LockCommand(i) \/ UnlockCommand(i)
  PROVE  TypeInv'
  <1> USE DEF TypeInv, StoreOK, ScreenOK, WorkOK, BoundsOK
  <1>0. << >> # <<"fill", "history", "name", "hint">>
    OBVIOUS
  <1>1. task[i] = << >> /\ todo[i] = {}
    BY <1>0 DEF LockCommand, UnlockCommand, Run
  <1>2. CASE LockCommand(i)
    <2>1. task' \in [Tasks -> Rests]
      BY <1>2 DEF LockCommand, Run, Rests, LockLeft
    <2>2. attempt' \in [Tasks -> 0 .. locks'] /\ locks' \in 0 .. MaxLocks
      BY <1>2, PrivacyAssumption DEF LockCommand
    <2>3. \A j \in Tasks : todo'[j] # {} => task'[j] = <<"fill", "history", "name", "hint">>
      BY <1>1, <1>2 DEF LockCommand, Run
    <2>4. lock' \in 0 .. locks'
      BY <1>2, <2>2 DEF LockCommand, screen
    <2> QED  BY <1>2, <2>1, <2>2, <2>3, <2>4 DEF LockCommand, store, screen
  <1>3. CASE UnlockCommand(i)
    <2>1. task' \in [Tasks -> Rests]
      BY <1>3 DEF UnlockCommand, Run, Rests
    <2>2. attempt' \in [Tasks -> 0 .. locks]
      BY <1>3 DEF UnlockCommand, bounds
    <2>3. \A j \in Tasks : todo'[j] # {} => task'[j] = <<"fill", "history", "name", "hint">>
      BY <1>1, <1>3 DEF UnlockCommand, Run
    <2> QED  BY <1>3, <2>1, <2>2, <2>3 DEF UnlockCommand, store, screen, bounds
  <1> QED  BY <1>2, <1>3

\* What each step of a task takes off its sequence
LEMMA NextRests ==
  ASSUME TypeInv, NEW i \in Tasks
  PROVE  /\ Doing(i, "lock") => task[i] = LockLeft /\ Tail(task[i]) = <<"history">>
         /\ Doing(i, "unlock") =>
              task[i] = UnlockSteps /\ Tail(task[i]) = <<"fill", "history", "name", "hint">>
         /\ Doing(i, "fill") =>
              /\ task[i] = <<"fill", "history", "name", "hint">>
              /\ Tail(task[i]) = <<"history", "name", "hint">>
         /\ Doing(i, "history") =>
              \/ task[i] = <<"history">> /\ Tail(task[i]) = << >>
              \/ task[i] = <<"history", "name", "hint">> /\ Tail(task[i]) = <<"name", "hint">>
         /\ Doing(i, "name") =>
              \/ task[i] = <<"name", "hint">> /\ Tail(task[i]) = <<"hint">>
              \/ task[i] = <<"name", "hint", "history">> /\ Tail(task[i]) = <<"hint", "history">>
         /\ Doing(i, "hint") =>
              \/ task[i] = <<"hint">> /\ Tail(task[i]) = << >>
              \/ task[i] = <<"hint", "history">> /\ Tail(task[i]) = <<"history">>
  <1>1. task[i] \in Rests
    BY DEF TypeInv, WorkOK
  <1> QED  BY <1>1, Heads, Tails DEF Doing

\* What a task has left after a step is a rest again.
LEMMA TailInRests ==
  ASSUME TypeInv, NEW i \in Tasks, task[i] # << >>
  PROVE  Tail(task[i]) \in Rests
  <1>1. task[i] \in Rests
    BY DEF TypeInv, WorkOK
  <1> QED  BY <1>1, Tails DEF Rests

\* Only a task about to fill has entries to fill.
LEMMA NoTodo ==
  ASSUME TypeInv, NEW i \in Tasks, NEW s \in Steps \ {"fill"}, Doing(i, s)
  PROVE  todo[i] = {}
  BY DEF TypeInv, WorkOK, Doing

\* The steps of :lock and :unlock keep the types, one lemma a step.
LEMMA LockTypes ==
  ASSUME TypeInv, NEW i \in Tasks, Lock(i)
  PROVE  TypeInv'
  <1>1. todo[i] = {} /\ Tail(task[i]) \in Rests
    BY NoTodo, TailInRests DEF Lock, Doing, Steps
  <1>2. task' \in [Tasks -> Rests]
    BY <1>1 DEF Lock, Done, TypeInv, WorkOK
  <1>3. \A j \in Tasks : todo'[j] # {} => task'[j] = <<"fill", "history", "name", "hint">>
    BY <1>1 DEF Lock, Done, TypeInv, WorkOK
  <1>4. lock' \in 0 .. locks /\ attempt' \in [Tasks -> 0 .. locks]
    BY DEF Lock, TypeInv, WorkOK, BoundsOK
  <1>5. shown' \in [Pages -> Shown]
        /\ text' \in [Entries -> {"pending", "plain", "hidden"}]
    BY DEF Lock, LockHidesHint, TypeInv, ScreenOK, Shown
  <1>6. overtaken' \in BOOLEAN
    BY Zenon DEF Lock, HintWork
  <1>7. StoreOK' /\ BoundsOK'
    BY DEF Lock, TypeInv, StoreOK, BoundsOK, store, bounds
  <1>8. ScreenOK'
    BY <1>4, <1>5, <1>6 DEF Lock, TypeInv, ScreenOK, bounds
  <1>9. WorkOK'
    BY <1>2, <1>3, <1>4 DEF Lock, TypeInv, WorkOK, bounds
  <1> QED  BY <1>7, <1>8, <1>9 DEF TypeInv

\* The same of the step that unlocks the screen
LEMMA UnlockTypes ==
  ASSUME TypeInv, NEW i \in Tasks, Unlock(i)
  PROVE  TypeInv'
  <1>1. todo[i] = {} /\ Tail(task[i]) = <<"fill", "history", "name", "hint">>
    BY NoTodo, NextRests DEF Unlock, Steps
  <1>2. attempt' \in [Tasks -> 0 .. locks] /\ lock' \in 0 .. locks
    BY DEF Unlock, TypeInv, WorkOK, ScreenOK, BoundsOK
  <1>3. task' \in [Tasks -> Rests] /\ todo' \in [Tasks -> SUBSET Entries]
    BY <1>1 DEF Unlock, Done, GiveUp, Locked, TypeInv, WorkOK, Rests
  <1>4. \A j \in Tasks : todo'[j] # {} => task'[j] = <<"fill", "history", "name", "hint">>
    BY <1>1 DEF Unlock, Done, GiveUp, TypeInv, WorkOK
  <1> QED
    BY <1>2, <1>3, <1>4
    DEF Unlock, TypeInv, StoreOK, ScreenOK, WorkOK, BoundsOK, store, bounds

\* The same of the steps that fill an entry
LEMMA FillTypes ==
  ASSUME TypeInv, NEW i \in Tasks, Fill(i) \/ FillNothing(i)
  PROVE  TypeInv'
  <1>1. Tail(task[i]) \in Rests
    BY TailInRests DEF Fill, FillNothing, Doing
  <1>2. task' \in [Tasks -> Rests]
    BY <1>1 DEF Fill, FillNothing, Done, TypeInv, WorkOK
  <1>3. todo' \in [Tasks -> SUBSET Entries] /\ text' \in [Entries -> {"pending", "plain", "hidden"}]
    BY DEF Fill, FillNothing, Rendered, TypeInv, WorkOK, ScreenOK, screen
  <1>4. \A j \in Tasks : todo'[j] # {} => task'[j] = <<"fill", "history", "name", "hint">>
    BY DEF Fill, FillNothing, Done, TypeInv, WorkOK
  <1> QED
    BY <1>2, <1>3, <1>4
    DEF Fill, FillNothing, TypeInv, StoreOK, ScreenOK, WorkOK, BoundsOK, store, screen, bounds

\* The same of the step that renders the history, or fails to read it
LEMMA HistoryTypes ==
  ASSUME TypeInv, NEW i \in Tasks, RenderHistory(i) \/ ReadFails(i)
  PROVE  TypeInv'
  <1>1. Tail(task[i]) \in Rests /\ << >> \in Rests
    BY TailInRests DEF RenderHistory, ReadFails, Doing, Rests
  <1>2. task' \in [Tasks -> Rests] /\ todo' \in [Tasks -> SUBSET Entries]
    BY <1>1 DEF RenderHistory, ReadFails, Done, GiveUp, TypeInv, WorkOK
  <1>3. \A j \in Tasks : todo'[j] # {} => task'[j] = <<"fill", "history", "name", "hint">>
    <2>1. CASE RenderHistory(i)
      BY <2>1, NoTodo DEF RenderHistory, Steps, Done, TypeInv, WorkOK
    <2>2. CASE ReadFails(i)
      BY <2>2 DEF ReadFails, GiveUp, TypeInv, WorkOK
    <2> QED  BY <2>1, <2>2
  <1>4. history' \in {"none", "plain", "hidden"} /\ faults' \in 0 .. MaxFaults
    BY PrivacyAssumption
    DEF RenderHistory, ReadFails, Rendered, Fault, TypeInv, ScreenOK, BoundsOK, screen, bounds
  <1> QED
    BY <1>2, <1>3, <1>4
    DEF RenderHistory, ReadFails, TypeInv, StoreOK, ScreenOK, WorkOK, BoundsOK, store, screen, bounds

\* The same of the steps that load the name and the hint
LEMMA LoadTypes ==
  ASSUME TypeInv, NEW i \in Tasks, Name(i) \/ ShowHint(i) \/ LoadFails(i)
  PROVE  TypeInv'
  <1>1. Tail(task[i]) \in Rests /\ todo[i] = {}
    BY TailInRests, NoTodo DEF Name, ShowHint, LoadFails, Doing, Steps
  <1>2. LoadFails(i) => SubSeq(task[i], 3, Len(task[i])) \in Rests
    BY NextRests, AfterFailedLoad DEF LoadFails, Rests
  <1>3. task' \in [Tasks -> Rests]
    BY <1>1, <1>2 DEF Name, ShowHint, LoadFails, Done, TypeInv, WorkOK
  <1>4. \A j \in Tasks : todo'[j] # {} => task'[j] = <<"fill", "history", "name", "hint">>
    BY <1>1 DEF Name, ShowHint, LoadFails, Done, TypeInv, WorkOK
  <1>5. meta' \in MetaRecord /\ wanted' \in MetaRecord
    BY DEF Name, ShowHint, LoadFails, Update, MetaRecord, TypeInv, StoreOK, store
  <1>6. shown' \in [Pages -> Shown] /\ stale' \subseteq Pages
    BY DEF Name, ShowHint, LoadFails, MetaRecord, TypeInv, StoreOK, ScreenOK, store, screen, Shown,
           Pages
  <1>7. faults' \in 0 .. MaxFaults
    <2>1. faults' = faults \/ (faults' = faults + 1 /\ faults < MaxFaults)
      BY DEF Name, ShowHint, LoadFails, Fault, bounds
    <2> QED  BY <2>1, PrivacyAssumption DEF TypeInv, BoundsOK
  <1>8. StoreOK'
    BY <1>5 DEF Name, ShowHint, LoadFails, TypeInv, StoreOK, store
  <1>9. ScreenOK' /\ BoundsOK'
    BY <1>6, <1>7 DEF Name, ShowHint, LoadFails, TypeInv, ScreenOK, BoundsOK, screen, bounds
  <1>10. WorkOK'
    BY <1>3, <1>4 DEF Name, ShowHint, LoadFails, TypeInv, WorkOK, bounds
  <1> QED  BY <1>8, <1>9, <1>10 DEF TypeInv

\* Types that are inductive: a task under way is a rest of one of the page's sequences of
\* steps, and the bounds on locks, saves and failures are respected.
THEOREM TypesKept == Spec => []TypeInv
  <1>1. TypeInv /\ [Next]_vars => TypeInv'
    <2> SUFFICES ASSUME TypeInv, [Next]_vars PROVE TypeInv'
      OBVIOUS
    <2>1. CASE UNCHANGED vars
      BY <2>1
      DEF vars, TypeInv, StoreOK, ScreenOK, WorkOK, BoundsOK, store, screen, work, bounds
    <2>2. CASE Next
      BY <2>2, RatchetTypes, SignOutTypes, EditorTypes, RenderTypes, CommandTypes, LockTypes,
         UnlockTypes, FillTypes, HistoryTypes, LoadTypes
      DEF Next, Pages
    <2> QED  BY <2>1, <2>2
  <1> QED  BY InitTypes, <1>1, PTL DEF Spec

\* Type correctness: a task is a sequence of steps, and has entries to fill only when it
\* is about to.
THEOREM TypeCorrect == Spec => []TypeOK
  <1>1. TypeInv => TypeOK
    <2> SUFFICES ASSUME TypeInv PROVE TypeOK
      OBVIOUS
    <2>1. staged \in {NotHeld} \cup {Held(m) : m \in MetaRecord}
      BY DEF TypeInv, StoreOK
    <2>2. \A i \in Tasks :
            /\ task[i] \in Seq(Steps) /\ attempt[i] \in 0 .. locks
            /\ todo[i] # {} => Doing(i, "fill") /\ todo[i] \subseteq Entries
      BY RestsAreSteps DEF TypeInv, WorkOK, Doing
    <2>3. \A p \in Pages :
            /\ edit[p].step \in {"idle", "reading", "open", "saving", "rendering"}
            /\ edit[p].hint \in Hints \cup {NoHint, Blank}
      BY DEF TypeInv, WorkOK, Edits, EditSteps
    <2> QED  BY <2>1, <2>2, <2>3 DEF TypeInv, StoreOK, ScreenOK, BoundsOK, TypeOK, Shown
  <1> QED  BY TypesKept, <1>1, PTL

-----------------------------------------------------------------------------
(* The record                                                              *)

\* The record is what its writers meant, and a ratchet step under way has read it as it is,
\* but for what a sign-out that raced with the step took out of it: the hint.
OverInv ==
  /\ meta.epoch = wanted.epoch /\ meta.named = wanted.named
  /\ staged.held => staged.meta.named = meta.named
  /\ ~raced => meta.hint = wanted.hint /\ (staged.held => staged.meta.hint = meta.hint)

\* An update of a field leaves the other fields of the record alone.
LEMMA UpdateKeeps ==
  ASSUME TypeInv, NEW field \in {"named", "hint"}, NEW value, Update(field, value)
  PROVE  /\ meta'.epoch = meta.epoch /\ wanted'.epoch = wanted.epoch
         /\ field = "named" =>
              /\ meta'.named = value /\ wanted'.named = value
              /\ meta'.hint = meta.hint /\ wanted'.hint = wanted.hint
         /\ field = "hint" =>
              /\ meta'.hint = value /\ wanted'.hint = value
              /\ meta'.named = meta.named /\ wanted'.named = wanted.named
  BY DEF Update, TypeInv, StoreOK, MetaRecord

\* All that changes the record while a ratchet step is under way is a sign-out that raced.
LEMMA OverKept ==
  ASSUME TypeInv, OverInv, [Next]_vars
  PROVE  OverInv'
  <1>1. CASE UNCHANGED store
    BY <1>1 DEF store, OverInv
  <1>2. CASE RatchetRead
    BY <1>2 DEF RatchetRead, OverInv, Held
  <1>3. CASE RatchetCommit
    <2>1. PICK m \in MetaRecord : staged = Held(m)
      BY <1>3 DEF RatchetCommit, TypeInv, StoreOK, NotHeld
    <2>2. PICK e \in Epochs :
            meta' = [m EXCEPT !.epoch = e] /\ wanted' = [wanted EXCEPT !.epoch = e]
      BY <1>3, <2>1 DEF RatchetCommit, Held
    <2>3. /\ meta'.epoch = e /\ meta'.named = m.named /\ meta'.hint = m.hint
          /\ wanted'.epoch = e /\ wanted'.named = wanted.named /\ wanted'.hint = wanted.hint
      BY <2>2 DEF TypeInv, StoreOK, MetaRecord
    <2>4. staged.held /\ staged.meta = m /\ ~staged'.held /\ raced' = raced
      BY <1>3, <2>1 DEF RatchetCommit, Held, NotHeld
    <2> QED  BY <2>3, <2>4 DEF OverInv
  <1>4. CASE RatchetFails
    BY <1>4 DEF RatchetFails, OverInv, NotHeld
  <1>5. CASE SignOut
    BY <1>5 DEF SignOut, OverInv
  <1>6. CASE ClearHints
    <2>1. ~raced' => ~raced /\ ~staged.held
      BY <1>6, Zenon DEF ClearHints
    <2>2. staged' = staged /\ Update("hint", NoHint)
      BY <1>6 DEF ClearHints, RemoveHints
    <2> QED  BY <2>1, <2>2, UpdateKeeps DEF OverInv
  <1>7. CASE ClearFails
    BY <1>7 DEF ClearFails, OverInv
  <1>8. ASSUME NEW p \in Pages, SaveHint(p) PROVE OverInv'
    <2>1. ~staged.held /\ staged' = staged /\ Update("hint", Normalized(edit[p].hint))
      BY <1>8 DEF SaveHint, MayWrite, KeysLockFree
    <2> QED  BY <2>1, UpdateKeeps DEF OverInv
  <1>9. ASSUME NEW i \in Tasks, Name(i) PROVE OverInv'
    <2>1. ~staged.held /\ staged' = staged /\ raced' = raced /\ Update("named", TRUE)
      BY <1>9 DEF Name, KeysLockFree
    <2> QED  BY <2>1, UpdateKeeps DEF OverInv
  <1>10. \/ UNCHANGED store
         \/ RatchetRead \/ RatchetCommit \/ RatchetFails \/ SignOut \/ ClearHints \/ ClearFails
         \/ \E p \in Pages : SaveHint(p)
         \/ \E i \in Tasks : Name(i)
    BY DEF Next, vars, OpenEditor, EditHint, CloseEditor, RenderSaved, ListConversations,
           RenderEntry, LockCommand, UnlockCommand, Lock, Unlock, Fill, FillNothing,
           RenderHistory, ReadFails, ShowHint, LoadFails
  <1> QED  BY <1>1, <1>2, <1>3, <1>4, <1>5, <1>6, <1>7, <1>8, <1>9, <1>10

\* No writer of the peer's record undoes what another wrote: a ratchet step's part and the
\* name are never lost, and the hint is not either, unless a sign-out did not wait for the
\* keys lock.
THEOREM RecordIsNotOverwritten == Spec => []NothingOverwritten
  <1>1. Init => OverInv
    <2> SUFFICES ASSUME Init PROVE OverInv
      OBVIOUS
    <2>1. PICK h \in Hints \cup {NoHint}, n \in BOOLEAN, e \in Epochs : wanted = meta
      BY DEF Init
    <2>2. ~staged.held
      BY DEF Init, NotHeld
    <2> QED  BY <2>1, <2>2 DEF OverInv
  <1>2. OverInv => NothingOverwritten
    BY DEF OverInv, NothingOverwritten
  <1> QED  BY TypesKept, OverKept, <1>1, <1>2, PTL DEF Spec

-----------------------------------------------------------------------------
(* Tasks                                                                   *)

\* A lock under way has its number.
AttemptInv == \A i \in Tasks : task[i] = LockLeft => attempt[i] > 0

\* A lock takes its number before its second step.
LEMMA AttemptKept ==
  ASSUME TypeInv, AttemptInv, [Next]_vars
  PROVE  AttemptInv'
  <1>1. LockLeft # << >> /\ LockLeft \notin HistoryLeft \cup HintLeft
    BY DEF LockLeft, HistoryLeft, HintLeft
  <1>2. CASE UNCHANGED <<task, attempt>>
    BY <1>2 DEF AttemptInv
  <1>3. ASSUME NEW i \in Tasks, LockCommand(i) PROVE AttemptInv'
    BY <1>3 DEF LockCommand, Run, AttemptInv, TypeInv, WorkOK, BoundsOK
  <1>4. ASSUME NEW i \in Tasks, UnlockCommand(i) PROVE AttemptInv'
    <2>1. UnlockSteps # LockLeft
      BY DEF UnlockSteps, LockLeft
    <2> QED  BY <1>4, <2>1 DEF UnlockCommand, Run, AttemptInv, TypeInv, WorkOK
  <1>5. ASSUME NEW i \in Tasks, task'[i] # LockLeft,
               \A j \in Tasks \ {i} : task'[j] = task[j] /\ attempt'[j] = attempt[j]
        PROVE  AttemptInv'
    BY <1>5 DEF AttemptInv
  <1>6. ASSUME NEW i \in Tasks, Lock(i) \/ Unlock(i) PROVE AttemptInv'
    <2>1. task'[i] # LockLeft
      BY <1>1, <1>6, NextRests DEF Lock, Unlock, Done, GiveUp, HistoryLeft, TypeInv, WorkOK
    <2>2. \A j \in Tasks \ {i} : task'[j] = task[j] /\ attempt'[j] = attempt[j]
      BY <1>6 DEF Lock, Unlock, Done, GiveUp, TypeInv, WorkOK
    <2> QED  BY <2>1, <2>2, <1>5
  <1>7. ASSUME NEW i \in Tasks, Fill(i) \/ FillNothing(i) \/ RenderHistory(i) \/ ReadFails(i)
        PROVE  AttemptInv'
    <2>1. task'[i] # LockLeft
      BY <1>1, <1>7, NextRests
      DEF Fill, FillNothing, RenderHistory, ReadFails, Done, GiveUp, HistoryLeft, HintLeft,
          TypeInv, WorkOK
    <2>2. \A j \in Tasks \ {i} : task'[j] = task[j] /\ attempt'[j] = attempt[j]
      <3>1. Done(i) \/ GiveUp(i) \/ UNCHANGED task
        BY <1>7 DEF Fill, FillNothing, RenderHistory, ReadFails
      <3>2. UNCHANGED attempt
        BY <1>7 DEF Fill, FillNothing, RenderHistory, ReadFails
      <3> QED  BY <3>1, <3>2 DEF Done, GiveUp, TypeInv, WorkOK
    <2> QED  BY <2>1, <2>2, <1>5
  <1>8. ASSUME NEW i \in Tasks, Name(i) \/ ShowHint(i) \/ LoadFails(i)
        PROVE  AttemptInv'
    <2>1. task'[i] # LockLeft
      BY <1>1, <1>8, NextRests, AfterFailedLoad
      DEF Name, ShowHint, LoadFails, Done, HistoryLeft, HintLeft, TypeInv, WorkOK
    <2>2. \A j \in Tasks \ {i} : task'[j] = task[j] /\ attempt'[j] = attempt[j]
      BY <1>8 DEF Name, ShowHint, LoadFails, Done, TypeInv, WorkOK
    <2> QED  BY <2>1, <2>2, <1>5
  <1>9. \/ UNCHANGED <<task, attempt>>
        \/ \E i \in Tasks :
             \/ LockCommand(i) \/ UnlockCommand(i) \/ Lock(i) \/ Unlock(i)
             \/ Fill(i) \/ FillNothing(i) \/ RenderHistory(i) \/ ReadFails(i)
             \/ Name(i) \/ ShowHint(i) \/ LoadFails(i)
    BY DEF Next, vars, work, RatchetRead, RatchetCommit, RatchetFails, SignOut, ClearHints,
           RemoveHints, ClearFails, OpenEditor, EditHint, CloseEditor, SaveHint, RenderSaved,
           ListConversations, RenderEntry
  <1> QED  BY <1>2, <1>3, <1>4, <1>6, <1>7, <1>8, <1>9

\* As long as nothing fails, nothing has failed.
LEMMA NoFault ==
  ASSUME TypeInv, [Next]_vars, faults' = 0
  PROVE  faults = 0 /\ ~ClearFails /\ \A i \in Tasks : ~ReadFails(i) /\ ~LoadFails(i)
  <1>1. faults \in Nat
    BY PrivacyAssumption DEF TypeInv, BoundsOK
  <1>2. ~ClearFails /\ \A i \in Tasks : ~ReadFails(i) /\ ~LoadFails(i)
    BY <1>1 DEF ClearFails, ReadFails, LoadFails, Fault
  <1>3. faults' = faults
    BY <1>2 DEF Next, vars, bounds, RatchetRead, RatchetCommit, RatchetFails, SignOut, ClearHints,
           RemoveHints, OpenEditor, EditHint, CloseEditor, SaveHint, RenderSaved,
           ListConversations, RenderEntry, LockCommand, UnlockCommand, Lock, Unlock, Fill,
           FillNothing, RenderHistory, Name, ShowHint
  <1> QED  BY <1>1, <1>2, <1>3

\* What a task has left is left until it is done.
LEMMA LeftKept ==
  ASSUME TypeInv, [Next]_vars, faults' = 0, NEW j \in Tasks
  PROVE  /\ task[j] \in HistoryLeft /\ ~RenderHistory(j) => task'[j] \in HistoryLeft
         /\ task[j] \in HintLeft /\ ~ShowHint(j) => task'[j] \in HintLeft
  <1>1. CASE task'[j] = task[j]
    BY <1>1
  <1>2. CASE LockCommand(j) \/ UnlockCommand(j)
    <2>1. << >> \notin HistoryLeft \cup HintLeft
      BY DEF HistoryLeft, HintLeft
    <2> QED  BY <1>2, <2>1 DEF LockCommand, UnlockCommand, Run
  <1>3. CASE Lock(j) \/ Unlock(j)
    <2>1. LockLeft \notin HistoryLeft \cup HintLeft /\ UnlockSteps \notin HistoryLeft \cup HintLeft
      BY DEF HistoryLeft, HintLeft, LockLeft, UnlockSteps
    <2> QED  BY <1>3, <2>1, NextRests DEF Lock, Unlock
  <1>4. CASE Fill(j) \/ FillNothing(j)
    <2>1. task'[j] \in {task[j], <<"history", "name", "hint">>}
      BY <1>4, NextRests DEF Fill, FillNothing, Done, TypeInv, WorkOK
    <2> QED  BY <2>1 DEF HistoryLeft, HintLeft
  <1>5. CASE RenderHistory(j)
    <2>1. <<"history">> \notin HintLeft
      BY DEF HintLeft
    <2>2. task[j] = <<"history">> \/ task'[j] = <<"name", "hint">>
      BY <1>5, NextRests DEF RenderHistory, Done, TypeInv, WorkOK
    <2> QED  BY <1>5, <2>1, <2>2 DEF HintLeft
  <1>6. CASE Name(j)
    <2>1. <<"name", "hint">> \notin HistoryLeft
      BY DEF HistoryLeft
    <2>2. \/ task[j] = <<"name", "hint">> /\ task'[j] = <<"hint">>
          \/ task'[j] = <<"hint", "history">>
      BY <1>6, NextRests DEF Name, Done, TypeInv, WorkOK
    <2> QED  BY <2>1, <2>2 DEF HistoryLeft, HintLeft
  <1>7. CASE ShowHint(j)
    <2>1. <<"hint">> \notin HistoryLeft
      BY DEF HistoryLeft
    <2>2. task[j] = <<"hint">> \/ task'[j] = <<"history">>
      BY <1>7, NextRests DEF ShowHint, Done, TypeInv, WorkOK
    <2> QED  BY <1>7, <2>1, <2>2 DEF HistoryLeft
  <1>8. \/ task'[j] = task[j]
        \/ LockCommand(j) \/ UnlockCommand(j) \/ Lock(j) \/ Unlock(j) \/ Fill(j) \/ FillNothing(j)
        \/ RenderHistory(j) \/ Name(j) \/ ShowHint(j)
    <2>1. CASE UNCHANGED task
      BY <2>1
    <2>2. ASSUME NEW i \in Tasks,
                 \/ LockCommand(i) \/ UnlockCommand(i) \/ Lock(i) \/ Unlock(i)
                 \/ Fill(i) \/ FillNothing(i) \/ RenderHistory(i) \/ Name(i) \/ ShowHint(i),
                 i # j
          PROVE  task'[j] = task[j]
      BY <2>2 DEF LockCommand, UnlockCommand, Run, Lock, Unlock, Fill, FillNothing, RenderHistory,
                  Name, ShowHint, Done, GiveUp, TypeInv, WorkOK
    <2>3. \/ UNCHANGED task
          \/ \E i \in Tasks :
               \/ LockCommand(i) \/ UnlockCommand(i) \/ Lock(i) \/ Unlock(i)
               \/ Fill(i) \/ FillNothing(i) \/ RenderHistory(i) \/ Name(i) \/ ShowHint(i)
      BY NoFault
      DEF Next, vars, work, RatchetRead, RatchetCommit, RatchetFails, SignOut, ClearHints,
          RemoveHints, OpenEditor, EditHint, CloseEditor, SaveHint, RenderSaved,
          ListConversations, RenderEntry
    <2> QED  BY <2>1, <2>2, <2>3
  <1> QED  BY <1>1, <1>2, <1>3, <1>4, <1>5, <1>6, <1>7, <1>8

-----------------------------------------------------------------------------
(* The screen lock                                                         *)

TextHidden == lock # 0 => \A e \in Entries : text[e] # "plain"

\* What an unlock has not filled yet is on its list.
TextReadable ==
  lock = 0 /\ faults = 0 =>
    \A e \in Entries : text[e] = "hidden" => \E i \in Tasks : e \in todo[i]

\* Where the history is not as the lock wants it, a task will render it.
HistoryDue == (lock # 0 /\ history = "plain") \/ (lock = 0 /\ history = "hidden")
HistoryPending == faults = 0 /\ HistoryDue => \E i \in Tasks : task[i] \in HistoryLeft

\* The hint is hidden, and no work that could show it is under way.
HintGone ==
  lock # 0 /\ ~overtaken =>
    /\ shown["chat"] = NoHint
    /\ edit["chat"].step = "idle"
    /\ \A i \in Tasks : task[i] \notin HintLeft

LockInv == AttemptInv /\ TextHidden /\ TextReadable /\ HistoryPending /\ HintGone

\* Most actions leave the lock and the entries alone.
LEMMA LockFrame ==
  ASSUME TypeInv, [Next]_vars
  PROVE  \/ UNCHANGED <<lock, text, todo, overtaken>>
         \/ \E e \in Entries : RenderEntry(e)
         \/ \E i \in Tasks : Lock(i) \/ Unlock(i) \/ Fill(i) \/ FillNothing(i) \/ ReadFails(i)
  BY DEF Next, vars, screen, work, RatchetRead, RatchetCommit, RatchetFails, SignOut, ClearHints,
         RemoveHints, ClearFails, OpenEditor, EditHint, CloseEditor, SaveHint, RenderSaved,
         ListConversations, LockCommand, UnlockCommand, RenderHistory, Name, ShowHint, LoadFails

\* No step that shows a text runs while the screen is locked.
LEMMA TextHiddenKept ==
  ASSUME TypeInv, TextHidden, [Next]_vars
  PROVE  TextHidden'
  <1> USE DEF TextHidden, Rendered, TypeInv, ScreenOK
  <1>1. CASE UNCHANGED <<lock, text, todo, overtaken>>
    BY <1>1
  <1>2. ASSUME NEW e \in Entries, RenderEntry(e) PROVE TextHidden'
    BY <1>2 DEF RenderEntry
  <1>3. ASSUME NEW i \in Tasks, Lock(i) PROVE TextHidden'
    BY <1>3 DEF Lock
  <1>4. ASSUME NEW i \in Tasks, Unlock(i) PROVE TextHidden'
    BY <1>4 DEF Unlock
  <1>5. ASSUME NEW i \in Tasks, Fill(i) PROVE TextHidden'
    BY <1>5 DEF Fill
  <1>6. ASSUME NEW i \in Tasks, FillNothing(i) \/ ReadFails(i) PROVE TextHidden'
    BY <1>6 DEF FillNothing, ReadFails, store, screen
  <1> QED  BY <1>1, <1>2, <1>3, <1>4, <1>5, <1>6, LockFrame

\* A step that masks a text runs on a locked screen, and an unlock leaves the entries to fill.
LEMMA TextReadableKept ==
  ASSUME TypeInv, AttemptInv, TextReadable, [Next]_vars
  PROVE  TextReadable'
  <1> SUFFICES ASSUME lock' = 0, faults' = 0, NEW e \in Entries, text'[e] = "hidden"
               PROVE  \E j \in Tasks : e \in todo'[j]
    BY DEF TextReadable
  <1>0. faults = 0 /\ \A i \in Tasks : ~ReadFails(i)
    BY NoFault
  <1>1. CASE UNCHANGED <<lock, text, todo, overtaken>>
    BY <1>0, <1>1 DEF TextReadable
  <1>2. ASSUME NEW d \in Entries, RenderEntry(d) PROVE \E j \in Tasks : e \in todo'[j]
    BY <1>0, <1>2 DEF RenderEntry, Rendered, TextReadable, TypeInv, ScreenOK, work
  <1>3. ASSUME NEW i \in Tasks, Lock(i) PROVE FALSE
    BY <1>3, NextRests DEF Lock, AttemptInv, TypeInv, WorkOK, ScreenOK, BoundsOK
  <1>4. ASSUME NEW i \in Tasks, Unlock(i) PROVE \E j \in Tasks : e \in todo'[j]
    <2>1. CASE lock # 0
      BY <1>4, <2>1 DEF Unlock, Locked, TypeInv, WorkOK
    <2>2. CASE lock = 0
      BY <1>0, <1>4, <2>2 DEF Unlock, TextReadable
    <2> QED  BY <2>1, <2>2
  <1>5. ASSUME NEW i \in Tasks, Fill(i) PROVE \E j \in Tasks : e \in todo'[j]
    <2> DEFINE m == Min(todo[i])
    <2>1. lock = 0 /\ text' = [text EXCEPT ![m] = "plain"] /\ todo' = [todo EXCEPT ![i] = @ \ {m}]
      BY <1>5 DEF Fill, Rendered
    <2> HIDE DEF m
    <2>2. e # m /\ text[e] = "hidden"
      BY <2>1 DEF TypeInv, ScreenOK
    <2> QED  BY <1>0, <2>1, <2>2 DEF TextReadable, TypeInv, WorkOK
  <1>6. ASSUME NEW i \in Tasks, FillNothing(i) PROVE \E j \in Tasks : e \in todo'[j]
    BY <1>0, <1>6 DEF FillNothing, TextReadable, screen
  <1> QED  BY <1>0, <1>1, <1>2, <1>3, <1>4, <1>5, <1>6, LockFrame

\* A history is masked by the lock under way, or was by an earlier one.
LEMMA HistoryPendingKept ==
  ASSUME TypeInv, HistoryPending, [Next]_vars
  PROVE  HistoryPending'
  <1> SUFFICES ASSUME faults' = 0, HistoryDue' PROVE \E j \in Tasks : task'[j] \in HistoryLeft
    BY DEF HistoryPending
  <1>0. faults = 0 /\ \A i \in Tasks : ~ReadFails(i) /\ ~LoadFails(i)
    BY NoFault
  <1>1. ASSUME NEW i \in Tasks, RenderHistory(i) PROVE FALSE
    BY <1>1 DEF RenderHistory, Rendered, HistoryDue
  <1>2. CASE lock' = lock /\ history' = history
    <2>1. PICK j \in Tasks : task[j] \in HistoryLeft
      BY <1>0, <1>2 DEF HistoryPending, HistoryDue
    <2> QED  BY <1>1, <2>1, LeftKept
  <1>3. ASSUME NEW i \in Tasks, Lock(i) PROVE \E j \in Tasks : task'[j] \in HistoryLeft
    <2>1. task'[i] = <<"history">>
      BY <1>3, NextRests DEF Lock, Done, TypeInv, WorkOK
    <2> QED  BY <2>1 DEF HistoryLeft
  <1>4. ASSUME NEW i \in Tasks, Unlock(i), lock' # lock
        PROVE  \E j \in Tasks : task'[j] \in HistoryLeft
    <2>1. task'[i] = <<"fill", "history", "name", "hint">>
      BY <1>4, NextRests DEF Unlock, Done, TypeInv, WorkOK
    <2> QED  BY <2>1 DEF HistoryLeft
  <1>5. \/ lock' = lock /\ history' = history
        \/ \E i \in Tasks : Lock(i) \/ RenderHistory(i) \/ (Unlock(i) /\ lock' # lock)
    BY <1>0
    DEF Next, vars, screen, RatchetRead, RatchetCommit, RatchetFails, SignOut, ClearHints,
        RemoveHints, ClearFails, OpenEditor, EditHint, CloseEditor, SaveHint, RenderSaved,
        ListConversations, RenderEntry, LockCommand, UnlockCommand, Unlock, Fill, FillNothing,
        Name, ShowHint
  <1> QED  BY <1>1, <1>2, <1>3, <1>4, <1>5

\* Rests without a hint, or before the lock is decided
LEMMA NotHintLeft ==
  /\ << >> \notin HintLeft /\ LockLeft \notin HintLeft /\ UnlockSteps \notin HintLeft
  /\ <<"history">> \notin HintLeft
  BY DEF HintLeft, LockLeft, UnlockSteps

\* Work on the hint begins with an unlock that succeeds, or was there before.
LEMMA HintLeftFrom ==
  ASSUME TypeInv, [Next]_vars, NEW j \in Tasks, task'[j] \in HintLeft
  PROVE  task[j] \in HintLeft \/ (Unlock(j) /\ lock' = 0)
  <1>2. CASE task'[j] = task[j]
    BY <1>2
  <1>3. CASE LockCommand(j) \/ UnlockCommand(j)
    <2>1. task'[j] \in {LockLeft, UnlockSteps}
      BY <1>3 DEF LockCommand, UnlockCommand, Run, LockLeft, TypeInv, WorkOK
    <2> QED  BY <2>1, NotHintLeft
  <1>4. CASE Lock(j)
    BY NotHintLeft, <1>4, NextRests DEF Lock, Done, TypeInv, WorkOK
  <1>5. CASE Unlock(j)
    BY NotHintLeft, <1>5 DEF Unlock, GiveUp, TypeInv, WorkOK
  <1>6. CASE Fill(j) \/ FillNothing(j) \/ Name(j)
    BY <1>6, NextRests DEF Fill, FillNothing, Name, HintLeft
  <1>7. CASE RenderHistory(j)
    <2>1. task[j] \in HintLeft \/ task'[j] = << >>
      BY <1>7, NextRests DEF RenderHistory, Done, HintLeft, TypeInv, WorkOK
    <2> QED  BY NotHintLeft, <2>1
  <1>8. CASE ReadFails(j)
    BY NotHintLeft, <1>8 DEF ReadFails, GiveUp, TypeInv, WorkOK
  <1>9. CASE ShowHint(j) \/ LoadFails(j)
    BY <1>9, NextRests DEF ShowHint, LoadFails, HintLeft
  <1>10. \/ task'[j] = task[j]
         \/ LockCommand(j) \/ UnlockCommand(j) \/ Lock(j) \/ Unlock(j) \/ Fill(j) \/ FillNothing(j)
         \/ RenderHistory(j) \/ ReadFails(j) \/ Name(j) \/ ShowHint(j) \/ LoadFails(j)
    <2>1. CASE UNCHANGED task
      BY <2>1
    <2>2. ASSUME NEW i \in Tasks,
                 \/ LockCommand(i) \/ UnlockCommand(i) \/ Lock(i) \/ Unlock(i)
                 \/ Fill(i) \/ FillNothing(i) \/ RenderHistory(i) \/ ReadFails(i)
                 \/ Name(i) \/ ShowHint(i) \/ LoadFails(i),
                 i # j
          PROVE  task'[j] = task[j]
      BY <2>2 DEF LockCommand, UnlockCommand, Run, Lock, Unlock, Fill, FillNothing, RenderHistory,
                  ReadFails, Name, ShowHint, LoadFails, Done, GiveUp, TypeInv, WorkOK
    <2>3. \/ UNCHANGED task
          \/ \E i \in Tasks :
               \/ LockCommand(i) \/ UnlockCommand(i) \/ Lock(i) \/ Unlock(i)
               \/ Fill(i) \/ FillNothing(i) \/ RenderHistory(i) \/ ReadFails(i)
               \/ Name(i) \/ ShowHint(i) \/ LoadFails(i)
      BY DEF Next, vars, work, RatchetRead, RatchetCommit, RatchetFails, SignOut, ClearHints,
             RemoveHints, ClearFails, OpenEditor, EditHint, CloseEditor, SaveHint, RenderSaved,
             ListConversations, RenderEntry
    <2> QED  BY <2>1, <2>2, <2>3
  <1> QED
    BY <1>2, <1>3, <1>4, <1>5, <1>6, <1>7, <1>8, <1>9, <1>10

\* A hint comes back on a locked screen only from work that the lock overtook.
LEMMA HintGoneKept ==
  ASSUME TypeInv, HintGone, [Next]_vars
  PROVE  HintGone'
  <1> SUFFICES ASSUME lock' # 0, ~overtaken'
               PROVE  /\ shown'["chat"] = NoHint
                      /\ edit'["chat"].step = "idle"
                      /\ \A i \in Tasks : task'[i] \notin HintLeft
    BY DEF HintGone
  <1> USE DEF TypeInv, ScreenOK, WorkOK
  <1>1. ASSUME NEW i \in Tasks, Lock(i)
        PROVE  /\ shown'["chat"] = NoHint
               /\ edit'["chat"].step = "idle"
               /\ \A j \in Tasks : task'[j] \notin HintLeft
    <2>1. shown'["chat"] = NoHint
      BY <1>1 DEF Lock, LockHidesHint, Pages
    <2>2. ~HintWork(i) /\ edit' = edit
      BY <1>1 DEF Lock
    <2>3. edit'["chat"].step = "idle"
      BY <2>2 DEF HintWork
    <2>4. task'[i] = <<"history">> /\ <<"history">> \notin HintLeft
      BY <1>1, NextRests DEF Lock, Done, HintLeft
    <2>5. ASSUME NEW j \in Tasks, j # i PROVE task'[j] \notin HintLeft
      <3>1. \A n \in DOMAIN task[j] : task[j][n] # "hint"
        BY <2>2, <2>5 DEF HintWork
      <3>2. task[j] \in {<< >>, LockLeft, <<"history">>}
        BY <3>1, NoHintLeft
      <3>3. task'[j] = task[j]
        BY <1>1, <2>5 DEF Lock, Done
      <3> QED  BY <3>2, <3>3, NotHintLeft
    <2> QED  BY <2>1, <2>3, <2>4, <2>5
  <1>2. CASE \A i \in Tasks : ~Lock(i)
    <2>1. lock # 0 /\ ~overtaken
      BY <1>2
      DEF Next, vars, screen, store, RatchetRead, RatchetCommit, RatchetFails, SignOut, ClearHints,
          RemoveHints, ClearFails, OpenEditor, EditHint, CloseEditor, SaveHint, RenderSaved,
          ListConversations, RenderEntry, LockCommand, UnlockCommand, Unlock, Fill, FillNothing,
          RenderHistory, ReadFails, Name, ShowHint, LoadFails
    <2>2. /\ shown["chat"] = NoHint /\ edit["chat"].step = "idle"
          /\ \A i \in Tasks : task[i] \notin HintLeft
      BY <2>1 DEF HintGone
    <2>3. \A i \in Tasks : ~ShowHint(i)
      BY <2>2, NextRests DEF ShowHint, HintLeft
    <2>4. shown'["chat"] = shown["chat"]
      <3>1. shown' = shown \/ RenderSaved \/ ListConversations
        BY <1>2, <2>3
        DEF Next, vars, screen, RatchetRead, RatchetCommit, RatchetFails, SignOut, ClearHints,
            RemoveHints, ClearFails, OpenEditor, EditHint, CloseEditor, SaveHint,
            RenderEntry, LockCommand, UnlockCommand, Unlock, Fill, FillNothing,
            RenderHistory, ReadFails, Name, LoadFails
      <3>2. ~RenderSaved
        BY <2>2 DEF RenderSaved
      <3>3. ListConversations => shown'["chat"] = shown["chat"]
        BY DEF ListConversations, Pages
      <3> QED  BY <3>1, <3>2, <3>3
    <2>5. edit'["chat"].step = "idle"
      <3>1. \/ edit' = edit \/ OpenEditor \/ RenderSaved \/ ListConversations
            \/ \E p \in Pages : EditHint(p) \/ CloseEditor(p) \/ SaveHint(p)
        BY <1>2
        DEF Next, vars, work, RatchetRead, RatchetCommit, RatchetFails, SignOut, ClearHints,
            RemoveHints, ClearFails, RenderEntry, LockCommand, UnlockCommand, Unlock, Fill,
            FillNothing, RenderHistory, ReadFails, Name, ShowHint, LoadFails
      <3>2. ~OpenEditor /\ ~RenderSaved
        BY <2>2 DEF OpenEditor, RenderSaved
      <3>3. ListConversations => edit'["chat"] = edit["chat"]
        BY DEF ListConversations
      <3>4. ASSUME NEW p \in Pages, EditHint(p) \/ CloseEditor(p) \/ SaveHint(p)
            PROVE  edit'["chat"] = edit["chat"]
        <4>1. p # "chat"
          BY <2>1, <2>2, <3>4 DEF EditHint, CloseEditor, SaveHint
        <4>2. \E x : edit' = [edit EXCEPT ![p] = x]
          BY <3>4 DEF EditHint, CloseEditor, SaveHint
        <4> QED  BY <4>1, <4>2
      <3> QED  BY <2>2, <3>1, <3>2, <3>3, <3>4
    <2>6. \A i \in Tasks : task'[i] \notin HintLeft
      BY <2>2, HintLeftFrom
    <2> QED  BY <2>2, <2>4, <2>5, <2>6
  <1> QED  BY <1>1, <1>2

\* What the lock is owed: while it is on, texts and hint are hidden; while it is off, what
\* is still masked is left to a task under way.
THEOREM LockInvariant == Spec => []LockInv
  <1>1. Init => LockInv
    <2> SUFFICES ASSUME Init PROVE LockInv
      OBVIOUS
    <2>1. lock = 0 /\ history = "none" /\ \A e \in Entries : text[e] = "pending"
      BY DEF Init
    <2>2. AttemptInv
      <3>1. \A i \in Tasks : task[i] \in {<<"name", "hint", "history">>, << >>}
        BY DEF Init
      <3>2. LockLeft # << >> /\ LockLeft # <<"name", "hint", "history">>
        BY DEF LockLeft
      <3> QED  BY <3>1, <3>2 DEF AttemptInv
    <2> QED  BY <2>1, <2>2 DEF LockInv, TextHidden, TextReadable, HistoryPending, HistoryDue, HintGone
  <1>2. TypeInv /\ LockInv /\ [Next]_vars => LockInv'
    BY AttemptKept, TextHiddenKept, TextReadableKept, HistoryPendingKept, HintGoneKept DEF LockInv
  <1> QED  BY TypesKept, <1>1, <1>2, PTL DEF Spec

\* While the screen is locked no message is readable, whatever tasks, failures and unlocks
\* overlap; and a :lock that has ended, without a failure, has masked the history.
THEOREM LockedIsHidden == Spec => []MessagesHidden
  <1>1. TypeInv /\ LockInv => MessagesHidden
    <2>1. Idle => \A i \in Tasks : task[i] \notin HistoryLeft
      BY DEF Idle, HistoryLeft
    <2> QED  BY <2>1 DEF LockInv, TextHidden, HistoryPending, HistoryDue, MessagesHidden
  <1> QED  BY TypesKept, LockInvariant, <1>1, PTL

\* An unlocked screen at rest masks nothing: no lock that overtakes an unlock leaves an
\* entry behind.
THEOREM UnlockedIsShown == Spec => []UnlockedIsReadable
  <1>1. TypeInv /\ LockInv => UnlockedIsReadable
    <2>1. Idle => \A i \in Tasks : task[i] \notin HistoryLeft
      BY DEF Idle, HistoryLeft
    <2>2. TypeInv /\ Idle => \A i \in Tasks : todo[i] = {}
      <3>1. << >> # <<"fill", "history", "name", "hint">>
        OBVIOUS
      <3> QED  BY <3>1 DEF Idle, TypeInv, WorkOK
    <2> QED
      BY <2>1, <2>2 DEF LockInv, TextReadable, HistoryPending, HistoryDue, UnlockedIsReadable
  <1> QED  BY TypesKept, LockInvariant, <1>1, PTL

\* A locked screen shows no hint, unless work on it was under way when it was locked.
THEOREM LockedHintIsHidden == Spec => []HintHidden
  <1>1. LockInv => HintHidden
    BY DEF LockInv, HintGone, HintHidden
  <1> QED  BY LockInvariant, <1>1, PTL

-----------------------------------------------------------------------------
(* The hint that is shown                                                  *)

ListShown ==
  ~raced /\ "list" \notin stale /\ edit["list"].step # "rendering" => shown["list"] = Listed(meta)

\* An editor that is about to render has the hint that it stored.
ChatEdit ==
  ~raced /\ "chat" \notin stale /\ edit["chat"].step = "rendering" => edit["chat"].hint = meta.hint

\* The chat shows the stored hint, or a task will.
ChatShown ==
  ~raced /\ "chat" \notin stale /\ edit["chat"].step # "rendering" /\ lock = 0 /\ faults = 0 =>
    shown["chat"] = meta.hint \/ \E i \in Tasks : task[i] \in HintLeft

ShownInv == ListShown /\ ChatEdit /\ ChatShown

\* The stored hint changes with an editor or a sign-out, the name when the peer has none; a
\* ratchet step writes what it read of both.
LEMMA StoredHint ==
  ASSUME TypeInv, OverInv, [Next]_vars, ~raced'
  PROVE  /\ ~raced
         /\ meta'.hint = meta.hint \/ ClearHints \/ \E p \in Pages : SaveHint(p)
         /\ meta'.named = meta.named \/ \E i \in Tasks : Name(i) /\ ~meta.named
  <1>1. ~raced
    <2>1. raced' = raced \/ ClearHints
      BY DEF Next, vars, store, RatchetRead, RatchetCommit, RatchetFails, SignOut, ClearFails,
             OpenEditor, EditHint, CloseEditor, SaveHint, RenderSaved, ListConversations,
             RenderEntry, LockCommand, UnlockCommand, Lock, Unlock, Fill, FillNothing,
             RenderHistory, ReadFails, Name, ShowHint, LoadFails
    <2>2. ClearHints => (raced => raced')
      BY Zenon DEF ClearHints
    <2> QED  BY <2>1, <2>2, Zenon
  <1>2. CASE RatchetCommit
    <2>1. PICK m \in MetaRecord : staged = Held(m)
      BY <1>2 DEF RatchetCommit, TypeInv, StoreOK, NotHeld
    <2>2. PICK e \in Epochs : meta' = [m EXCEPT !.epoch = e]
      BY <1>2, <2>1 DEF RatchetCommit, Held
    <2>3. meta'.named = m.named /\ meta'.hint = m.hint
      BY <2>2 DEF MetaRecord
    <2> QED  BY <1>1, <2>1, <2>3 DEF OverInv, Held
  <1>3. ASSUME NEW i \in Tasks, Name(i)
        PROVE  meta'.hint = meta.hint /\ (meta'.named = meta.named \/ ~meta.named)
    <2>1. Update("named", TRUE)
      BY <1>3 DEF Name
    <2>2. meta.named \in BOOLEAN
      BY DEF TypeInv, StoreOK, MetaRecord
    <2> QED  BY <2>1, <2>2, UpdateKeeps
  <1>5. ASSUME ClearHints \/ \E p \in Pages : SaveHint(p) PROVE meta'.named = meta.named
    <2>1. \E value : Update("hint", value)
      BY <1>5 DEF ClearHints, RemoveHints, SaveHint
    <2> QED  BY <2>1, UpdateKeeps
  <1>4. \/ meta' = meta \/ ClearHints \/ RatchetCommit
        \/ \E p \in Pages : SaveHint(p)
        \/ \E i \in Tasks : Name(i)
    BY DEF Next, vars, store, RatchetRead, RatchetFails, SignOut, ClearFails,
           OpenEditor, EditHint, CloseEditor, RenderSaved, ListConversations,
           RenderEntry, LockCommand, UnlockCommand, Lock, Unlock, Fill, FillNothing,
           RenderHistory, ReadFails, ShowHint, LoadFails
  <1> QED  BY <1>1, <1>2, <1>3, <1>4, <1>5

\* Which actions touch the editors, the hints shown and what is stale
LEMMA EditFrame ==
  ASSUME TypeInv, [Next]_vars
  PROVE  \/ UNCHANGED <<edit, shown, stale>>
         \/ OpenEditor \/ RenderSaved \/ ListConversations \/ ClearHints
         \/ \E p \in Pages : EditHint(p) \/ CloseEditor(p) \/ SaveHint(p)
         \/ \E i \in Tasks : Lock(i) \/ ShowHint(i) \/ Name(i)
  BY DEF Next, vars, store, screen, work, RatchetRead, RatchetCommit, RatchetFails, SignOut,
         ClearFails, RenderEntry, LockCommand, UnlockCommand, Unlock, Fill, FillNothing,
         RenderHistory, ReadFails, LoadFails

\* An editor that was opened, closed or is at rest does not render.
LEMMA EditorMoves ==
  ASSUME TypeInv, NEW p \in Pages, OpenEditor \/ EditHint(p) \/ CloseEditor(p), NEW q \in Pages
  PROVE  /\ UNCHANGED <<shown, stale, meta, raced, lock, task, faults>>
         /\ edit'[q].step = "rendering" <=> edit[q].step = "rendering"
         /\ edit'[q].step = "rendering" => edit'[q] = edit[q]
  <1>1. UNCHANGED <<shown, stale, meta, raced, lock, task, faults>>
    BY DEF OpenEditor, EditHint, CloseEditor, store, screen, bounds
  <1>2. PICK r \in Pages, x \in {"reading", "open", "idle", "saving"} :
          /\ edit[r].step # "rendering" /\ edit'[r].step = x
          /\ \A u \in Pages \ {r} : edit'[u] = edit[u]
    <2>1. CASE OpenEditor
      BY <2>1 DEF OpenEditor, Pages, TypeInv, WorkOK, Edits
    <2>2. CASE EditHint(p)
      BY <2>2 DEF EditHint, Pages, TypeInv, WorkOK, Edits
    <2>3. CASE CloseEditor(p)
      BY <2>3 DEF CloseEditor, Pages, TypeInv, WorkOK, Edits
    <2> QED  BY <2>1, <2>2, <2>3
  <1> QED  BY <1>1, <1>2

\* The list of conversations shows the stored hint, or is marked stale.
LEMMA ListShownKept ==
  ASSUME TypeInv, OverInv, ListShown, [Next]_vars
  PROVE  ListShown'
  <1> SUFFICES ASSUME ~raced', "list" \notin stale', edit'["list"].step # "rendering"
               PROVE  shown'["list"] = Listed(meta')
    BY DEF ListShown
  <1>1. ~raced /\ ~ClearHints
    BY StoredHint DEF ClearHints, RemoveHints, Pages
  <1>2. ASSUME NEW p \in Pages, SaveHint(p) PROVE FALSE
    <2>1. edit'[p].step = "rendering" /\ stale' = stale \cup (Pages \ {p})
      BY <1>2 DEF SaveHint, TypeInv, WorkOK
    <2> QED  BY <2>1 DEF Pages
  <1>0. ASSUME NEW i \in Tasks, Name(i) PROVE meta.named /\ UNCHANGED <<edit, shown, stale>>
    BY <1>0 DEF Name, Pages
  <1>3. meta'.hint = meta.hint /\ meta'.named = meta.named /\ Listed(meta') = Listed(meta)
    BY <1>0, <1>1, <1>2, StoredHint DEF Listed
  <1>4. CASE UNCHANGED <<edit, shown, stale>>
    BY <1>1, <1>3, <1>4 DEF ListShown
  <1>5. ASSUME NEW p \in Pages, OpenEditor \/ EditHint(p) \/ CloseEditor(p)
        PROVE  shown'["list"] = Listed(meta')
    BY <1>1, <1>3, <1>5, EditorMoves DEF ListShown, Pages
  <1>6. CASE RenderSaved
    BY <1>1, <1>3, <1>6 DEF RenderSaved, ListShown, Pages, TypeInv, ScreenOK, WorkOK
  <1>7. CASE ListConversations
    BY <1>3, <1>7 DEF ListConversations, Pages, TypeInv, ScreenOK
  <1>8. ASSUME NEW i \in Tasks, Lock(i) PROVE shown'["list"] = Listed(meta')
    BY <1>1, <1>3, <1>8 DEF Lock, LockHidesHint, ListShown, Pages, TypeInv, ScreenOK
  <1>9. ASSUME NEW i \in Tasks, ShowHint(i) PROVE shown'["list"] = Listed(meta')
    BY <1>1, <1>3, <1>9 DEF ShowHint, ListShown, Pages, TypeInv, ScreenOK
  <1> QED
    BY <1>0, <1>1, <1>2, <1>4, <1>5, <1>6, <1>7, <1>8, <1>9, EditFrame DEF Pages

\* The editor of the chat begins from what the chat shows.
LEMMA ChatEditKept ==
  ASSUME TypeInv, OverInv, ChatEdit, [Next]_vars
  PROVE  ChatEdit'
  <1> SUFFICES ASSUME ~raced', "chat" \notin stale', edit'["chat"].step = "rendering"
               PROVE  edit'["chat"].hint = meta'.hint
    BY DEF ChatEdit
  <1>1. ~raced /\ ~ClearHints
    BY StoredHint DEF ClearHints, RemoveHints, Pages
  <1>2. ASSUME NEW p \in Pages, SaveHint(p) PROVE edit'["chat"].hint = meta'.hint
    <2>1. p = "chat"
      BY <1>2 DEF SaveHint, Pages
    <2> QED  BY <1>2, <2>1 DEF SaveHint, Update, TypeInv, StoreOK, WorkOK, MetaRecord
  <1>3. CASE \A p \in Pages : ~SaveHint(p)
    <2>1. meta'.hint = meta.hint
      BY <1>1, <1>3, StoredHint
    <2>2. CASE UNCHANGED <<edit, shown, stale>>
      BY <1>1, <2>1, <2>2 DEF ChatEdit
    <2>3. ASSUME NEW p \in Pages, OpenEditor \/ EditHint(p) \/ CloseEditor(p)
          PROVE  edit'["chat"].hint = meta'.hint
      BY <1>1, <2>1, <2>3, EditorMoves DEF ChatEdit, Pages
    <2>4. ~RenderSaved
      BY DEF RenderSaved, TypeInv, WorkOK, Pages
    <2>5. CASE ListConversations
      BY <1>1, <2>1, <2>5 DEF ListConversations, ChatEdit, TypeInv, WorkOK
    <2>6. ASSUME NEW i \in Tasks, Lock(i) PROVE edit'["chat"].hint = meta'.hint
      BY <1>1, <2>1, <2>6 DEF Lock, ChatEdit
    <2>7. ASSUME NEW i \in Tasks, ShowHint(i) PROVE edit'["chat"].hint = meta'.hint
      BY <1>1, <2>1, <2>7 DEF ShowHint, ChatEdit
    <2>8. ASSUME NEW i \in Tasks, Name(i) PROVE edit'["chat"].hint = meta'.hint
      <3>1. edit' = edit /\ "chat" \notin stale
        BY <2>8 DEF Name, Pages
      <3> QED  BY <1>1, <2>1, <3>1 DEF ChatEdit
    <2> QED
      BY <1>1, <1>3, <2>2, <2>3, <2>4, <2>5, <2>6, <2>7, <2>8, EditFrame DEF Pages
  <1> QED  BY <1>2, <1>3

\* The chat shows the stored hint, is locked, is about to render it, or is marked stale.
LEMMA ChatShownKept ==
  ASSUME TypeInv, OverInv, AttemptInv, ChatEdit, ChatShown, [Next]_vars
  PROVE  ChatShown'
  <1> SUFFICES ASSUME ~raced', "chat" \notin stale', edit'["chat"].step # "rendering",
                      lock' = 0, faults' = 0
               PROVE  shown'["chat"] = meta'.hint \/ \E i \in Tasks : task'[i] \in HintLeft
    BY DEF ChatShown
  <1> DEFINE Goal == shown'["chat"] = meta'.hint \/ \E i \in Tasks : task'[i] \in HintLeft
  <1>1. ~raced /\ ~ClearHints /\ faults = 0
    BY StoredHint, NoFault DEF ClearHints, RemoveHints, Pages
  <1>2. ASSUME NEW p \in Pages, SaveHint(p) PROVE FALSE
    <2>1. edit'[p].step = "rendering" /\ stale' = stale \cup (Pages \ {p})
      BY <1>2 DEF SaveHint, TypeInv, WorkOK
    <2> QED  BY <2>1 DEF Pages
  <1>3. meta'.hint = meta.hint
    BY <1>1, <1>2, StoredHint
  <1>4. ASSUME NEW i \in Tasks, Lock(i) PROVE FALSE
    BY <1>4, NextRests DEF Lock, AttemptInv, TypeInv, WorkOK, ScreenOK, BoundsOK
  <1>5. ASSUME NEW i \in Tasks, ShowHint(i) PROVE Goal
    BY <1>3, <1>5 DEF ShowHint, Pages, TypeInv, ScreenOK
  <1>6. CASE RenderSaved
    BY <1>1, <1>3, <1>6 DEF RenderSaved, ChatEdit, Pages, TypeInv, ScreenOK
  <1>7. ASSUME NEW i \in Tasks, Unlock(i), lock # 0 PROVE Goal
    <2>1. task'[i] = <<"fill", "history", "name", "hint">>
      BY <1>7, NextRests DEF Unlock, Done, TypeInv, WorkOK
    <2> QED  BY <2>1 DEF HintLeft
  <1>8. CASE /\ lock = 0 /\ shown'["chat"] = shown["chat"] /\ "chat" \notin stale
             /\ edit["chat"].step # "rendering" /\ \A i \in Tasks : ~ShowHint(i)
    <2>1. shown["chat"] = meta.hint \/ \E i \in Tasks : task[i] \in HintLeft
      BY <1>1, <1>8 DEF ChatShown
    <2> QED  BY <1>3, <1>8, <2>1, LeftKept
  <1>9. CASE /\ \A i \in Tasks : ~ShowHint(i)
             /\ ~RenderSaved /\ \A i \in Tasks : ~(Unlock(i) /\ lock # 0)
    <2>1. lock = 0
      BY <1>4, <1>9
      DEF Next, vars, screen, store, RatchetRead, RatchetCommit, RatchetFails, SignOut, ClearHints,
          RemoveHints, ClearFails, OpenEditor, EditHint, CloseEditor, SaveHint,
          ListConversations, RenderEntry, LockCommand, UnlockCommand, Fill, FillNothing,
          RenderHistory, ReadFails, Name, LoadFails
    <2>2. CASE UNCHANGED <<edit, shown, stale>>
      BY <1>8, <1>9, <2>1, <2>2
    <2>3. ASSUME NEW p \in Pages, OpenEditor \/ EditHint(p) \/ CloseEditor(p) PROVE Goal
      BY <1>8, <1>9, <2>1, <2>3, EditorMoves DEF Pages
    <2>4. CASE ListConversations
      BY <1>8, <1>9, <2>1, <2>4 DEF ListConversations, Pages, TypeInv, ScreenOK, WorkOK
    <2>5. ASSUME NEW i \in Tasks, Name(i) PROVE Goal
      <3>1. edit' = edit /\ shown' = shown /\ "chat" \notin stale
        BY <2>5 DEF Name, Pages
      <3> QED  BY <1>8, <1>9, <2>1, <3>1
    <2> QED
      BY <1>1, <1>2, <1>4, <1>9, <2>2, <2>3, <2>4, <2>5, EditFrame DEF Pages
  <1> QED  BY <1>5, <1>6, <1>7, <1>9

\* What a page shows of the hint, with the record that its writers meant
THEOREM ShownInvariant == Spec => [](ShownInv /\ OverInv)
  <1>1. Init => ShownInv /\ OverInv
    <2> SUFFICES ASSUME Init PROVE ShownInv /\ OverInv
      OBVIOUS
    <2>1. PICK h \in Hints \cup {NoHint}, n \in BOOLEAN, e \in Epochs :
            /\ wanted = meta
            /\ shown = [p \in Pages |-> IF p = "list" THEN Listed(meta) ELSE NoHint]
      BY DEF Init
    <2>2. ~staged.held /\ stale = {"chat"}
      BY DEF Init, NotHeld
    <2> QED  BY <2>1, <2>2 DEF ShownInv, OverInv, ListShown, ChatEdit, ChatShown, Pages
  <1>2. /\ TypeInv /\ LockInv /\ ShownInv /\ OverInv /\ [Next]_vars
        => ShownInv' /\ OverInv'
    BY ListShownKept, ChatEditKept, ChatShownKept, OverKept DEF ShownInv, LockInv
  <1> QED  BY TypesKept, LockInvariant, <1>1, <1>2, PTL DEF Spec

\* A page at rest shows the hint that is stored, in whatever order edits, locks, unlocks and
\* ratchet steps end, unless another page or a sign-out has written it since.
THEOREM ShownHintIsStored == Spec => []ShownIsStored
  <1>1. ShownInv => ShownIsStored
    <2> SUFFICES ASSUME ShownInv, ~raced, NEW p \in Pages \ stale, edit[p].step = "idle",
                        p = "chat" => lock = 0 /\ Idle /\ faults = 0
                 PROVE  shown[p] = Displays(p)
      BY DEF ShownIsStored
    <2>1. CASE p = "list"
      BY <2>1 DEF ShownInv, ListShown, Displays, Listed
    <2>2. CASE p = "chat"
      <3>1. \A i \in Tasks : task[i] \notin HintLeft
        BY <2>2, NotHintLeft DEF Idle
      <3> QED  BY <2>2, <3>1 DEF ShownInv, ChatShown, Displays
    <2> QED  BY <2>1, <2>2 DEF Pages
  <1> QED  BY ShownInvariant, <1>1, PTL
=============================================================================
