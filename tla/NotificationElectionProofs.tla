--------------------- MODULE NotificationElectionProofs ---------------------
(***************************************************************************)
(* Theorems about NotificationElection, for any set of tabs, any number of *)
(* events and of tabs closed.                                              *)
(***************************************************************************)
EXTENDS NotificationElection, FiniteSetTheorems, TLAPS

\* What a tab may hear: claims of others, and confirmations.
Messages(t) == {c \in AnyClaim : c.tab # t} \cup {Shown(u) : u \in Tabs}

TypeInv ==
  /\ election \in [Tabs -> {"none", "claiming", "waiting"}]
  /\ myClaim \in [Tabs -> AnyClaim \cup {NoClaim}]
  /\ claims \in [Tabs -> SUBSET AnyClaim]
  /\ \A t \in Tabs : claims[t] \subseteq {c \in AnyClaim : c.tab # t}
  /\ channel \in [Tabs -> SUBSET (AnyClaim \cup {Shown(u) : u \in Tabs})]
  /\ \A t \in Tabs : channel[t] \subseteq Messages(t)
  /\ \A t \in Tabs : election[t] # "none" => myClaim[t].tab = t
  /\ recent \in [Tabs -> BOOLEAN] /\ alive \in [Tabs -> BOOLEAN]
  /\ shows \in [Tabs -> Nat]
  /\ before \in [Tabs -> SUBSET Tabs]
  /\ events \in 0 .. MaxEvents /\ late \in BOOLEAN /\ forgot \in BOOLEAN

\* A tab that has shown the message has noted so, and holds no election of it.
OnceInv ==
  ~forgot => \A t \in Tabs :
    shows[t] = 0 \/ (shows[t] = 1 /\ recent[t] /\ election[t] = "none")

-----------------------------------------------------------------------------
(* Types                                                                   *)

\* Claims and confirmations are told apart by their type.
LEMMA MessageKinds ==
  /\ \A t \in Tabs, p \in 0 .. 1 :
       Claim(t, p) \in AnyClaim /\ Claim(t, p).tab = t /\ Claim(t, p).type = "claim"
  /\ \A c \in AnyClaim : c.tab \in Tabs /\ c.type = "claim"
  /\ \A t \in Tabs : Shown(t).tab = t /\ Shown(t).type = "shown"
  BY DEF AnyClaim, Claim, Shown

\* A message is posted to other tabs only.
LEMMA PostedTypes ==
  ASSUME TypeInv, NEW t \in Tabs, NEW m \in AnyClaim \cup {Shown(u) : u \in Tabs}, m.tab = t
  PROVE  /\ Posted(t, m) \in [Tabs -> SUBSET (AnyClaim \cup {Shown(u) : u \in Tabs})]
         /\ \A u \in Tabs : Posted(t, m)[u] \subseteq Messages(u)
  <1>1. \A u \in Tabs : u # t => m \in Messages(u)
    BY MessageKinds DEF Messages
  <1> QED  BY <1>1 DEF TypeInv, Posted

\* Showing the notification, or dropping the election, keeps the types.
LEMMA ShowTypes ==
  ASSUME TypeInv, NEW t \in Tabs, Show(t)
  PROVE  /\ Resolve(t) /\ shows' \in [Tabs -> Nat] /\ recent' \in [Tabs -> BOOLEAN]
         /\ channel' \in [Tabs -> SUBSET (AnyClaim \cup {Shown(u) : u \in Tabs})]
         /\ \A u \in Tabs : channel'[u] \subseteq Messages(u)
  <1>1. /\ Posted(t, Shown(t)) \in [Tabs -> SUBSET (AnyClaim \cup {Shown(u) : u \in Tabs})]
        /\ \A u \in Tabs : Posted(t, Shown(t))[u] \subseteq Messages(u)
    BY PostedTypes, MessageKinds
  <1>2. Resolve(t) /\ shows' \in [Tabs -> Nat] /\ channel' = Posted(t, Shown(t))
    BY DEF Show, TypeInv
  <1>3. recent' \in [Tabs -> BOOLEAN]
    BY DEF Show, TypeInv
  <1> QED  BY <1>1, <1>2, <1>3

\* Ending an election keeps the types.
LEMMA ResolveTypes ==
  ASSUME TypeInv, NEW t \in Tabs, Resolve(t)
  PROVE  /\ election' \in [Tabs -> {"none", "claiming", "waiting"}]
         /\ myClaim' \in [Tabs -> AnyClaim \cup {NoClaim}]
         /\ claims' \in [Tabs -> SUBSET AnyClaim]
         /\ \A u \in Tabs : claims'[u] \subseteq {c \in AnyClaim : c.tab # u}
         /\ \A u \in Tabs : election'[u] # "none" => myClaim'[u].tab = u
         /\ before' \in [Tabs -> SUBSET Tabs]
  BY DEF Resolve, TypeInv

\* Init and every action keep the types.
LEMMA InitTypes == Init => TypeInv
  <1> SUFFICES ASSUME Init PROVE TypeInv
    OBVIOUS
  <1>1. MaxEvents \in Nat
    BY ElectionAssumption
  <1>2. myClaim \in [Tabs -> AnyClaim \cup {NoClaim}] /\ claims \in [Tabs -> SUBSET AnyClaim]
    BY DEF Init
  <1>3. before \in [Tabs -> SUBSET Tabs] /\ shows \in [Tabs -> Nat]
    BY DEF Init
  <1>4. recent \in [Tabs -> BOOLEAN] /\ alive \in [Tabs -> BOOLEAN]
    BY DEF Init
  <1>5. /\ channel \in [Tabs -> SUBSET (AnyClaim \cup {Shown(u) : u \in Tabs})]
        /\ \A t \in Tabs : channel[t] \subseteq Messages(t)
    BY DEF Init
  <1>6. election \in [Tabs -> {"none", "claiming", "waiting"}]
        /\ \A t \in Tabs : election[t] # "none" => myClaim[t].tab = t
    BY DEF Init
  <1>7. events \in 0 .. MaxEvents
    BY <1>1 DEF Init
  <1>9. late \in BOOLEAN /\ forgot \in BOOLEAN
    BY Zenon DEF Init
  <1>8. \A t \in Tabs : claims[t] \subseteq {c \in AnyClaim : c.tab # t}
    BY DEF Init
  <1> QED  BY <1>2, <1>3, <1>4, <1>5, <1>6, <1>7, <1>8, <1>9 DEF TypeInv

\* A notice keeps the types: the claim posted is the tab's own.
LEMMA NoticeTypes ==
  ASSUME TypeInv, NEW t \in Tabs, Notice(t)
  PROVE  TypeInv'
  <1> USE DEF Notice, TypeInv
  <1>1. recent' \in [Tabs -> BOOLEAN] /\ forgot' \in BOOLEAN /\ events' \in 0 .. MaxEvents
    BY ElectionAssumption
  <1>2. CASE recent'[t] \/ election[t] # "none"
    BY <1>1, <1>2 DEF TypeInv
  <1>3. CASE ~(recent'[t] \/ election[t] # "none")
    <2>1. PICK p \in 0 .. 1 :
            /\ election' = [election EXCEPT ![t] = "claiming"]
            /\ myClaim' = [myClaim EXCEPT ![t] = Claim(t, p)]
            /\ claims' = [claims EXCEPT ![t] = {}]
            /\ channel' = Posted(t, Claim(t, p))
            /\ before' = [before EXCEPT ![t] = Earlier(t)]
      BY <1>3
    <2>2. /\ channel' \in [Tabs -> SUBSET (AnyClaim \cup {Shown(u) : u \in Tabs})]
          /\ \A u \in Tabs : channel'[u] \subseteq Messages(u)
      BY <2>1, PostedTypes, MessageKinds
    <2>3. before' \in [Tabs -> SUBSET Tabs]
      BY <2>1 DEF Earlier
    <2>4. myClaim' \in [Tabs -> AnyClaim \cup {NoClaim}]
          /\ \A u \in Tabs : election'[u] # "none" => myClaim'[u].tab = u
      BY <2>1, MessageKinds
    <2>5. claims' \in [Tabs -> SUBSET AnyClaim]
          /\ \A u \in Tabs : claims'[u] \subseteq {c \in AnyClaim : c.tab # u}
      BY <2>1
    <2>6. election' \in [Tabs -> {"none", "claiming", "waiting"}]
      BY <2>1
    <2> QED  BY <1>1, <2>2, <2>3, <2>4, <2>5, <2>6 DEF TypeInv
  <1> QED  BY <1>2, <1>3

\* The timers keep the types.
LEMMA TimeoutTypes ==
  ASSUME TypeInv, NEW t \in Tabs, ClaimTimeout(t) \/ FailoverTimeout(t)
  PROVE  TypeInv'
  <1>1. late' \in BOOLEAN /\ UNCHANGED <<events, alive, forgot>>
    BY DEF ClaimTimeout, FailoverTimeout, TypeInv
  <1>2. CASE Show(t)
    BY <1>1, <1>2, ShowTypes, ResolveTypes DEF TypeInv
  <1>3. CASE Resolve(t) /\ UNCHANGED <<recent, channel, shows>>
    BY <1>1, <1>3, ResolveTypes DEF TypeInv
  <1>4. CASE /\ election' = [election EXCEPT ![t] = "waiting"] /\ election[t] = "claiming"
             /\ UNCHANGED <<myClaim, claims, before, recent, channel, shows>>
    BY <1>1, <1>4 DEF TypeInv
  <1> QED  BY <1>2, <1>3, <1>4 DEF ClaimTimeout, FailoverTimeout

\* A message of another tab keeps the types.
LEMMA MessageTypes ==
  ASSUME TypeInv, NEW t \in Tabs, OnMessage(t)
  PROVE  TypeInv'
  <1>1. PICK m \in channel[t] : /\ OnClaim(t, m) \/ OnShown(t, m)
                                /\ channel' = [channel EXCEPT ![t] = @ \ {m}]
    BY DEF OnMessage
  <1>2. UNCHANGED <<events, alive, shows, late, forgot>>
    BY DEF OnMessage
  <1>3. /\ channel' \in [Tabs -> SUBSET (AnyClaim \cup {Shown(u) : u \in Tabs})]
        /\ \A u \in Tabs : channel'[u] \subseteq Messages(u)
    BY <1>1 DEF TypeInv
  <1>4. CASE OnClaim(t, m)
    <2>1. m \in AnyClaim /\ m.tab # t
      BY <1>1, <1>4, MessageKinds DEF TypeInv, Messages, OnClaim
    <2> QED  BY <2>1, <1>2, <1>3, <1>4 DEF OnClaim, TypeInv
  <1>5. CASE OnShown(t, m)
    BY <1>2, <1>3, <1>5, ResolveTypes DEF OnShown, TypeInv
  <1> QED  BY <1>1, <1>4, <1>5

\* A tab that closes drops its election.
LEMMA CloseTypes ==
  ASSUME TypeInv, NEW t \in Tabs, CloseTab(t)
  PROVE  TypeInv'
  BY ResolveTypes DEF CloseTab, TypeInv

\* Types that are inductive: what is in the channels was posted by another tab.
THEOREM TypesKept == Spec => []TypeInv
  <1>1. TypeInv /\ [Next]_vars => TypeInv'
    <2> SUFFICES ASSUME TypeInv, [Next]_vars PROVE TypeInv'
      OBVIOUS
    <2>1. CASE UNCHANGED vars
      BY <2>1 DEF vars, TypeInv, Messages
    <2>2. CASE Next
      BY <2>2, NoticeTypes, TimeoutTypes, MessageTypes, CloseTypes DEF Next, Runs
    <2> QED  BY <2>1, <2>2
  <1> QED  BY InitTypes, <1>1, PTL DEF Spec

\* Type correctness: a claim that a tab collects is another tab's.
THEOREM TypeCorrect == Spec => []TypeOK
  <1>1. TypeInv => TypeOK
    BY DEF TypeInv, TypeOK
  <1> QED  BY TypesKept, <1>1, PTL

-----------------------------------------------------------------------------
(* Once per tab                                                            *)

\* A tab that shows the message had an election, so it had not shown it; it notes it, and
\* what follows leaves the note within the dedup window.
LEMMA OnceKept ==
  ASSUME TypeInv, OnceInv, [Next]_vars
  PROVE  OnceInv'
  <1>1. CASE UNCHANGED vars
    BY <1>1 DEF vars, OnceInv
  <1>2. ASSUME NEW t \in Tabs, Notice(t) PROVE OnceInv'
    BY <1>2 DEF Notice, OnceInv, TypeInv
  <1>3. ASSUME NEW t \in Tabs, ClaimTimeout(t) \/ FailoverTimeout(t) PROVE OnceInv'
    <2>1. election[t] # "none" /\ forgot' = forgot
      BY <1>3 DEF ClaimTimeout, FailoverTimeout
    <2>2. CASE Show(t)
      BY <2>1, <2>2 DEF Show, Resolve, OnceInv, TypeInv
    <2>3. CASE /\ election' \in {[election EXCEPT ![t] = "waiting"], [election EXCEPT ![t] = "none"]}
               /\ UNCHANGED <<recent, shows>>
      BY <2>1, <2>3 DEF OnceInv, TypeInv
    <2> QED  BY <1>3, <2>2, <2>3 DEF ClaimTimeout, FailoverTimeout, Resolve
  <1>4. ASSUME NEW t \in Tabs, OnMessage(t) PROVE OnceInv'
    BY <1>4 DEF OnMessage, OnClaim, OnShown, Resolve, OnceInv, TypeInv
  <1>5. ASSUME NEW t \in Tabs, CloseTab(t) PROVE OnceInv'
    BY <1>5 DEF CloseTab, Resolve, OnceInv, TypeInv
  <1> QED  BY <1>1, <1>2, <1>3, <1>4, <1>5 DEF Next, Runs

\* A tab shows a message once within the dedup window, whatever the timers, the channel and
\* the other tabs do.
THEOREM ShownOncePerTab == Spec => []OncePerTab
  <1>1. Init => OnceInv
    BY DEF Init, OnceInv
  <1>2. TypeInv /\ OnceInv => OncePerTab
    BY DEF TypeInv, OnceInv, OncePerTab
  <1> QED  BY TypesKept, OnceKept, <1>1, <1>2, PTL DEF Spec

-----------------------------------------------------------------------------
(* The winner                                                              *)

\* Claims are ordered by priority, then by tab.
LEMMA BeatsOrder ==
  /\ \A c \in AnyClaim : ~Beats(c, c)
  /\ \A c, d, e \in AnyClaim : Beats(c, d) /\ Beats(d, e) => Beats(c, e)
  /\ \A c, d \in AnyClaim : c.tab # d.tab => Beats(c, d) \/ Beats(d, c)
  <1>1. \A c \in AnyClaim : c.tab \in Int /\ c.priority \in Int
    <2>1. \A c \in AnyClaim : c.tab \in Tabs /\ c.priority \in 0 .. 1
      BY DEF AnyClaim
    <2>2. Tabs \subseteq Int /\ 0 .. 1 \subseteq Int
      BY ElectionAssumption
    <2> QED  BY <2>1, <2>2
  <1> QED  BY <1>1 DEF Beats

\* There are finitely many claims, so every set of them has a best one.
LEMMA ClaimsFinite == \A S \in SUBSET AnyClaim : IsFiniteSet(S)
  <1> DEFINE f == [x \in Tabs \X (0 .. 1) |-> Claim(x[1], x[2])]
  <1>1. f \in Surjection(Tabs \X (0 .. 1), AnyClaim)
    <2>1. \A x \in Tabs \X (0 .. 1) : f[x] = Claim(x[1], x[2]) /\ f[x] \in AnyClaim
      BY DEF AnyClaim, Claim
    <2>2. ASSUME NEW c \in AnyClaim PROVE \E x \in Tabs \X (0 .. 1) : f[x] = c
      <3>1. <<c.tab, c.priority>> \in Tabs \X (0 .. 1) /\ c = Claim(c.tab, c.priority)
        BY DEF AnyClaim, Claim
      <3>2. f[<<c.tab, c.priority>>] = c
        BY <2>1, <3>1
      <3> QED  BY <3>1, <3>2
    <2> QED  BY <2>1, <2>2 DEF Surjection
  <1>2. IsFiniteSet(Tabs) /\ IsFiniteSet(0 .. 1)
    <2>1. 0 \in Int /\ 1 \in Int
      OBVIOUS
    <2> QED  BY <2>1, ElectionAssumption, FS_Interval
  <1>3. IsFiniteSet(Tabs \X (0 .. 1))
    BY <1>2, FS_Product
  <1>4. IsFiniteSet(AnyClaim)
    BY <1>1, <1>3, FS_Surjection
  <1> QED  BY <1>4, FS_Subset

\* Among claims there is one that no other beats: one with the least set of those that do.
LEMMA BestClaim ==
  ASSUME NEW S \in SUBSET AnyClaim, S # {}
  PROVE  \E c \in S : \A d \in S : ~Beats(d, c)
  <1> DEFINE Better(c) == {d \in S : Beats(d, c)}
             T == {Better(c) : c \in S}
  <1>1. IsFiniteSet(S)
    BY ClaimsFinite
  <1>2. IsWellFoundedOn(StrictSubsetOrdering(S), SUBSET S)
    BY <1>1, FS_FiniteSubsetsOfFinite, FS_StrictSubsetOrderingWellFounded
  <1>3. T \subseteq SUBSET S /\ T # {}
    OBVIOUS
  <1>4. \E x \in T : \A y \in T : <<y, x>> \notin StrictSubsetOrdering(S)
    <2> HIDE DEF T
    <2> QED  BY <1>2, <1>3, WFMin
  <1>5. PICK c \in S : \A d \in S : <<Better(d), Better(c)>> \notin StrictSubsetOrdering(S)
    BY <1>4
  <1>6. ASSUME NEW d \in S, Beats(d, c) PROVE FALSE
    <2>1. Better(d) \subseteq Better(c)
      BY <1>6, BeatsOrder
    <2>2. d \in Better(c) /\ d \notin Better(d)
      BY <1>6, BeatsOrder
    <2> HIDE DEF Better
    <2>3. Better(d) \in SUBSET S /\ Better(c) \in SUBSET S
      BY DEF Better
    <2>4. <<Better(d), Better(c)>> \in StrictSubsetOrdering(S)
      BY <2>1, <2>2, <2>3 DEF StrictSubsetOrdering
    <2> QED  BY <1>5, <2>4
  <1> QED  BY <1>6

\* The tab whose claim is elected beats all the claims it has heard.
LEMMA WinnerBeats ==
  ASSUME NEW own \in AnyClaim, NEW others \in SUBSET AnyClaim,
         \A c \in others : c.tab # own.tab, Winner(own, others) = own
  PROVE  \A c \in others : Beats(own, c)
  <1>1. CASE \E c \in others : Beats(c, own)
    <2>1. \E c \in others : \A d \in others : ~Beats(d, c)
      BY <1>1, BestClaim
    <2>2. Winner(own, others) \in others
      BY <1>1, <2>1 DEF Winner
    <2> QED  BY <2>2
  <1>2. CASE ~\E c \in others : Beats(c, own)
    BY <1>2, BeatsOrder
  <1> QED  BY <1>1, <1>2

-----------------------------------------------------------------------------
(* One tab                                                                 *)

\* The claims of t among some messages.
ClaimsOf(t, S) == {c \in S : c.type = "claim" /\ c.tab = t}

\* What t has heard of u, or will hear.
HeardOf(t, u) == ClaimsOf(u, claims[t] \cup channel[t])

\* A tab with the key in recentlyShown holds no election of it; one that has shown it has it.
NotedInv ==
  \A t \in Tabs :
    /\ recent[t] => election[t] = "none"
    /\ election[t] # "none" => alive[t]
    /\ shows[t] > 0 => recent[t]

\* A tab that does not know that another has shown the message is about to be told.
ToldInv ==
  \A t, u \in Tabs :
    t # u /\ shows[u] > 0 /\ alive[t] /\ ~recent[t] => Shown(u) \in channel[t]

\* Only the claims of elections under way are on their way, and those of closed tabs and of
\* tabs that will not claim again.
OnWayInv ==
  \A t, u \in Tabs :
    /\ alive[t] /\ ~recent[t] /\ election[t] = "none" => ClaimsOf(t, channel[u]) = {}
    /\ election[t] # "none" => ClaimsOf(t, channel[u]) \subseteq {myClaim[t]}

\* What a claiming tab hears of one that began after it is the claim of the election that
\* this one holds, and it knows that it was not the first.
LaterInv ==
  \A t, u \in Tabs :
    /\ t # u /\ election[t] = "claiming" /\ u \notin before[t]
    /\ alive[u] /\ ~recent[u] /\ HeardOf(t, u) # {}
    => /\ election[u] # "none" /\ t \in before[u]
       /\ HeardOf(t, u) = {myClaim[u]}

\* A tab that hears of a claiming one that began before it hears its present claim.
EarlierInv ==
  \A t, u \in Tabs :
    /\ t # u /\ election[t] = "claiming" /\ election[u] = "claiming" /\ t \in before[u]
    /\ HeardOf(u, t) # {}
    => myClaim[t] \in HeardOf(u, t)

\* If a tab that began after t has shown the message, what t hears of it beats the claim of t.
BeatenInv ==
  \A t, u \in Tabs :
    t # u /\ election[t] = "claiming" /\ shows[u] > 0 /\ u \notin before[t]
      => \A c \in HeardOf(t, u) : Beats(c, myClaim[t])

OneBody ==
  /\ NotedInv /\ ToldInv /\ OnWayInv /\ LaterInv /\ EarlierInv /\ BeatenInv
  /\ \A t, u \in Tabs : shows[t] > 0 /\ shows[u] > 0 => t = u

\* OneTabShows with what it rests on.
OneInv == ~late /\ ~forgot => OneBody

\* What the others know and hear stays when t ends its election.
Leaves(t) ==
  /\ election'[t] = "none"
  /\ \A u, x \in Tabs : ClaimsOf(x, channel'[u]) \subseteq ClaimsOf(x, channel[u])
  /\ \A u \in Tabs \ {t} :
       /\ election'[u] = election[u] /\ myClaim'[u] = myClaim[u] /\ before'[u] = before[u]
       /\ recent'[u] = recent[u] /\ alive'[u] = alive[u]
       /\ \A x \in Tabs : HeardOf(u, x)' = HeardOf(u, x)

\* It has the key in recentlyShown then, or is closed, or nobody hears of it who did not
\* begin before.
LEMMA LeaveKept ==
  ASSUME TypeInv, OneBody, NEW t \in Tabs, Leaves(t),
         \/ recent'[t] \/ ~alive'[t]
         \/ \A u \in Tabs :
              /\ ClaimsOf(t, channel[u]) = {}
              /\ u # t /\ election[u] = "claiming" /\ t \notin before[u] => HeardOf(u, t) = {}
  PROVE  OnWayInv' /\ LaterInv' /\ EarlierInv'
  <1>1. OnWayInv'
    <2> SUFFICES ASSUME NEW a \in Tabs, NEW u \in Tabs
                 PROVE  /\ alive'[a] /\ ~recent'[a] /\ election'[a] = "none"
                             => ClaimsOf(a, channel'[u]) = {}
                        /\ election'[a] # "none" => ClaimsOf(a, channel'[u]) \subseteq {myClaim'[a]}
      BY DEF OnWayInv, ClaimsOf
    <2>1. ClaimsOf(a, channel'[u]) \subseteq ClaimsOf(a, channel[u])
      BY DEF Leaves
    <2>2. CASE a = t
      BY <2>1, <2>2 DEF Leaves
    <2>3. CASE a # t
      <3>1. /\ election'[a] = election[a] /\ alive'[a] = alive[a] /\ recent'[a] = recent[a]
            /\ myClaim'[a] = myClaim[a]
        BY <2>3 DEF Leaves
      <3>2. /\ alive[a] /\ ~recent[a] /\ election[a] = "none" => ClaimsOf(a, channel[u]) = {}
            /\ election[a] # "none" => ClaimsOf(a, channel[u]) \subseteq {myClaim[a]}
        BY DEF OneBody, OnWayInv
      <3> HIDE DEF ClaimsOf
      <3> QED  BY <2>1, <3>1, <3>2
    <2> QED  BY <2>2, <2>3
  <1>2. LaterInv'
    <2> SUFFICES ASSUME NEW a \in Tabs, NEW b \in Tabs,
                        a # b, election'[a] = "claiming", b \notin before'[a],
                        alive'[b], ~recent'[b], HeardOf(a, b)' # {}
                 PROVE  /\ election'[b] # "none" /\ a \in before'[b]
                        /\ HeardOf(a, b)' = {myClaim'[b]}
      BY DEF LaterInv
    <2>1. a # t /\ HeardOf(a, b) # {} /\ election[a] = "claiming" /\ b \notin before[a]
      BY DEF Leaves
    <2> QED  BY <2>1 DEF OneBody, LaterInv, Leaves
  <1>3. EarlierInv'
    <2> SUFFICES ASSUME NEW a \in Tabs, NEW b \in Tabs,
                        a # b, election'[a] = "claiming", election'[b] = "claiming",
                        a \in before'[b], HeardOf(b, a)' # {}
                 PROVE  myClaim'[a] \in HeardOf(b, a)'
      BY DEF EarlierInv
    <2> QED  BY DEF OneBody, EarlierInv, Leaves
  <1> QED  BY <1>1, <1>2, <1>3

\* In an election the tab has a claim of its own, and collects those of others.
LEMMA OwnClaim ==
  ASSUME TypeInv, NEW t \in Tabs, election[t] # "none"
  PROVE  myClaim[t] \in AnyClaim /\ myClaim[t].tab = t /\ \A c \in claims[t] : c.tab # t
  <1>1. myClaim[t].tab = t /\ myClaim[t] \in AnyClaim \cup {NoClaim}
    BY DEF TypeInv
  <1>2. CASE myClaim[t] = NoClaim
    <2>1. NoClaim = [type |-> "claim", tab |-> 0, priority |-> 0] /\ NoClaim.tab = 0
      BY DEF NoClaim, Claim
    <2>2. 0 \in Tabs /\ 0 \in 0 .. 1
      BY <1>1, <1>2, <2>1
    <2>3. NoClaim \in AnyClaim
      BY <2>1, <2>2 DEF AnyClaim
    <2> QED  BY <1>1, <1>2, <2>3 DEF TypeInv
  <1> QED  BY <1>1, <1>2 DEF TypeInv

\* A tab that shows the message after another one did has fired a timer too early.
LEMMA NoneShown ==
  ASSUME TypeInv, OneBody, NEW t \in Tabs, ~late',
         \/ ClaimTimeout(t) /\ Winner(myClaim[t], claims[t]) = myClaim[t]
         \/ FailoverTimeout(t)
  PROVE  \A u \in Tabs \ {t} : shows[u] = 0
  <1> SUFFICES ASSUME NEW u \in Tabs, u # t, shows[u] # 0 PROVE FALSE
    OBVIOUS
  <1>1. shows[u] > 0 /\ election[t] # "none" /\ alive[t] /\ ~recent[t]
    BY DEF TypeInv, OneBody, NotedInv, ClaimTimeout, FailoverTimeout
  <1>2. Shown(u) \in channel[t] /\ Shown(u).tab = u
    BY <1>1, MessageKinds DEF OneBody, ToldInv
  <1>3. CASE FailoverTimeout(t)
    BY <1>2, <1>3 DEF FailoverTimeout, TooEarlyAgain
  <1>4. CASE ClaimTimeout(t) /\ Winner(myClaim[t], claims[t]) = myClaim[t]
    <2>1. ~TooEarly(t) /\ election[t] = "claiming"
      BY <1>4 DEF ClaimTimeout
    <2>2. u \notin before[t] /\ u \notin Unheard(t)
      BY <1>2, <2>1 DEF TooEarly
    <2>3. PICK c \in claims[t] : c.tab = u
      BY <2>2 DEF Unheard
    <2>4. c \in HeardOf(t, u) /\ c \in AnyClaim
      BY <2>3, MessageKinds DEF TypeInv, HeardOf, ClaimsOf
    <2>5. Beats(c, myClaim[t])
      BY <1>1, <2>1, <2>2, <2>4 DEF OneBody, BeatenInv
    <2>6. /\ myClaim[t] \in AnyClaim /\ claims[t] \in SUBSET AnyClaim
          /\ \A d \in claims[t] : d.tab # myClaim[t].tab
      BY <2>1, OwnClaim DEF TypeInv
    <2>7. Beats(myClaim[t], c)
      BY <1>4, <2>3, <2>6, WinnerBeats
    <2> QED  BY <2>4, <2>5, <2>6, <2>7, BeatsOrder
  <1> QED  BY <1>3, <1>4

\* A claiming tab that began before the one that shows the message is beaten by it.
LEMMA ShownBeats ==
  ASSUME TypeInv, OneBody, NEW t \in Tabs, ~late',
         \/ ClaimTimeout(t) /\ Winner(myClaim[t], claims[t]) = myClaim[t]
         \/ FailoverTimeout(t),
         NEW u \in Tabs, u # t, election[u] = "claiming", t \notin before[u],
         NEW c \in HeardOf(u, t)
  PROVE  Beats(c, myClaim[u])
  <1>1. /\ election[t] # "none" /\ alive[t] /\ ~recent[t]
    BY DEF OneBody, NotedInv, ClaimTimeout, FailoverTimeout
  <1>2. u \in before[t] /\ c = myClaim[t]
    BY <1>1 DEF OneBody, LaterInv
  <1>3. CASE FailoverTimeout(t)
    BY <1>2, <1>3 DEF FailoverTimeout, TooEarlyAgain
  <1>4. CASE ClaimTimeout(t) /\ Winner(myClaim[t], claims[t]) = myClaim[t]
    <2>1. ~TooEarly(t) /\ election[t] = "claiming"
      BY <1>4 DEF ClaimTimeout
    <2>2. u \notin Unheard(t) /\ \A m \in channel[t] : m.tab # u
      BY <1>2, <2>1 DEF TooEarly
    <2>3. PICK d \in claims[t] : d.tab = u
      BY <2>2 DEF Unheard
    <2>4. d \in HeardOf(t, u)
      BY <2>3, MessageKinds DEF TypeInv, HeardOf, ClaimsOf
    <2>5. myClaim[u] \in HeardOf(t, u)
      BY <1>2, <2>1, <2>4 DEF OneBody, EarlierInv
    <2>6. myClaim[u] \in claims[t]
      BY <2>2, <2>5 DEF HeardOf, ClaimsOf
    <2>7. /\ myClaim[t] \in AnyClaim /\ claims[t] \in SUBSET AnyClaim
          /\ \A e \in claims[t] : e.tab # myClaim[t].tab
      BY <2>1, OwnClaim DEF TypeInv
    <2> QED  BY <1>2, <1>4, <2>6, <2>7, WinnerBeats
  <1> QED  BY <1>3, <1>4

\* BeatenInv stays where t ends its election, if it shows the message for the first time, or
\* does not show it.
LEMMA BeatenKept ==
  ASSUME TypeInv, OneBody, NEW t \in Tabs, Leaves(t),
         \A u \in Tabs \ {t} : shows'[u] = shows[u],
         \/ shows'[t] = shows[t]
         \/ \A u \in Tabs :
              u # t /\ election[u] = "claiming" /\ t \notin before[u]
                => \A c \in HeardOf(u, t) : Beats(c, myClaim[u])
  PROVE  BeatenInv'
  <1> SUFFICES ASSUME NEW a \in Tabs, NEW b \in Tabs, a # b, election'[a] = "claiming",
                      shows'[b] > 0, b \notin before'[a], NEW c \in HeardOf(a, b)'
               PROVE  Beats(c, myClaim'[a])
    BY DEF BeatenInv
  <1>1. /\ a # t /\ election[a] = "claiming" /\ b \notin before[a] /\ c \in HeardOf(a, b)
        /\ myClaim'[a] = myClaim[a]
    BY DEF Leaves
  <1> QED  BY <1>1 DEF OneBody, BeatenInv

\* The first tab to show the message keeps the invariant.
LEMMA ShowKept ==
  ASSUME TypeInv, OneBody, NEW t \in Tabs, ~late', Show(t), alive' = alive,
         \/ ClaimTimeout(t) /\ Winner(myClaim[t], claims[t]) = myClaim[t]
         \/ FailoverTimeout(t)
  PROVE  OneBody'
  <1>1. \A u, x \in Tabs :
          /\ ClaimsOf(x, channel'[u]) = ClaimsOf(x, channel[u])
          /\ channel[u] \subseteq channel'[u]
          /\ u # t /\ alive[u] => Shown(t) \in channel'[u]
    <2>1. \A u \in Tabs : channel'[u] = IF u = t \/ ~alive[u] THEN channel[u]
                                        ELSE channel[u] \cup {Shown(t)}
      BY DEF Show, Posted
    <2>2. Shown(t).type # "claim"
      BY MessageKinds
    <2> HIDE DEF Shown
    <2>3. \A u, x \in Tabs : ClaimsOf(x, channel'[u]) = ClaimsOf(x, channel[u])
      BY <2>1, <2>2 DEF ClaimsOf
    <2> QED  BY <2>1, <2>3
  <1>2. Leaves(t) /\ recent'[t]
    <2>1. /\ election'[t] = "none" /\ recent'[t]
          /\ \A u \in Tabs \ {t} :
               /\ election'[u] = election[u] /\ myClaim'[u] = myClaim[u] /\ before'[u] = before[u]
               /\ recent'[u] = recent[u] /\ alive'[u] = alive[u] /\ claims'[u] = claims[u]
      BY DEF Show, Resolve, TypeInv
    <2>2. \A u \in Tabs \ {t}, x \in Tabs : HeardOf(u, x)' = HeardOf(u, x)
      <3> SUFFICES ASSUME NEW u \in Tabs \ {t}, NEW x \in Tabs
                   PROVE  HeardOf(u, x)' = HeardOf(u, x)
        OBVIOUS
      <3>1. HeardOf(u, x)' = ClaimsOf(x, claims'[u]) \cup ClaimsOf(x, channel'[u])
        BY DEF HeardOf, ClaimsOf
      <3>2. HeardOf(u, x) = ClaimsOf(x, claims[u]) \cup ClaimsOf(x, channel[u])
        BY DEF HeardOf, ClaimsOf
      <3> QED  BY <1>1, <2>1, <3>1, <3>2
    <2> QED  BY <1>1, <2>1, <2>2 DEF Leaves
  <1>3. /\ \A u \in Tabs \ {t} : shows'[u] = shows[u] /\ shows[u] = 0
        /\ \A u \in Tabs \ {t} : recent'[u] = recent[u]
    BY NoneShown DEF Show, TypeInv
  <1>4. OnWayInv' /\ LaterInv' /\ EarlierInv'
    BY <1>2, LeaveKept
  <1>5. BeatenInv'
    BY <1>2, <1>3, ShownBeats, BeatenKept
  <1>6. NotedInv'
    BY <1>2, <1>3 DEF OneBody, NotedInv, Leaves
  <1>7. ToldInv'
    BY <1>1, <1>2, <1>3 DEF OneBody, ToldInv
  <1>8. (\A a, b \in Tabs : shows[a] > 0 /\ shows[b] > 0 => a = b)'
    BY <1>3
  <1> QED  BY <1>4, <1>5, <1>6, <1>7, <1>8 DEF OneBody

\* Nobody hears any more of a tab that gives up at its failover.
LEMMA GiveUpKept ==
  ASSUME TypeInv, OneBody, NEW t \in Tabs, ~late', FailoverTimeout(t), Resolve(t),
         UNCHANGED <<recent, channel, shows>>
  PROVE  OneBody'
  <1>1. ~TooEarlyAgain(t) /\ alive' = alive /\ election[t] = "waiting"
    BY DEF FailoverTimeout
  <1>2. Leaves(t)
    BY <1>1 DEF Resolve, Leaves, HeardOf, ClaimsOf, TypeInv
  <1>3. ASSUME NEW u \in Tabs
        PROVE  /\ ClaimsOf(t, channel[u]) = {}
               /\ u # t /\ election[u] = "claiming" /\ t \notin before[u] => HeardOf(u, t) = {}
    <2>1. ClaimsOf(t, channel[u]) = {}
      BY <1>1 DEF TooEarlyAgain, ClaimsOf
    <2>2. ASSUME u # t, election[u] = "claiming", t \notin before[u], HeardOf(u, t) # {}
          PROVE  FALSE
      <3>1. u \in before[t]
        BY <1>1, <2>2 DEF OneBody, LaterInv, NotedInv
      <3> QED  BY <1>1, <2>2, <3>1 DEF TooEarlyAgain
    <2> QED  BY <2>1, <2>2
  <1>4. OnWayInv' /\ LaterInv' /\ EarlierInv'
    BY <1>2, <1>3, LeaveKept
  <1>5. BeatenInv'
    BY <1>2, BeatenKept
  <1>6. NotedInv' /\ ToldInv'
    BY <1>1, <1>2 DEF OneBody, NotedInv, ToldInv, Leaves
  <1> QED  BY <1>4, <1>5, <1>6 DEF OneBody

\* So does one that loses and waits for the winner.
LEMMA WaitKept ==
  ASSUME TypeInv, OneBody, NEW t \in Tabs, election[t] = "claiming",
         election' = [election EXCEPT ![t] = "waiting"],
         UNCHANGED <<myClaim, claims, before, recent, channel, shows, alive>>
  PROVE  OneBody'
  <1>1. /\ election'[t] = "waiting" /\ \A u \in Tabs : u # t => election'[u] = election[u]
        /\ \A u, x \in Tabs : HeardOf(u, x)' = HeardOf(u, x)
    BY DEF TypeInv, HeardOf, ClaimsOf
  <1>2. NotedInv' /\ ToldInv' /\ BeatenInv'
    BY <1>1 DEF OneBody, NotedInv, ToldInv, BeatenInv
  <1>3. OnWayInv'
    BY <1>1 DEF OneBody, OnWayInv, ClaimsOf
  <1>4. LaterInv' /\ EarlierInv'
    BY <1>1 DEF OneBody, LaterInv, EarlierInv
  <1> QED  BY <1>2, <1>3, <1>4 DEF OneBody

\* A claim is collected by a claiming tab, and is nothing to another.
LEMMA ClaimKept ==
  ASSUME TypeInv, OneBody, NEW t \in Tabs, NEW m \in channel[t], OnClaim(t, m),
         channel' = [channel EXCEPT ![t] = @ \ {m}], UNCHANGED <<alive, shows>>
  PROVE  OneBody'
  <1>1. UNCHANGED <<election, myClaim, before, recent>> /\ m.type = "claim"
    BY DEF OnClaim
  <1>2. \A u, x \in Tabs : ClaimsOf(x, channel'[u]) \subseteq ClaimsOf(x, channel[u])
    BY DEF TypeInv, ClaimsOf
  <1>3. \A u, x \in Tabs : election[u] = "claiming" => HeardOf(u, x)' = HeardOf(u, x)
    BY DEF TypeInv, HeardOf, ClaimsOf, OnClaim
  <1>4. \A u, x \in Tabs : Shown(x) \in channel[u] => Shown(x) \in channel'[u]
    BY <1>1, MessageKinds DEF TypeInv
  <1>5. NotedInv' /\ ToldInv'
    BY <1>1, <1>4 DEF OneBody, NotedInv, ToldInv
  <1>6. OnWayInv'
    <2> SUFFICES ASSUME NEW a \in Tabs, NEW u \in Tabs
                 PROVE  /\ alive[a] /\ ~recent[a] /\ election[a] = "none"
                             => ClaimsOf(a, channel'[u]) = {}
                        /\ election[a] # "none" => ClaimsOf(a, channel'[u]) \subseteq {myClaim[a]}
      BY <1>1 DEF OnWayInv, ClaimsOf
    <2>1. /\ alive[a] /\ ~recent[a] /\ election[a] = "none" => ClaimsOf(a, channel[u]) = {}
          /\ election[a] # "none" => ClaimsOf(a, channel[u]) \subseteq {myClaim[a]}
          /\ ClaimsOf(a, channel'[u]) \subseteq ClaimsOf(a, channel[u])
      BY <1>2 DEF OneBody, OnWayInv
    <2> HIDE DEF ClaimsOf
    <2> QED  BY <2>1
  <1>7. LaterInv' /\ EarlierInv' /\ BeatenInv'
    BY <1>1, <1>3 DEF OneBody, LaterInv, EarlierInv, BeatenInv
  <1> QED  BY <1>5, <1>6, <1>7 DEF OneBody

\* A confirmation ends the election, and the key is noted.
LEMMA ToldKept ==
  ASSUME TypeInv, OneBody, NEW t \in Tabs, NEW m \in channel[t], OnShown(t, m),
         channel' = [channel EXCEPT ![t] = @ \ {m}], UNCHANGED <<alive, shows>>
  PROVE  OneBody'
  <1>1. /\ recent'[t] /\ \A u \in Tabs : u # t => recent'[u] = recent[u] /\ channel'[u] = channel[u]
    BY DEF OnShown, TypeInv
  <1>2. Leaves(t)
    BY <1>1 DEF OnShown, Resolve, Leaves, HeardOf, ClaimsOf, TypeInv
  <1>3. OnWayInv' /\ LaterInv' /\ EarlierInv'
    BY <1>1, <1>2, LeaveKept
  <1>4. BeatenInv'
    BY <1>2, BeatenKept
  <1>5. NotedInv' /\ ToldInv'
    BY <1>1, <1>2 DEF OneBody, NotedInv, ToldInv, Leaves
  <1> QED  BY <1>3, <1>4, <1>5 DEF OneBody

\* A closed tab claims no more.
LEMMA CloseKept ==
  ASSUME TypeInv, OneBody, NEW t \in Tabs, CloseTab(t)
  PROVE  OneBody'
  <1>1. /\ ~alive'[t] /\ \A u \in Tabs : u # t => alive'[u] = alive[u] /\ channel'[u] = channel[u]
        /\ UNCHANGED <<recent, shows>>
    BY DEF CloseTab, TypeInv
  <1>2. Leaves(t)
    BY <1>1 DEF CloseTab, Resolve, Leaves, HeardOf, ClaimsOf, TypeInv
  <1>3. OnWayInv' /\ LaterInv' /\ EarlierInv'
    BY <1>1, <1>2, LeaveKept
  <1>4. BeatenInv'
    BY <1>1, <1>2, BeatenKept
  <1>5. NotedInv' /\ ToldInv'
    BY <1>1, <1>2 DEF OneBody, NotedInv, ToldInv, Leaves
  <1> QED  BY <1>1, <1>3, <1>4, <1>5 DEF OneBody

\* A tab that begins an election has nothing on its way, and knows who began before.
LEMMA NoticeKept ==
  ASSUME TypeInv, OneBody, NEW t \in Tabs, Notice(t), ~forgot'
  PROVE  OneBody'
  <1>1. recent' = recent /\ alive' = alive /\ shows' = shows /\ alive[t]
    BY DEF Notice, TypeInv
  <1>2. CASE recent[t] \/ election[t] # "none"
    <2>1. UNCHANGED <<election, myClaim, claims, channel, before, recent, alive, shows>>
      BY <1>1, <1>2 DEF Notice
    <2> QED
      BY <2>1 DEF OneBody, NotedInv, ToldInv, OnWayInv, LaterInv, EarlierInv, BeatenInv,
                  HeardOf, ClaimsOf
  <1>3. CASE ~recent[t] /\ election[t] = "none"
    <2>1. PICK p \in 0 .. 1 :
            /\ election' = [election EXCEPT ![t] = "claiming"]
            /\ myClaim' = [myClaim EXCEPT ![t] = Claim(t, p)]
            /\ claims' = [claims EXCEPT ![t] = {}]
            /\ channel' = Posted(t, Claim(t, p))
            /\ before' = [before EXCEPT ![t] = Earlier(t)]
      BY <1>1, <1>3 DEF Notice
    <2> DEFINE c == Claim(t, p)
    <2>2. c.type = "claim" /\ c.tab = t
      BY MessageKinds
    <2> HIDE DEF c
    <2>3. /\ election'[t] = "claiming" /\ myClaim'[t] = c /\ claims'[t] = {}
          /\ before'[t] = Earlier(t)
          /\ \A u \in Tabs : u # t =>
               /\ election'[u] = election[u] /\ myClaim'[u] = myClaim[u]
               /\ claims'[u] = claims[u] /\ before'[u] = before[u]
      BY <2>1 DEF TypeInv, c
    <2>4. \A u \in Tabs : channel'[u] = IF u = t \/ ~alive[u] THEN channel[u] ELSE channel[u] \cup {c}
      BY <2>1 DEF Posted, c
    <2>5. \A u \in Tabs : ClaimsOf(t, channel[u]) = {}
      BY <1>1, <1>3 DEF OneBody, OnWayInv
    <2>6. \A u, x \in Tabs : x # t => ClaimsOf(x, channel'[u]) = ClaimsOf(x, channel[u])
      <3> SUFFICES ASSUME NEW u \in Tabs, NEW x \in Tabs, x # t
                   PROVE  ClaimsOf(x, channel'[u]) = ClaimsOf(x, channel[u])
        OBVIOUS
      <3>1. channel'[u] = channel[u] \/ channel'[u] = channel[u] \cup {c}
        BY <2>4
      <3> QED  BY <2>2, <3>1 DEF ClaimsOf
    <2>7. \A u \in Tabs : ClaimsOf(t, channel'[u]) \subseteq {c}
      BY <2>4, <2>5 DEF ClaimsOf
    <2>8. \A u, x \in Tabs : u # t /\ x # t => HeardOf(u, x)' = HeardOf(u, x)
      <3> SUFFICES ASSUME NEW u \in Tabs, NEW x \in Tabs, u # t, x # t
                   PROVE  HeardOf(u, x)' = HeardOf(u, x)
        OBVIOUS
      <3>1. HeardOf(u, x)' = ClaimsOf(x, claims'[u]) \cup ClaimsOf(x, channel'[u])
        BY DEF HeardOf, ClaimsOf
      <3>2. HeardOf(u, x) = ClaimsOf(x, claims[u]) \cup ClaimsOf(x, channel[u])
        BY DEF HeardOf, ClaimsOf
      <3>3. ClaimsOf(x, claims'[u]) = ClaimsOf(x, claims[u])
        BY <2>3
      <3> QED  BY <2>6, <3>1, <3>2, <3>3
    <2>9. \A x \in Tabs : x # t => HeardOf(t, x)' = ClaimsOf(x, channel[t])
      BY <2>3, <2>4 DEF HeardOf, ClaimsOf
    <2>10. \A u \in Tabs : u # t => HeardOf(u, t)' \subseteq HeardOf(u, t) \cup {c}
      <3> SUFFICES ASSUME NEW u \in Tabs, u # t
                   PROVE  HeardOf(u, t)' \subseteq HeardOf(u, t) \cup {c}
        OBVIOUS
      <3>1. claims'[u] = claims[u] /\ channel'[u] \subseteq channel[u] \cup {c}
        BY <2>3, <2>4
      <3> QED  BY <3>1 DEF HeardOf, ClaimsOf
    <2>11. \A u \in Tabs : u # t /\ alive[u] => c \in HeardOf(u, t)'
      <3> SUFFICES ASSUME NEW u \in Tabs, u # t, alive[u] PROVE c \in HeardOf(u, t)'
        OBVIOUS
      <3>1. c \in channel'[u]
        BY <2>4
      <3> QED  BY <2>2, <3>1 DEF HeardOf, ClaimsOf
    <2>12. \A u \in Tabs \ {t} : u \notin Earlier(t) => election[u] = "none" /\ shows[u] = 0
      BY <1>1, <1>3 DEF Earlier, OneBody, ToldInv, TypeInv
    <2>13. \A u \in Tabs : election[u] # "none" => u \in Earlier(t)
      BY DEF Earlier
    <2>14. NotedInv' /\ ToldInv'
      BY <1>1, <1>3, <2>3, <2>4 DEF OneBody, NotedInv, ToldInv
    <2>15. OnWayInv'
      <3> SUFFICES ASSUME NEW a \in Tabs, NEW u \in Tabs
                   PROVE  /\ alive[a] /\ ~recent[a] /\ election'[a] = "none"
                               => ClaimsOf(a, channel'[u]) = {}
                          /\ election'[a] # "none"
                               => ClaimsOf(a, channel'[u]) \subseteq {myClaim'[a]}
        BY <1>1 DEF OnWayInv, ClaimsOf
      <3>1. CASE a = t
        BY <2>3, <2>7, <3>1
      <3>2. CASE a # t
        <4>1. /\ alive[a] /\ ~recent[a] /\ election[a] = "none" => ClaimsOf(a, channel[u]) = {}
              /\ election[a] # "none" => ClaimsOf(a, channel[u]) \subseteq {myClaim[a]}
          BY DEF OneBody, OnWayInv
        <4> HIDE DEF ClaimsOf
        <4> QED  BY <2>3, <2>6, <3>2, <4>1
      <3> QED  BY <3>1, <3>2
    <2>16. LaterInv'
      <3> SUFFICES ASSUME NEW a \in Tabs, NEW b \in Tabs,
                          a # b, election'[a] = "claiming", b \notin before'[a],
                          alive[b], ~recent[b], HeardOf(a, b)' # {}
                   PROVE  /\ election'[b] # "none" /\ a \in before'[b]
                          /\ HeardOf(a, b)' = {myClaim'[b]}
        BY <1>1 DEF LaterInv
      <3>1. CASE a = t
        <4>1. election[b] = "none"
          BY <2>3, <2>12, <3>1
        <4>2. ClaimsOf(b, channel[t]) = {}
          BY <4>1 DEF OneBody, OnWayInv
        <4> QED  BY <2>9, <3>1, <4>2
      <3>2. CASE b = t
        <4>1. HeardOf(a, t) = {}
          BY <1>1, <1>3, <2>3, <3>2 DEF OneBody, LaterInv
        <4>2. HeardOf(a, t)' = {c}
          BY <2>10, <3>2, <4>1
        <4> QED  BY <2>3, <2>13, <3>2, <4>2
      <3>3. CASE a # t /\ b # t
        BY <2>3, <2>8, <3>3 DEF OneBody, LaterInv
      <3> QED  BY <3>1, <3>2, <3>3
    <2>17. EarlierInv'
      <3> SUFFICES ASSUME NEW a \in Tabs, NEW b \in Tabs,
                          a # b, election'[a] = "claiming", election'[b] = "claiming",
                          a \in before'[b], HeardOf(b, a)' # {}
                   PROVE  myClaim'[a] \in HeardOf(b, a)'
        BY DEF EarlierInv
      <3>1. CASE a = t
        <4>1. alive[b]
          BY <2>3, <3>1 DEF OneBody, NotedInv
        <4> QED  BY <2>3, <2>11, <3>1, <4>1
      <3>2. CASE b = t
        <4>1. ClaimsOf(a, channel[t]) \subseteq {myClaim[a]}
          BY <2>3, <3>2 DEF OneBody, OnWayInv
        <4>2. HeardOf(t, a)' = ClaimsOf(a, channel[t])
          BY <2>9, <3>2
        <4> HIDE DEF ClaimsOf, HeardOf
        <4> QED  BY <2>3, <3>2, <4>1, <4>2
      <3>3. CASE a # t /\ b # t
        BY <2>3, <2>8, <3>3 DEF OneBody, EarlierInv
      <3> QED  BY <3>1, <3>2, <3>3
    <2>18. BeatenInv'
      <3> SUFFICES ASSUME NEW a \in Tabs, NEW b \in Tabs,
                          a # b, election'[a] = "claiming", shows[b] > 0, b \notin before'[a],
                          NEW d \in HeardOf(a, b)'
                   PROVE  Beats(d, myClaim'[a])
        BY <1>1 DEF BeatenInv
      <3>1. a # t
        BY <2>3, <2>12
      <3>2. b # t
        BY <1>3 DEF OneBody, NotedInv
      <3> QED  BY <2>3, <2>8, <3>1, <3>2 DEF OneBody, BeatenInv
    <2> QED  BY <1>1, <2>14, <2>15, <2>16, <2>17, <2>18 DEF OneBody
  <1> QED  BY <1>2, <1>3

\* The invariant is inductive: what was too early, or forgotten, stays so.
LEMMA OneKept ==
  ASSUME TypeInv, OneInv, [Next]_vars
  PROVE  OneInv'
  <1> SUFFICES ASSUME ~late', ~forgot' PROVE OneBody'
    BY DEF OneInv
  <1>1. CASE UNCHANGED vars
    BY <1>1 DEF vars, OneInv, OneBody, NotedInv, ToldInv, OnWayInv, LaterInv, EarlierInv,
                BeatenInv, HeardOf, ClaimsOf
  <1>2. ASSUME NEW t \in Tabs, Notice(t) PROVE OneBody'
    BY <1>2, NoticeKept DEF Notice, OneInv
  <1>3. ASSUME NEW t \in Tabs, ClaimTimeout(t) PROVE OneBody'
    <2>1. OneBody /\ UNCHANGED <<events, alive, forgot>>
      BY <1>3 DEF ClaimTimeout, OneInv
    <2>2. CASE Winner(myClaim[t], claims[t]) = myClaim[t]
      BY <1>3, <2>1, <2>2, ShowKept DEF ClaimTimeout
    <2>3. CASE Winner(myClaim[t], claims[t]) # myClaim[t]
      BY <1>3, <2>1, <2>3, WaitKept DEF ClaimTimeout
    <2> QED  BY <2>2, <2>3
  <1>4. ASSUME NEW t \in Tabs, FailoverTimeout(t) PROVE OneBody'
    <2>1. OneBody /\ UNCHANGED <<events, alive, forgot>>
      BY <1>4 DEF FailoverTimeout, OneInv
    <2>2. CASE Show(t)
      BY <1>4, <2>1, <2>2, ShowKept
    <2>3. CASE ~Show(t)
      BY <1>4, <2>1, <2>3, GiveUpKept DEF FailoverTimeout
    <2> QED  BY <2>2, <2>3
  <1>5. ASSUME NEW t \in Tabs, OnMessage(t) PROVE OneBody'
    <2>1. OneBody /\ UNCHANGED <<events, alive, shows, late, forgot>>
      BY <1>5 DEF OnMessage, OneInv
    <2>2. PICK m \in channel[t] : /\ OnClaim(t, m) \/ OnShown(t, m)
                                  /\ channel' = [channel EXCEPT ![t] = @ \ {m}]
      BY <1>5 DEF OnMessage
    <2> QED  BY <2>1, <2>2, ClaimKept, ToldKept
  <1>6. ASSUME NEW t \in Tabs, CloseTab(t) PROVE OneBody'
    BY <1>6, CloseKept DEF CloseTab, OneInv
  <1> QED  BY <1>1, <1>2, <1>3, <1>4, <1>5, <1>6 DEF Next, Runs

\* Unless a timer fires too early or a shown notification is forgotten, only one tab shows a
\* message, whenever the tabs are sent the event, and whichever of them are closed.
THEOREM OnlyOneTabShows == Spec => []OneTabShows
  <1>1. Init => OneInv
    BY DEF Init, OneInv, OneBody, NotedInv, ToldInv, OnWayInv, LaterInv, EarlierInv, BeatenInv,
           ClaimsOf
  <1>2. OneInv => OneTabShows
    BY DEF OneInv, OneBody, OneTabShows
  <1> QED  BY TypesKept, OneKept, <1>1, <1>2, PTL DEF Spec
=============================================================================
