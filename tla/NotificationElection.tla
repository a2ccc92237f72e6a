------------------------ MODULE NotificationElection ------------------------
(***************************************************************************)
(* How the tabs of a browser agree which of them notifies the user of one  *)
(* message: createNotificationCoordinator and its caller,                  *)
(* pushBackEndNotification, for one dedup key.                             *)
(*                                                                         *)
(* There is no clock: the timers of a hidden tab are throttled and its     *)
(* messages wait, so the claim timer may fire at any time after the claim, *)
(* the failover timer at any time after that, and a channel delivers late. *)
(***************************************************************************)
EXTENDS Integers, FiniteSets

CONSTANTS
  Tabs,      \* the open tabs: numbers, in the order of their tabIds
  MaxEvents, \* bound: trigger_notification events of one message
  MaxCrashes \* bound: tabs closed

ASSUME ElectionAssumption ==
  /\ Tabs \subseteq Int /\ IsFiniteSet(Tabs)
  /\ MaxEvents \in Nat /\ MaxCrashes \in Nat

VARIABLES
  events,   \* events that tabs are still to be sent
  election, \* none, claiming (claim timer runs), waiting (failover timer runs)
  myClaim, claims, \* of that election; claims is frozen by the claim timer
  recent,   \* the tab has the key in recentlyShown
  channel,  \* messages posted and not yet handled, by receiver
  alive,
  shows,    \* how often the tab was told to show the notification
  before,   \* history: the tabs that had begun, and not confirmed, when this one began
  late,     \* history: a timer fired too early with regard to what other tabs had posted
  forgot    \* history: an entry of recentlyShown was older than its window

vars == <<events, election, myClaim, claims, recent, channel, alive, shows, before, late,
          forgot>>

Claim(t, p) == [type |-> "claim", tab |-> t, priority |-> p]
Shown(t) == [type |-> "shown", tab |-> t, priority |-> 0]
NoClaim == Claim(0, 0)

\* postMessage reaches every other tab that is open.
Posted(t, m) == [u \in Tabs |-> IF u = t \/ ~alive[u] THEN channel[u] ELSE channel[u] \cup {m}]

\* As a bug would have it: a tie is not broken.
HasPriority(c, d) == c.priority > d.priority

Beats(c, d) == c.priority > d.priority \/ (c.priority = d.priority /\ c.tab < d.tab)

\* electWinner, whose list begins with the claim of the tab itself.
Winner(own, others) ==
  IF \E c \in others : Beats(c, own)
  THEN CHOOSE c \in others : \A d \in others : ~Beats(d, c)
  ELSE own

-----------------------------------------------------------------------------
(* shouldShowNotification                                                  *)

Earlier(t) == {u \in Tabs : election[u] # "none" \/ Shown(u) \in channel[t]}

\* An event of a tab that has the chat in view changes nothing and is left out. An entry
\* of recentlyShown that is DEDUP_WINDOW_MS old is pruned. A shown notification and an
\* election under way end the call with false; else the tab claims.
Notice(t) ==
  /\ alive[t] /\ events > 0
  /\ events' = events - 1
  /\ \E old \in {FALSE, recent[t]} :
       /\ recent' = [recent EXCEPT ![t] = @ /\ ~old]
       /\ forgot' = (forgot \/ old)
  /\ IF recent'[t] \/ election[t] # "none"
     THEN UNCHANGED <<election, myClaim, claims, channel, before>>
     ELSE \E p \in 0 .. 1 :
            /\ election' = [election EXCEPT ![t] = "claiming"]
            /\ myClaim' = [myClaim EXCEPT ![t] = Claim(t, p)]
            /\ claims' = [claims EXCEPT ![t] = {}]
            /\ channel' = Posted(t, Claim(t, p))
            /\ before' = [before EXCEPT ![t] = Earlier(t)]
  /\ UNCHANGED <<alive, shows, late>>

\* resolveElection
Resolve(t) ==
  /\ election' = [election EXCEPT ![t] = "none"]
  /\ myClaim' = [myClaim EXCEPT ![t] = NoClaim] /\ claims' = [claims EXCEPT ![t] = {}]
  /\ before' = [before EXCEPT ![t] = {}]

\* As a bug would have it: the tab does not note what it shows itself.
ShowUnnoted(t) ==
  /\ Resolve(t)
  /\ channel' = Posted(t, Shown(t))
  /\ shows' = [shows EXCEPT ![t] = @ + 1]
  /\ UNCHANGED recent

\* recentlyShown.set, the "shown" message, resolveElection(key, true)
Show(t) ==
  /\ Resolve(t)
  /\ recent' = [recent EXCEPT ![t] = TRUE]
  /\ channel' = Posted(t, Shown(t))
  /\ shows' = [shows EXCEPT ![t] = @ + 1]

\* The claim timer fires too early with regard to a tab that t has no claim of, or that
\* began before t: its message is on its way, or t has no claim and it has not decided.
Unheard(t) == {u \in Tabs \ {t} : \A c \in claims[t] : c.tab # u}
TooEarly(t) ==
  \/ \E m \in channel[t] : m.tab \in Unheard(t) \cup before[t]
  \/ \E u \in Unheard(t) \cap before[t] : election[u] = "claiming"

\* The failover timer does: a message is on its way, to t or still from t, a tab that began
\* before t is not done, or one that t has a claim of has not decided.
TooEarlyAgain(t) ==
  \/ channel[t] # {}
  \/ \E u \in Tabs : \E m \in channel[u] : m.tab = t
  \/ \E u \in before[t] : election[u] # "none"
  \/ \E c \in claims[t] : election[c.tab] = "claiming"

ClaimTimeout(t) ==
  /\ alive[t] /\ election[t] = "claiming"
  /\ \/ Winner(myClaim[t], claims[t]) = myClaim[t] /\ Show(t)
     \/ /\ Winner(myClaim[t], claims[t]) # myClaim[t]
        /\ election' = [election EXCEPT ![t] = "waiting"]
        /\ UNCHANGED <<myClaim, claims, before, recent, channel, shows>>
  /\ late' = (late \/ TooEarly(t))
  /\ UNCHANGED <<events, alive, forgot>>

\* As a bug would have it: a tab that lost does not stand in for the winner.
GivesUp(own, others) == NoClaim

\* The winner did not confirm: the election is held again without it.
NextWinner(own, others) ==
  Winner(own, {c \in others : c.tab # Winner(own, others).tab})

FailoverTimeout(t) ==
  /\ alive[t] /\ election[t] = "waiting"
  /\ \/ NextWinner(myClaim[t], claims[t]) = myClaim[t] /\ Show(t)
     \/ /\ NextWinner(myClaim[t], claims[t]) # myClaim[t]
        /\ Resolve(t)
        /\ UNCHANGED <<recent, channel, shows>>
  /\ late' = (late \/ TooEarlyAgain(t))
  /\ UNCHANGED <<events, alive, forgot>>

-----------------------------------------------------------------------------
(* channel.onmessage: a claim without an election of the key is dropped.   *)

\* As a bug would have it: a claim of another tab opens an election that nothing ends.
OnClaimOpens(t, m) ==
  /\ m.type = "claim"
  /\ election' = [election EXCEPT ![t] = IF @ = "none" THEN "claiming" ELSE @]
  /\ claims' = [claims EXCEPT ![t] = @ \cup {m}]
  /\ UNCHANGED <<myClaim, before, recent>>

OnClaim(t, m) ==
  /\ m.type = "claim"
  /\ claims' = IF election[t] = "claiming" THEN [claims EXCEPT ![t] = @ \cup {m}] ELSE claims
  /\ UNCHANGED <<election, myClaim, before, recent>>

OnShown(t, m) ==
  /\ m.type = "shown"
  /\ \A n \in channel[t] : n.tab = m.tab => n = m   \* messages of a tab arrive in order
  /\ recent' = [recent EXCEPT ![t] = TRUE]
  /\ Resolve(t)

OnMessage(t) ==
  /\ alive[t]
  /\ \E m \in channel[t] :
       /\ OnClaim(t, m) \/ OnShown(t, m)
       /\ channel' = [channel EXCEPT ![t] = @ \ {m}]
  /\ UNCHANGED <<events, alive, shows, late, forgot>>

Closed == Cardinality({t \in Tabs : ~alive[t]})

CloseTab(t) ==
  /\ alive[t] /\ Closed < MaxCrashes
  /\ alive' = [alive EXCEPT ![t] = FALSE]
  /\ channel' = [channel EXCEPT ![t] = {}]
  /\ Resolve(t)
  /\ UNCHANGED <<events, recent, shows, late, forgot>>

-----------------------------------------------------------------------------
Init ==
  /\ events = MaxEvents
  /\ election = [t \in Tabs |-> "none"]
  /\ myClaim = [t \in Tabs |-> NoClaim] /\ claims = [t \in Tabs |-> {}]
  /\ recent = [t \in Tabs |-> FALSE]
  /\ channel = [t \in Tabs |-> {}]
  /\ alive = [t \in Tabs |-> TRUE]
  /\ shows = [t \in Tabs |-> 0] /\ before = [t \in Tabs |-> {}]
  /\ late = FALSE /\ forgot = FALSE

Runs(t) == ClaimTimeout(t) \/ FailoverTimeout(t) \/ OnMessage(t)

Next == \E t \in Tabs : Notice(t) \/ Runs(t) \/ CloseTab(t)

Spec == Init /\ [][Next]_vars

\* The event loops of the open tabs fire their timers and handle their messages.
FairSpec == Spec /\ WF_vars(\E t \in Tabs : Runs(t))

-----------------------------------------------------------------------------
(* Properties                                                              *)

AnyClaim == [type : {"claim"}, tab : Tabs, priority : 0 .. 1]

TypeOK ==
  /\ \A t \in Tabs :
       /\ election[t] \in {"none", "claiming", "waiting"}
       /\ claims[t] \subseteq {c \in AnyClaim : c.tab # t}
       /\ channel[t] \subseteq AnyClaim \cup {Shown(u) : u \in Tabs}
       /\ election[t] # "none" => myClaim[t].tab = t
  /\ events \in 0 .. MaxEvents /\ late \in BOOLEAN /\ forgot \in BOOLEAN

\* "Only one tab should show the notification", at whatever times the tabs are sent the
\* event and although a claim that precedes it is dropped: the timers make up for that. It
\* takes timers that fire in turn, messages that are faster than a timer, and no event after
\* the dedup window.
OneTabShows ==
  ~late /\ ~forgot => \A t, u \in Tabs : shows[t] > 0 /\ shows[u] > 0 => t = u

\* However late claims and confirmations are, a tab shows a message once within the dedup
\* window: its other events join the election or find the notification shown.
OncePerTab == ~forgot => \A t \in Tabs : shows[t] <= 1

\* Two tabs that claim are enough for one closed tab: the next one stands in for the winner,
\* however late messages are and timers fire. If the winner and the next one are both closed,
\* a third tab gives up.
SomeTabShows ==
  (\E t, u \in Tabs : t # u /\ election[t] # "none" /\ election[u] # "none")
    ~> ((\E t \in Tabs : shows[t] > 0) \/ Closed > 1)
=============================================================================
