---------------------------- MODULE Conversation ----------------------------
(***************************************************************************)
(* What Privee.Chats promises the two members of a conversation: in each   *)
(* epoch there is one log, a nonce enters it at most once, what was stored *)
(* stays until the epoch ends or an identity reset clears the history, and *)
(* a sender who is told "stored" has the message in the log.  An epoch that*)
(* ended makes no promise.                                                 *)
(***************************************************************************)
EXTENDS Naturals

CONSTANT Procs  \* who answers the senders

VARIABLES
  epoch,   \* the current epoch, 0 if there is no conversation
  log,     \* the messages of the current epoch
  cleared, \* epochs whose history a reset cleared
  reply    \* the last answer each process gave

vars == <<epoch, log, cleared, reply>>

\* The conversation starts, expires, rotates or is ended: its messages go at once.
Turn == epoch' # epoch /\ log' = {} /\ UNCHANGED cleared

\* A message is stored, unless one of its nonce is there.
Store ==
  /\ epoch # 0
  /\ UNCHANGED <<epoch, cleared>>
  /\ \E m \in log' :
       /\ log' = log \cup {m}
       /\ \A old \in log : old.nonce # m.nonce

\* A reset clears the history of an epoch, current or over.
Clear ==
  /\ UNCHANGED epoch
  /\ \E e \in cleared' :
       /\ cleared' = cleared \cup {e}
       /\ log' = IF e = epoch THEN {} ELSE log

\* "Stored" is said only of what is in the log.
Truthful(r) ==
  r.kind \in {"ok", "duplicate"} /\ r.epoch = epoch /\ epoch \notin cleared
    => \E m \in log : m.nonce = r.nonce /\ m.seq = r.seq

Answer ==
  \E p \in Procs :
    /\ reply' = [reply EXCEPT ![p] = reply'[p]]
    /\ Truthful(reply'[p])

Init == epoch = 0 /\ log = {} /\ cleared = {} /\ \A p \in Procs : reply[p].kind = "none"

Next ==
  /\ Turn \/ Store \/ Clear \/ UNCHANGED <<epoch, log, cleared>>
  /\ Answer \/ UNCHANGED reply

Spec == Init /\ [][Next]_vars
=============================================================================
