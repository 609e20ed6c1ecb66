-------------------------- MODULE UpstreamContract --------------------------
(***************************************************************************)
(* What the rest of the gateway may rely on when an integration makes an   *)
(* outbound call, whatever the retry settings: a call is put on the wire   *)
(* at most `budget` times, each time it is executed by the third party at  *)
(* most once and possibly late, it is closed once, it is reported once and *)
(* nothing is sent for it afterwards.  The report never claims more        *)
(* attempts than were made.                                                *)
(***************************************************************************)
EXTENDS Naturals

CONSTANT Call

VARIABLES
  budget,    \* how often a call may be sent, fixed for a process
  sent,      \* sent[c]: how many times call c was put on the wire
  executed,  \* executed[c]: the attempts the third party carried out
  reported   \* reported[c]: 0 while c is open, else the attempts reported

vars == <<budget, sent, executed, reported>>

Init ==
  /\ budget \in Nat \ {0}
  /\ sent = [c \in Call |-> 0]
  /\ executed = [c \in Call |-> {}]
  /\ reported = [c \in Call |-> 0]

Send(c) ==
  /\ reported[c] = 0
  /\ sent[c] < budget
  /\ sent' = [sent EXCEPT ![c] = @ + 1]
  /\ UNCHANGED <<budget, executed, reported>>

Execute(c) ==
  /\ \E k \in (1 .. sent[c]) \ executed[c] :
       executed' = [executed EXCEPT ![c] = @ \cup {k}]
  /\ UNCHANGED <<budget, sent, reported>>

Close(c) ==
  /\ sent[c] > 0
  /\ reported[c] = 0
  /\ reported' = [reported EXCEPT ![c] = sent[c]]
  /\ UNCHANGED <<budget, sent, executed>>

Next == \E c \in Call : Send(c) \/ Execute(c) \/ Close(c)

Spec == Init /\ [][Next]_vars
=============================================================================
