---- MODULE ApplicationLife ----
(***************************************************************************)
(* What the review of an application promises, without handlers, clocks,   *)
(* transactions or a directory of files: an application is decided once, an*)
(* approval gives it one link of its own, nothing but that link is ever    *)
(* mailed to the applicant, the link is spent only after it was mailed, and*)
(* until then its token can be read again.  Approvals implements this      *)
(* specification.                                                          *)
(***************************************************************************)
CONSTANTS Apps, Tokens,
          NoLink,      \* an application without a link
          MayLose      \* may a token be lost before its link is spent?

VARIABLES state,       \* of an application
          link,        \* its token
          kept,        \* applications whose token can be read
          mailed       \* <<application, token>> sent

State == {"open", "approved", "spent", "declined", "closed"}

Init ==
  /\ state = [a \in Apps |-> "open"]
  /\ link = [a \in Apps |-> NoLink]
  /\ kept = {}
  /\ mailed = {}

HasLink(a) == state[a] \in {"approved", "spent"}

Move(a, from, to) == state[a] = from /\ state' = [state EXCEPT ![a] = to]

Approve(a, t) ==
  /\ Move(a, "open", "approved")
  /\ \A b \in Apps : HasLink(b) => link[b] # t
  /\ link' = [link EXCEPT ![a] = t]
  /\ kept' = kept \cup {a}
  /\ UNCHANGED mailed

Decline(a) == Move(a, "open", "declined") /\ UNCHANGED <<link, kept, mailed>>

\* Outside the service: nothing can be decided any more.
Close(a) == Move(a, "open", "closed") /\ UNCHANGED <<link, kept, mailed>>

\* As often as the approval is repeated.
Deliver(a) ==
  /\ HasLink(a)
  /\ mailed' = mailed \cup {<<a, link[a]>>}
  /\ UNCHANGED <<state, link, kept>>

Spend(a) ==
  /\ <<a, link[a]>> \in mailed
  /\ Move(a, "approved", "spent")
  /\ UNCHANGED <<link, kept, mailed>>

Lose(a) ==
  /\ state[a] = "spent" \/ MayLose
  /\ kept' = kept \ {a}
  /\ UNCHANGED <<state, link, mailed>>

Next == \E a \in Apps :
  \/ \E t \in Tokens : Approve(a, t)
  \/ Decline(a) \/ Close(a) \/ Deliver(a) \/ Spend(a) \/ Lose(a)

Spec == Init /\ [][Next]_<<state, link, kept, mailed>>
====
