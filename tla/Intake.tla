---- MODULE Intake ----
(***************************************************************************)
(* What the intake of applications promises, without handlers, locks,      *)
(* transactions or a directory of files: applications are added and never  *)
(* changed, two of one payload are spaced, one that is reviewed has a link *)
(* of its own that can be read from then on, the reviewer is told of stored*)
(* links only, and whoever is thanked has a row that is recent enough.     *)
(* Submissions implements this specification.                              *)
(***************************************************************************)
EXTENDS Integers, Sequences

CONSTANTS Payloads,
          Reviewed,    \* the payloads whose applications are reviewed
          Links,
          NoLink,      \* an application that is not reviewed
          Spacing,     \* rows of one payload are further apart than this
          NotYet       \* before every row

VARIABLES clock,
          rows,        \* in the order in which they were added
          readable,    \* links that can be read
          told,        \* links of which the reviewer was told
          thanked      \* by payload, since when a row answers for the latest thanks

Init ==
  /\ clock = 0
  /\ rows = <<>>
  /\ readable = {}
  /\ told = {}
  /\ thanked = [p \in Payloads |-> NotYet]

Tick == clock' = clock + 1 /\ UNCHANGED <<rows, readable, told, thanked>>

\* Somebody who sent p is thanked on the strength of a row.
Thank(p) ==
  /\ thanked[p] < thanked'[p]
  /\ thanked' = [thanked EXCEPT ![p] = thanked'[p]]
  /\ \E i \in DOMAIN rows' : rows'[i].payload = p /\ thanked'[p] <= rows'[i].createdAt

\* The sender is answered in the same step, or later.
Answer(p) == UNCHANGED thanked \/ Thank(p)

Store(p) ==
  /\ Len(rows') = Len(rows) + 1
  /\ \E t \in Links \cup {NoLink}, at \in 0..clock :
       /\ t # NoLink <=> p \in Reviewed
       /\ \A i \in DOMAIN rows : /\ t # NoLink => rows[i].token # t
                                 /\ rows[i].payload = p => at - rows[i].createdAt > Spacing
       /\ rows' = Append(rows, [payload |-> p, createdAt |-> at, token |-> t])
       /\ readable' = readable \cup ({t} \ {NoLink})
  /\ Answer(p)
  /\ UNCHANGED <<clock, told>>

Notify(i) ==
  /\ rows[i].token # NoLink
  /\ told' = told \cup {rows[i].token}
  /\ Answer(rows[i].payload)
  /\ UNCHANGED <<clock, rows, readable>>

\* Nothing is stored for a payload that has a recent row.
Repeat(p) == Thank(p) /\ UNCHANGED <<clock, rows, readable, told>>

Next ==
  \/ Tick
  \/ \E p \in Payloads : Store(p) \/ Repeat(p)
  \/ \E i \in DOMAIN rows : Notify(i)

Spec == Init /\ [][Next]_<<clock, rows, readable, told, thanked>>
====
