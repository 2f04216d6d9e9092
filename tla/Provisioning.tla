---- MODULE Provisioning ----
(***************************************************************************)
(* Provisioning operations using signup grants in the documented order:    *)
(* claim, provision and durably commit the farm, consume; release only     *)
(* before the commit.  The operations are outside the repository.  They    *)
(* are modelled at their best: one commits its farm only at a moment when  *)
(* the lease it was answered has ended on no clock.                        *)
(***************************************************************************)
EXTENDS SignupGrants

VARIABLE farms             \* the operations that committed a farm for a grant

pvars == <<vars, farms>>

PInit == Init /\ farms = [g \in Grants |-> {}]

CommitFarm(g, c) ==
  /\ CountsOn(c, g)
  /\ farms' = [farms EXCEPT ![g] = @ \cup {c}]
  /\ UNCHANGED vars

\* An operation that committed its farm asks for no release of its lease.
NoReleaseAfterCommit ==
  \A p \in Procs : calls'[p] # NoCall /\ calls'[p].op = "release" =>
    calls'[p].claim \notin farms[calls'[p].grant]

PNext == \/ Next /\ NoReleaseAfterCommit /\ UNCHANGED farms
         \/ \E g \in Grants, c \in Claims : CommitFarm(g, c)

PSpec == PInit /\ [][PNext]_pvars

----
(* Properties.                                                            *)

\* At most one farm is committed for a grant: "This reservation state prevents
\* two provisioning workers from independently creating farms".
OneFarm == \A g \in Grants : \A c, d \in farms[g] : c = d

\* What the reservation does prevent: a farm is never committed while another
\* operation's lease is live, nor once another operation's consume was
\* committed.
FarmRespectsOthers ==
  [][\A g \in Grants : \A c \in farms'[g] \ farms[g] :
       /\ \A d \in Claims \ {c} : ~CountsOn(d, g)
       /\ grants[g].status = "consumed" => grants[g].claim = c]_pvars
====
