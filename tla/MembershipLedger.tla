-------------------------- MODULE MembershipLedger --------------------------
(***************************************************************************)
(* What the membership half of a relay space promises, with no handlers,   *)
(* transactions or retries: an invite admits at most max_claims members,   *)
(* one at a time, each admission and each change of a member's standing    *)
(* happens at once and for good, and who has left never comes back.        *)
(***************************************************************************)
EXTENDS Integers, FiniteSets

CONSTANTS Invites, MemberIds, Limits

Unlimited == -1
Standings == {"active", "disabled", "left"}

VARIABLES
  terms,     \* terms[i]: {} before the invite exists, then the set of its one term
  admitted,  \* admitted[i]: the members who came in by invite i
  standing   \* standing[m]: "none" until the member exists

ledgerVars == <<terms, admitted, standing>>

LedgerInit ==
  /\ terms = [i \in Invites |-> {}]
  /\ admitted = [i \in Invites |-> {}]
  /\ standing = [m \in MemberIds |-> "none"]

Issue(i) ==
  /\ terms[i] = {}
  /\ \E max \in Limits, open \in BOOLEAN :
       terms' = [terms EXCEPT ![i] = {[max |-> max, open |-> open]}]
  /\ UNCHANGED <<admitted, standing>>

Admit(i, m) ==
  /\ standing[m] = "none"
  /\ \E t \in terms[i] :
       t.open /\ (t.max = Unlimited \/ Cardinality(admitted[i]) < t.max)
  /\ admitted' = [admitted EXCEPT ![i] = @ \union {m}]
  /\ standing' = [standing EXCEPT ![m] = "active"]
  /\ UNCHANGED terms

\* Registration by the operator, without an invite and in any standing.
Enroll(m) ==
  /\ standing[m] = "none"
  /\ \E s \in Standings : standing' = [standing EXCEPT ![m] = s]
  /\ UNCHANGED <<terms, admitted>>

Change(m) ==
  /\ standing[m] \in {"active", "disabled"}
  /\ \E s \in Standings \ {standing[m]} : standing' = [standing EXCEPT ![m] = s]
  /\ UNCHANGED <<terms, admitted>>

LedgerNext ==
  \/ \E i \in Invites : Issue(i) \/ \E m \in MemberIds : Admit(i, m)
  \/ \E m \in MemberIds : Enroll(m) \/ Change(m)

LedgerSpec == LedgerInit /\ [][LedgerNext]_ledgerVars
=============================================================================
