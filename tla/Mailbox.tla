------------------------------- MODULE Mailbox -------------------------------
(***************************************************************************)
(* What envelope delivery promises, with no handlers, transactions or      *)
(* retries: an envelope is put in a mailbox at once and for good, waits    *)
(* there until it is acknowledged, and each acknowledgement is on record   *)
(* from then on.  A KeyPackage is published by its sender in one envelope  *)
(* at most, bound to it from the start.                                    *)
(***************************************************************************)
EXTENDS Integers, Sequences

CONSTANTS Envelopes, Addresses, Bindings, Times

VARIABLES
  placed,    \* placed[e]: {} before e exists, then the set of its one address
  bound,     \* bound[e]: the KeyPackage it publishes, if any, likewise
  waiting,   \* the envelopes to be acknowledged
  receipts   \* receipts[e]: the times of its acknowledgements

mailboxVars == <<placed, bound, waiting, receipts>>

MailboxInit ==
  /\ placed = [e \in Envelopes |-> {}]
  /\ bound = [e \in Envelopes |-> {}]
  /\ waiting = {}
  /\ receipts = [e \in Envelopes |-> <<>>]

Place(e) ==
  /\ placed[e] = {}
  /\ waiting' = waiting \union {e}
  /\ \E address \in Addresses : placed' = [placed EXCEPT ![e] = {address}]
  /\ UNCHANGED receipts

Send(e) == Place(e) /\ UNCHANGED bound

\* The KeyPackages that the senders in placed'[e] have published already.
Published(e) ==
  UNION {bound[f] : f \in {g \in Envelopes :
           \E a \in placed[g], b \in placed'[e] : a.from = b.from}}

Announce(e) ==
  /\ Place(e)
  /\ \E new \in Bindings :
       /\ \A old \in Published(e) : old.ref # new.ref /\ old.payload # new.payload
       /\ bound' = [bound EXCEPT ![e] = {new}]

Acknowledge(e) ==
  /\ placed[e] # {}
  /\ waiting' = waiting \ {e}
  /\ \E time \in Times : receipts' = [receipts EXCEPT ![e] = Append(@, time)]
  /\ UNCHANGED <<placed, bound>>

MailboxNext == \E e \in Envelopes : Send(e) \/ Announce(e) \/ Acknowledge(e)

MailboxSpec == MailboxInit /\ [][MailboxNext]_mailboxVars
=============================================================================
