------------------------- MODULE MCEnvelopeDelivery -------------------------
(***************************************************************************)
(* Small instances of EnvelopeDelivery.  Each set of jobs is a set of      *)
(* requests that clients may send, in any order and any number of times.   *)
(***************************************************************************)
EXTENDS EnvelopeDelivery, TLC

CONSTANTS h1, h2, s1, d1, d2, e1, e2, e3, r1, r2, p1, p2

HandlerSymmetry == Permutations({h1, h2})

Submitting(s, from, to) == [op |-> "submit", space |-> s, from |-> from, to |-> to]
Listing(s, d) == [op |-> "inbox", space |-> s, device |-> d]
Acking(s, e, d) == [op |-> "ack", space |-> s, envelope |-> e, device |-> d]
Publishing(s, from, to, r, p) ==
  [op |-> "publish", space |-> s, from |-> from, to |-> to, ref |-> r, payload |-> p]

\* One envelope inside a relay space and one outside, acknowledged by each
\* route, in time and too late, by the recipient and by another device.
AckJobs1 == {Submitting(s1, d1, d2), Submitting(NoSpace, d1, d2),
             Acking(s1, e1, d2), Acking(NoSpace, e1, d2), Acking(s1, e2, d2),
             Acking(NoSpace, e1, d1), Acking(Stranger, e1, d2)}

\* A recipient who lists its inboxes, of a space and of none, while envelopes
\* come and are acknowledged.
InboxJobs1 == {Submitting(s1, d1, d2), Submitting(NoSpace, d1, d2),
               Listing(s1, d2), Listing(NoSpace, d2), Listing(s1, Stranger),
               Listing(Stranger, d2), Acking(NoSpace, e1, d2)}

\* A KeyPackage published to one device or to another, requests that reuse its
\* reference or its payload, and requests that name what does not exist
\* (the last of them needs no envelope id, so that one can always arrive).
PublishJobs1 == {Publishing(s1, d1, d2, r1, p1), Publishing(s1, d1, d1, r1, p1),
                 Publishing(s1, d1, d2, r1, p2), Publishing(s1, d1, d2, r2, p1),
                 Publishing(Stranger, d1, d2, r1, p1), Publishing(s1, Stranger, d2, r1, p1),
                 Publishing(s1, d1, Stranger, r1, p1),
                 Listing(Stranger, d2)}

\* A publication, an envelope sent beside it, an ack of either, and the inbox
\* that lists them.
MixJobs == {Publishing(s1, d1, d2, r1, p1), Submitting(s1, d1, d2),
            Acking(s1, e1, d2), Listing(s1, d2)}

SubmitJobs1 == {Submitting(s1, d1, d2), Submitting(Stranger, d1, d2),
                Submitting(s1, Stranger, d2), Submitting(NoSpace, d1, Stranger)}
=============================================================================
