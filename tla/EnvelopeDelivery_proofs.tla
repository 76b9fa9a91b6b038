------------------------ MODULE EnvelopeDelivery_proofs ------------------------
(***************************************************************************)
(* Proofs about EnvelopeDelivery for every number of handlers, spaces,     *)
(* devices, envelopes and KeyPackages, any requests, any MaxAttempts and   *)
(* both values of ReadLocks (only PublishedBetweenActive needs the read    *)
(* locks).  One inductive invariant: what each handler knows at its step,  *)
(* what the cache of a writer is ahead of the file by, and what the tables *)
(* say of each other; then the step of the refinement of Mailbox.          *)
(***************************************************************************)
EXTENDS EnvelopeDelivery, TLAPS, WellFoundedInduction

\* The steps at which a handler holds the write lock, and a read lock.
Writing == {"ack.update", "ack.commit", "publish.binding", "publish.commit"}
Reading == Writing \union {"publish.sender", "publish.recipient", "publish.find", "publish.envelope"}

\* An envelope is acknowledged exactly if an acknowledgement is on record.
Acked(t) ==
  \A e \in Envelopes :
    t.acks[e] # <<>> <=> e \in Stored(t) /\ t.envelopes[e].state = "acknowledged"

\* A publication has an envelope that came with it.
Paired(t) ==
  /\ \A e \in Stored(t) : t.envelopes[e].via = "publish" <=> t.bindings[e] # NoRow
  /\ \A e \in Envelopes : t.bindings[e] # NoRow => e \in Stored(t)

\* No two publications of a sender share their reference or their payload.
Once(t) ==
  \A e, f \in Envelopes :
    /\ t.bindings[e] # NoRow /\ t.bindings[f] # NoRow
    /\ t.envelopes[e].from = t.envelopes[f].from
    /\ \/ t.bindings[e].ref = t.bindings[f].ref
       \/ t.bindings[e].payload = t.bindings[f].payload
    => e = f

Enlisted(t, s, d) == t.members[<<s, d>>] # "none"

\* The envelopes of a space are between devices that were its members.
Internal(t) ==
  \A e \in Stored(t) :
    t.envelopes[e].space # NoSpace =>
      /\ Enlisted(t, t.envelopes[e].space, t.envelopes[e].from)
      /\ Enlisted(t, t.envelopes[e].space, t.envelopes[e].to)

Sound(t) == Acked(t) /\ Paired(t) /\ Once(t) /\ Internal(t)

\* The same but for its state, which is never queued again.
SameEnvelope(old, new) ==
  /\ new # NoRow
  /\ new.space = old.space /\ new.from = old.from /\ new.to = old.to /\ new.via = old.via
  /\ old.state = "acknowledged" => new.state = "acknowledged"

\* times goes on as more.
Continues(times, more) ==
  \A n \in DOMAIN times : n \in DOMAIN more /\ more[n] = times[n]

\* t became u without losing or changing what t says.
Grows(t, u) ==
  /\ \A e \in Envelopes : t.envelopes[e] # NoRow => SameEnvelope(t.envelopes[e], u.envelopes[e])
  /\ \A e \in Envelopes : t.bindings[e] # NoRow => u.bindings[e] = t.bindings[e]
  /\ \A e \in Envelopes : Continues(t.acks[e], u.acks[e])
  /\ \A s \in Spaces, d \in Devices : Enlisted(t, s, d) => Enlisted(u, s, d)

\* u is t with an acknowledgement of e.
Receipted(t, u, e, at) ==
  /\ u.members = t.members /\ u.bindings = t.bindings
  /\ u.acks = [t.acks EXCEPT ![e] = Append(t.acks[e], at)]

Closed(t, e) == [t.envelopes EXCEPT ![e].state = "acknowledged"]

\* u is t with the envelope that j asks for.
Posted(t, u, e, j) ==
  /\ e \in Envelopes /\ t.envelopes[e] = NoRow
  /\ u.members = t.members /\ u.acks = t.acks
  /\ u.envelopes = [t.envelopes EXCEPT ![e] = NewEnvelope(j)]

\* u binds what t binds, but for e; and with e bound as j asks.
OthersBound(t, u, e) == \A f \in Envelopes \ {e} : u.bindings[f] = t.bindings[f]

Bound(t, u, e, j) ==
  u.bindings = [t.bindings EXCEPT ![e] = [ref |-> j.ref, payload |-> j.payload]]

Named(j) == j.space \in Spaces \union {NoSpace} /\ j.from \in Devices /\ j.to \in Devices

\* What a handler knows of its request, step by step.
SubmitStage(h) ==
  LET j == job[h] IN
  /\ pc[h] \in {"submit", "submit.sender", "submit.recipient", "submit.insert"} => j \in SubmitJobs
  /\ pc[h] \in {"submit.sender", "submit.recipient", "submit.insert"} => Named(j)
  /\ pc[h] \in {"submit.sender", "submit.recipient"} => j.space # NoSpace
  /\ pc[h] = "submit.recipient" => Enlisted(disk, j.space, j.from)
  /\ pc[h] = "submit.insert" /\ j.space # NoSpace =>
       Enlisted(disk, j.space, j.from) /\ Enlisted(disk, j.space, j.to)

AckStage(h) ==
  LET j == job[h]
      e == j.envelope
  IN
  /\ pc[h] \in {"ack", "ack.member", "ack.decide", "ack.insert", "ack.update", "ack.commit"} =>
       j \in AckJobs
  /\ pc[h] \in {"ack.member", "ack.decide", "ack.insert", "ack.update", "ack.commit"} =>
       /\ e \in Stored(disk)
       /\ mine[h].first # 0 => \E n \in DOMAIN disk.acks[e] : disk.acks[e][n] = mine[h].first
       /\ mine[h].done => mine[h].first # 0
  /\ pc[h] \in {"ack.insert", "ack.update", "ack.commit"} =>
       mine[h].at \in 1..MaxTime /\ (mine[h].first # 0 => mine[h].at = mine[h].first)
  /\ pc[h] \in {"ack.update", "ack.commit"} /\ mine[h].first = 0 =>
       /\ Receipted(disk, cache, e, mine[h].at)
       /\ cache.envelopes = IF pc[h] = "ack.update" THEN disk.envelopes ELSE Closed(disk, e)
  /\ pc[h] \in {"ack.update", "ack.commit"} /\ mine[h].first # 0 => cache = disk

InPublish(h) ==
  pc[h] \in {"publish", "publish.sender", "publish.recipient", "publish.find",
             "publish.envelope", "publish.binding", "publish.commit"}

\* A member, and still active if nobody commits over a reader.
StillMember(d, s) ==
  Enlisted(disk, s, d) /\ (ReadLocks => ActiveMember(disk, s, d))

PublishStage(h) ==
  LET j == job[h]
      e == mine[h].envelope
  IN
  /\ InPublish(h) => j \in PublishJobs /\ attempt[h] < MaxAttempts
  /\ InPublish(h) /\ pc[h] # "publish" => Named(j) /\ j.space # NoSpace
  /\ InPublish(h) /\ pc[h] \notin {"publish", "publish.sender"} => StillMember(j.from, j.space)
  /\ pc[h] \in {"publish.find", "publish.envelope", "publish.binding", "publish.commit"} =>
       StillMember(j.to, j.space)
  /\ pc[h] \in {"publish.binding", "publish.commit"} => Posted(disk, cache, e, j)
  /\ pc[h] = "publish.binding" => cache.bindings = disk.bindings
  /\ pc[h] = "publish.commit" =>
       /\ ~Published(disk, j)
       /\ Bound(disk, cache, e, j)

\* The envelope that an answer names is what was asked for.
AsAsked(h) ==
  LET told == disk.envelopes[mine[h].envelope] IN
  /\ mine[h].envelope \in Stored(disk)
  /\ told.space = job[h].space /\ told.from = job[h].from /\ told.to = job[h].to

\* What an answer says is on disk.
Told(h) ==
  LET j == job[h] IN
  /\ pc[h] \in {"inbox", "inbox.member", "inbox.query"} => j \in InboxJobs
  /\ pc[h] = "answered" =>
       /\ answer[h] = "queued" => AsAsked(h)
       /\ answer[h] = "acknowledged" =>
            /\ j.envelope \in Stored(disk)
            /\ \E n \in DOMAIN disk.acks[j.envelope] : disk.acks[j.envelope][n] = mine[h].at
       /\ answer[h] \in {"published", "already_published"} =>
            /\ AsAsked(h) /\ disk.bindings[mine[h].envelope] # NoRow
            /\ disk.bindings[mine[h].envelope] = [ref |-> j.ref, payload |-> j.payload]
       /\ answer[h] = "listed" /\ j.space # NoSpace => Complete(h)

Knows(h) ==
  /\ pc[h] = "idle" => attempt[h] = 0
  /\ earlier[h] \subseteq Stored(disk)
  /\ SubmitStage(h) /\ AckStage(h) /\ PublishStage(h) /\ Told(h)

\* Who holds which lock.
Locks ==
  /\ \A h \in Handlers : h \in readers <=> pc[h] \in Reading
  /\ \A h \in Handlers : writer = h <=> pc[h] \in Writing
  /\ writer = NoHandler => cache = disk

IInv ==
  /\ TypeOK /\ Locks /\ Sound(disk)
  /\ \A h \in Handlers : Knows(h)

\* What a handler keeps to itself.
Own(h) == <<pc[h], job[h], attempt[h], mine[h], answer[h], earlier[h]>>

\* A step of h leaves what the other handlers keep alone.
OnlyOf(h) == \A q \in Handlers \ {h} : Own(q)' = Own(q)

\* The steps of others leave what q keeps to itself, what it writes, and with
\* read locks what it has read.
Untouched(q) ==
  /\ Own(q)' = Own(q)
  /\ pc[q] \in Writing => disk' = disk /\ cache' = cache
  /\ ReadLocks /\ pc[q] \in Reading => disk' = disk

OwnTypes ==
  /\ clock \in 1..MaxTime
  /\ pc \in [Handlers -> Labels]
  /\ job \in [Handlers -> Jobs \union {NoRow}]
  /\ attempt \in [Handlers -> 0..MaxAttempts]
  /\ mine \in [Handlers -> Locals]
  /\ answer \in [Handlers -> Answers]
  /\ earlier \in [Handlers -> SUBSET Envelopes]

TxTypes ==
  /\ disk \in Tables /\ cache \in Tables
  /\ readers \subseteq Handlers
  /\ writer \in Handlers \union {NoHandler}
-----------------------------------------------------------------------------
USE HandlersAssumption, DeliveryAssumption

(***************************************************************************)
(* Tables                                                                  *)
(***************************************************************************)

\* Tables by their columns.
LEMMA TablesOf ==
  ASSUME NEW t \in Tables
  PROVE  /\ t = [members |-> t.members, envelopes |-> t.envelopes,
                 acks |-> t.acks, bindings |-> t.bindings]
         /\ t.members \in [Spaces \X Devices -> Standings]
         /\ t.envelopes \in [Envelopes -> EnvelopeRow \union {NoRow}]
         /\ t.acks \in [Envelopes -> Seq(1..MaxTime)]
         /\ t.bindings \in [Envelopes -> Binding \union {NoRow}]
  BY DEF Tables

\* Four columns of the right types are tables.
LEMMA TablesFrom ==
  ASSUME NEW m \in [Spaces \X Devices -> Standings],
         NEW v \in [Envelopes -> EnvelopeRow \union {NoRow}],
         NEW a \in [Envelopes -> Seq(1..MaxTime)],
         NEW b \in [Envelopes -> Binding \union {NoRow}]
  PROVE  [members |-> m, envelopes |-> v, acks |-> a, bindings |-> b] \in Tables
  BY DEF Tables

\* A row of envelopes by its columns.
LEMMA RowOf ==
  ASSUME NEW row \in EnvelopeRow
  PROVE  /\ row = [space |-> row.space, from |-> row.from, to |-> row.to,
                   state |-> row.state, via |-> row.via]
         /\ row.space \in Spaces \union {NoSpace} /\ row.from \in Devices /\ row.to \in Devices
         /\ row.state \in {"queued", "acknowledged"} /\ row.via \in {"submit", "publish"}
         /\ row # NoRow
  <1>1. row # NoRow
    OBVIOUS
  <1>2. /\ row = [space |-> row.space, from |-> row.from, to |-> row.to,
                   state |-> row.state, via |-> row.via]
        /\ row.space \in Spaces \union {NoSpace} /\ row.from \in Devices /\ row.to \in Devices
        /\ row.state \in {"queued", "acknowledged"} /\ row.via \in {"submit", "publish"}
    BY DEF EnvelopeRow
  <1>. QED BY <1>1, <1>2

\* The row of an envelope that is stored.
LEMMA StoredRow ==
  ASSUME NEW t \in Tables, NEW e \in Stored(t)
  PROVE  e \in Envelopes /\ t.envelopes[e] \in EnvelopeRow /\ t.envelopes[e] # NoRow
  BY TablesOf DEF Stored

\* An acknowledged envelope differs in its state alone.
LEMMA ClosedRow ==
  ASSUME NEW t \in Tables, NEW e \in Stored(t)
  PROVE  /\ Closed(t, e) \in [Envelopes -> EnvelopeRow \union {NoRow}]
         /\ \A f \in Envelopes \ {e} : Closed(t, e)[f] = t.envelopes[f]
         /\ SameEnvelope(t.envelopes[e], Closed(t, e)[e])
         /\ Closed(t, e)[e].state = "acknowledged"
         /\ t.envelopes[e].state = "acknowledged" => Closed(t, e) = t.envelopes
  <1> DEFINE row == t.envelopes[e]
             new == [space |-> row.space, from |-> row.from, to |-> row.to,
                     state |-> "acknowledged", via |-> row.via]
  <1>1. e \in Envelopes /\ row \in EnvelopeRow /\ row # NoRow
    BY StoredRow
  <1>2. /\ row = [space |-> row.space, from |-> row.from, to |-> row.to,
                  state |-> row.state, via |-> row.via]
        /\ row.space \in Spaces \union {NoSpace} /\ row.from \in Devices /\ row.to \in Devices
        /\ row.via \in {"submit", "publish"}
    BY <1>1, RowOf
  <1>3. new \in EnvelopeRow
    BY <1>2 DEF EnvelopeRow
  <1>4. [row EXCEPT !.state = "acknowledged"] = new
    BY <1>2
  <1>5. Closed(t, e) = [t.envelopes EXCEPT ![e] = new]
    BY <1>4 DEF Closed
  <1>6. t.envelopes \in [Envelopes -> EnvelopeRow \union {NoRow}]
    BY TablesOf
  <1>7. row.state = "acknowledged" => new = row
    BY <1>2
  <1>8. new # NoRow /\ SameEnvelope(row, new) /\ new.state = "acknowledged"
    BY <1>3 DEF SameEnvelope
  <1> HIDE DEF new
  <1>9. Closed(t, e)[e] = new
    BY <1>1, <1>5, <1>6
  <1>10. /\ Closed(t, e) \in [Envelopes -> EnvelopeRow \union {NoRow}]
         /\ \A f \in Envelopes \ {e} : Closed(t, e)[f] = t.envelopes[f]
    BY <1>1, <1>3, <1>5, <1>6
  <1>11. row.state = "acknowledged" => Closed(t, e) = t.envelopes
    BY <1>1, <1>5, <1>6, <1>7
  <1>. QED BY <1>8, <1>9, <1>10, <1>11

\* One more acknowledgement.
LEMMA Appended ==
  ASSUME NEW times \in Seq(1..MaxTime), NEW at \in 1..MaxTime
  PROVE  /\ Append(times, at) \in Seq(1..MaxTime) /\ Append(times, at) # <<>>
         /\ Continues(times, Append(times, at))
         /\ \E n \in DOMAIN Append(times, at) : Append(times, at)[n] = at
  <1>1. /\ Len(times) \in Nat /\ DOMAIN times = 1..Len(times)
        /\ Append(times, at) \in Seq(1..MaxTime)
        /\ Len(Append(times, at)) = Len(times) + 1
        /\ Append(times, at)[Len(times) + 1] = at
        /\ \A n \in 1..Len(times) : Append(times, at)[n] = times[n]
    OBVIOUS
  <1>2. DOMAIN Append(times, at) = 1..(Len(times) + 1)
    BY <1>1
  <1>3. Len(times) + 1 \in 1..(Len(times) + 1)
    BY <1>1
  <1>4. Append(times, at) # <<>>
    BY <1>1
  <1>5. Continues(times, Append(times, at))
    BY <1>1, <1>2 DEF Continues
  <1>. QED BY <1>1, <1>2, <1>3, <1>4, <1>5

\* The first acknowledgement is one of those on record, if there are any.
LEMMA EarliestOf ==
  ASSUME NEW times \in Seq(1..MaxTime)
  PROVE  /\ Earliest(times) \in 0..MaxTime
         /\ times = <<>> => Earliest(times) = 0
         /\ times # <<>> => Earliest(times) \in 1..MaxTime
         /\ Earliest(times) # 0 => \E n \in DOMAIN times : times[n] = Earliest(times)
  <1> DEFINE S == {times[n] : n \in DOMAIN times}
             R == OpToRel(<, Nat)
  <1>1. CASE times = <<>>
    BY <1>1 DEF Earliest
  <1>2. CASE times # <<>>
    <2>1. DOMAIN times = 1..Len(times) /\ Len(times) \in Nat /\ Len(times) # 0
      BY <1>2
    <2>2. 1 \in DOMAIN times
      BY <2>1
    <2>3. \A n \in DOMAIN times : times[n] \in 1..MaxTime
      BY <2>1
    <2>4. S \subseteq 1..MaxTime /\ S # {}
      BY <2>2, <2>3
    <2>5. IsWellFoundedOn(R, Nat)
      BY NatLessThanWellFounded
    <2>6. \A x, y \in Nat : <<x, y>> \in R <=> x < y
      BY DEF OpToRel
    <2>7. \A n \in DOMAIN times : times[n] \in S
      OBVIOUS
    <2>8. \A x \in S : \E n \in DOMAIN times : times[n] = x
      OBVIOUS
    <2>9. Earliest(times) = CHOOSE t \in S : \A n \in DOMAIN times : t <= times[n]
      BY <1>2 DEF Earliest
    <2> HIDE DEF R, S
    <2>10. S \subseteq Nat
      BY <2>4
    <2>11. PICK x \in S : \A y \in S : ~ (<<y, x>> \in R)
      BY <2>4, <2>5, <2>10, WFMin, Zenon
    <2>12. ASSUME NEW n \in DOMAIN times PROVE x <= times[n]
      <3>1. x \in Nat /\ times[n] \in Nat /\ times[n] \in S
        BY <2>7, <2>10
      <3>2. ~ (times[n] < x)
        BY <2>6, <2>11, <3>1
      <3>. QED BY <3>1, <3>2
    <2>13. Earliest(times) \in S
      BY <2>9, <2>12
    <2>14. Earliest(times) \in 1..MaxTime
      BY <2>4, <2>13
    <2>15. \E n \in DOMAIN times : times[n] = Earliest(times)
      BY <2>8, <2>13
    <2>16. \A n \in 1..MaxTime : n \in 0..MaxTime
      OBVIOUS
    <2>. QED BY <1>2, <2>14, <2>15, <2>16
  <1>. QED BY <1>1, <1>2

\* What is stored stays stored in tables that grew.
LEMMA GrownKeeps ==
  ASSUME NEW t \in Tables, NEW u \in Tables, Grows(t, u)
  PROVE  /\ Stored(t) \subseteq Stored(u)
         /\ \A e \in Stored(t) : SameEnvelope(t.envelopes[e], u.envelopes[e])
  BY DEF Grows, Stored, SameEnvelope

\* Tables that grew by nothing.
LEMMA GrowsNothing ==
  ASSUME NEW t \in Tables
  PROVE  Grows(t, t)
  <1>1. \A e \in Envelopes : t.envelopes[e] # NoRow => SameEnvelope(t.envelopes[e], t.envelopes[e])
    BY DEF SameEnvelope
  <1>. QED BY <1>1 DEF Grows, Continues

\* The row of a new envelope.
LEMMA NewRow ==
  ASSUME NEW j \in SubmitJobs \union PublishJobs, Named(j)
  PROVE  /\ NewEnvelope(j) \in EnvelopeRow /\ NewEnvelope(j) # NoRow
         /\ NewEnvelope(j).space = j.space /\ NewEnvelope(j).from = j.from
         /\ NewEnvelope(j).to = j.to /\ NewEnvelope(j).state = "queued"
         /\ NewEnvelope(j).via = j.op
         /\ j \in SubmitJobs => j.op = "submit"
         /\ j \in PublishJobs => j.op = "publish"
  <1>1. /\ j \in SubmitJobs => j.op = "submit"
        /\ j \in PublishJobs => j.op = "publish"
    BY DEF SubmitJobs, PublishJobs
  <1>2. NewEnvelope(j) \in EnvelopeRow
    BY <1>1 DEF NewEnvelope, EnvelopeRow, Named
  <1>. QED BY <1>1, <1>2 DEF NewEnvelope

\* A new envelope, with its publication or without one: all that was there
\* stays, and the envelope is what was asked for.
LEMMA PostedGrows ==
  ASSUME NEW t \in Tables, NEW u \in Tables, NEW e \in Envelopes,
         NEW j \in SubmitJobs \union PublishJobs, Named(j), Sound(t), Posted(t, u, e, j),
         OthersBound(t, u, e)
  PROVE  /\ Grows(t, u) /\ Acked(u)
         /\ t.bindings[e] = NoRow
         /\ Stored(u) = Stored(t) \union {e}
         /\ \A f \in Envelopes \ {e} : u.envelopes[f] = t.envelopes[f]
         /\ u.envelopes[e] = NewEnvelope(j)
  <1>1. /\ \A f \in Envelopes \ {e} : u.envelopes[f] = t.envelopes[f]
        /\ u.envelopes[e] = NewEnvelope(j) /\ t.envelopes[e] = NoRow
        /\ u.members = t.members /\ u.acks = t.acks
    BY TablesOf DEF Posted
  <1>2. e \notin Stored(t) /\ t.bindings[e] = NoRow
    BY <1>1 DEF Sound, Paired, Stored
  <1>3. u.envelopes[e] # NoRow /\ u.envelopes[e].state = "queued"
    BY <1>1, NewRow
  <1>4. Stored(u) = Stored(t) \union {e}
    BY <1>1, <1>3 DEF Stored
  <1>5. Grows(t, u)
    <2>1. \A f \in Envelopes : t.envelopes[f] # NoRow => SameEnvelope(t.envelopes[f], u.envelopes[f])
      BY <1>1 DEF SameEnvelope
    <2>2. \A f \in Envelopes : t.bindings[f] # NoRow => u.bindings[f] = t.bindings[f]
      BY <1>2 DEF OthersBound
    <2>3. \A f \in Envelopes : Continues(t.acks[f], u.acks[f])
      BY <1>1 DEF Continues
    <2>. QED BY <1>1, <2>1, <2>2, <2>3 DEF Grows, Enlisted
  <1>6. Acked(u)
    <2>1. \A f \in Envelopes \ {e} :
            u.acks[f] # <<>> <=> f \in Stored(u) /\ u.envelopes[f].state = "acknowledged"
      BY <1>1, <1>4 DEF Sound, Acked
    <2>2. u.acks[e] = <<>>
      BY <1>1, <1>2 DEF Sound, Acked
    <2>3. u.envelopes[e].state # "acknowledged"
      BY <1>3
    <2>. QED BY <2>1, <2>2, <2>3 DEF Acked
  <1>. QED BY <1>1, <1>2, <1>4, <1>5, <1>6

\* Its devices have been members of its space.
LEMMA PostedInternal ==
  ASSUME NEW t \in Tables, NEW u \in Tables, NEW e \in Envelopes,
         NEW j \in SubmitJobs \union PublishJobs, Named(j), Sound(t), Posted(t, u, e, j),
         OthersBound(t, u, e),
         j.space # NoSpace => Enlisted(t, j.space, j.from) /\ Enlisted(t, j.space, j.to)
  PROVE  Internal(u)
  <1>1. /\ Stored(u) = Stored(t) \union {e}
        /\ \A f \in Envelopes \ {e} : u.envelopes[f] = t.envelopes[f]
        /\ u.envelopes[e] = NewEnvelope(j)
    BY PostedGrows
  <1>2. u.members = t.members
    BY DEF Posted
  <1>3. ASSUME NEW f \in Stored(u), u.envelopes[f].space # NoSpace
        PROVE  /\ Enlisted(u, u.envelopes[f].space, u.envelopes[f].from)
               /\ Enlisted(u, u.envelopes[f].space, u.envelopes[f].to)
    <2>1. CASE f = e
      BY <1>1, <1>2, <1>3, <2>1, NewRow DEF Enlisted
    <2>2. CASE f # e
      <3>1. f \in Stored(t) /\ u.envelopes[f] = t.envelopes[f]
        BY <1>1, <2>2, StoredRow
      <3>. QED BY <1>2, <1>3, <3>1 DEF Sound, Internal, Enlisted
    <2>. QED BY <2>1, <2>2
  <1>. QED BY <1>3 DEF Internal

\* A submit.
LEMMA Submitted ==
  ASSUME NEW t \in Tables, NEW u \in Tables, NEW e \in Envelopes,
         NEW j \in SubmitJobs, Named(j), Sound(t), Posted(t, u, e, j), u.bindings = t.bindings,
         j.space # NoSpace => Enlisted(t, j.space, j.from) /\ Enlisted(t, j.space, j.to)
  PROVE  Grows(t, u) /\ Sound(u)
  <1>0. OthersBound(t, u, e)
    BY DEF OthersBound
  <1>1. /\ Grows(t, u) /\ Acked(u) /\ t.bindings[e] = NoRow
        /\ Stored(u) = Stored(t) \union {e}
        /\ \A f \in Envelopes \ {e} : u.envelopes[f] = t.envelopes[f]
        /\ u.envelopes[e] = NewEnvelope(j)
    BY <1>0, PostedGrows
  <1>2. Internal(u)
    BY <1>0, PostedInternal
  <1>3. u.envelopes[e].via = "submit"
    BY <1>1, NewRow
  <1>4. Paired(u)
    <2>1. \A f \in Stored(u) : u.envelopes[f].via = "publish" <=> u.bindings[f] # NoRow
      BY <1>1, <1>3, StoredRow DEF Sound, Paired
    <2>2. \A f \in Envelopes : u.bindings[f] # NoRow => f \in Stored(u)
      BY <1>1 DEF Sound, Paired
    <2>. QED BY <2>1, <2>2 DEF Paired
  <1>5. Once(u)
    BY <1>1 DEF Sound, Once
  <1>. QED BY <1>1, <1>2, <1>4, <1>5 DEF Sound

\* A publication: nothing that its sender published before is in its way.
LEMMA PublishedNew ==
  ASSUME NEW t \in Tables, Sound(t), NEW j, ~Published(t, j),
         NEW f \in Envelopes, t.bindings[f] # NoRow, t.envelopes[f].from = j.from
  PROVE  t.bindings[f].ref # j.ref /\ t.bindings[f].payload # j.payload
  <1>1. f \in Stored(t)
    BY DEF Sound, Paired
  <1>2. f \notin ByRef(t, j.from, j.ref) /\ f \notin ByPayload(t, j.from, j.payload)
    BY DEF Published
  <1>. QED BY <1>1, <1>2 DEF ByRef, ByPayload

\* A publication with its envelope keeps the tables sound.
LEMMA Announced ==
  ASSUME NEW t \in Tables, NEW u \in Tables, NEW e \in Envelopes,
         NEW j \in PublishJobs, Named(j), Sound(t), Posted(t, u, e, j), ~Published(t, j),
         Bound(t, u, e, j),
         Enlisted(t, j.space, j.from), Enlisted(t, j.space, j.to)
  PROVE  /\ Grows(t, u) /\ Sound(u)
         /\ [ref |-> j.ref, payload |-> j.payload] \in Binding
         /\ u.bindings[e] = [ref |-> j.ref, payload |-> j.payload] /\ u.bindings[e] # NoRow
  <1> DEFINE b == [ref |-> j.ref, payload |-> j.payload]
  <1>0. b \in Binding /\ b # NoRow /\ b.ref = j.ref /\ b.payload = j.payload
    BY DEF PublishJobs, Binding
  <1>1. /\ OthersBound(t, u, e)
        /\ u.bindings[e] = b /\ \A f \in Envelopes \ {e} : u.bindings[f] = t.bindings[f]
    BY TablesOf DEF Bound, OthersBound
  <1> HIDE DEF b
  <1>2. /\ Grows(t, u) /\ Acked(u) /\ t.bindings[e] = NoRow
        /\ Stored(u) = Stored(t) \union {e}
        /\ \A f \in Envelopes \ {e} : u.envelopes[f] = t.envelopes[f]
        /\ u.envelopes[e] = NewEnvelope(j)
    BY <1>1, PostedGrows
  <1>3. Internal(u)
    BY <1>1, PostedInternal
  <1>4. u.envelopes[e].via = "publish" /\ u.envelopes[e].from = j.from
    BY <1>2, NewRow
  <1>5. Paired(u)
    <2>1. \A f \in Stored(u) : u.envelopes[f].via = "publish" <=> u.bindings[f] # NoRow
      BY <1>0, <1>1, <1>2, <1>4, StoredRow DEF Sound, Paired
    <2>2. \A f \in Envelopes : u.bindings[f] # NoRow => f \in Stored(u)
      BY <1>1, <1>2 DEF Sound, Paired
    <2>. QED BY <2>1, <2>2 DEF Paired
  <1>6. ASSUME NEW f \in Envelopes \ {e}, u.bindings[f] # NoRow, u.envelopes[f].from = j.from
        PROVE  u.bindings[f].ref # j.ref /\ u.bindings[f].payload # j.payload
    BY <1>1, <1>2, <1>6, PublishedNew
  <1>7. ASSUME NEW f \in Envelopes, NEW g \in Envelopes,
               u.bindings[f] # NoRow, u.bindings[g] # NoRow,
               u.envelopes[f].from = u.envelopes[g].from,
               \/ u.bindings[f].ref = u.bindings[g].ref
               \/ u.bindings[f].payload = u.bindings[g].payload
        PROVE  f = g
    <2>1. CASE f = e \/ g = e
      BY <1>0, <1>1, <1>4, <1>6, <1>7, <2>1
    <2>2. CASE f # e /\ g # e
      BY <1>1, <1>2, <1>7, <2>2 DEF Sound, Once
    <2>. QED BY <2>1, <2>2
  <1>8. Once(u)
    BY <1>7 DEF Once
  <1>. QED BY <1>0, <1>1, <1>2, <1>3, <1>5, <1>8 DEF Sound, b

\* An acknowledgement.
LEMMA Acknowledging ==
  ASSUME NEW t \in Tables, NEW u \in Tables, NEW e \in Stored(t), NEW at \in 1..MaxTime,
         Sound(t), Receipted(t, u, e, at), u.envelopes = Closed(t, e)
  PROVE  /\ Grows(t, u) /\ Sound(u)
         /\ \E n \in DOMAIN u.acks[e] : u.acks[e][n] = at
  <1>1. /\ u.members = t.members /\ u.bindings = t.bindings /\ e \in Envelopes
        /\ \A f \in Envelopes \ {e} : u.acks[f] = t.acks[f]
        /\ u.acks[e] = Append(t.acks[e], at) /\ t.acks[e] \in Seq(1..MaxTime)
    BY TablesOf, StoredRow DEF Receipted
  <1>2. /\ \A f \in Envelopes \ {e} : u.envelopes[f] = t.envelopes[f]
        /\ SameEnvelope(t.envelopes[e], u.envelopes[e])
        /\ u.envelopes[e].state = "acknowledged"
    BY ClosedRow
  <1>3. Stored(u) = Stored(t)
    BY <1>1, <1>2, StoredRow DEF Stored, SameEnvelope
  <1>4. /\ u.acks[e] # <<>> /\ Continues(t.acks[e], u.acks[e])
        /\ \E n \in DOMAIN u.acks[e] : u.acks[e][n] = at
    <2> DEFINE old == t.acks[e]
               new == Append(old, at)
    <2>1. old \in Seq(1..MaxTime) /\ u.acks[e] = new
      BY <1>1
    <2>2. new # <<>> /\ Continues(old, new) /\ \E n \in DOMAIN new : new[n] = at
      <3> HIDE DEF old
      <3>. QED BY <2>1, Appended
    <2> HIDE DEF new
    <2>. QED BY <2>1, <2>2
  <1>5. \A f \in Stored(t) : SameEnvelope(t.envelopes[f], u.envelopes[f])
    <2>1. \A f \in Stored(t) : f # e => u.envelopes[f] = t.envelopes[f] /\ u.envelopes[f] # NoRow
      BY <1>2, StoredRow
    <2>. QED BY <1>2, <2>1 DEF SameEnvelope
  <1>6. Grows(t, u)
    <2>1. \A f \in Envelopes : Continues(t.acks[f], u.acks[f])
      BY <1>1, <1>4 DEF Continues
    <2>. QED BY <1>1, <1>5, <2>1 DEF Grows, Stored, Enlisted
  <1>7. Acked(u)
    BY <1>1, <1>2, <1>3, <1>4 DEF Sound, Acked
  <1>8. Paired(u)
    BY <1>1, <1>3, <1>5 DEF Sound, Paired, SameEnvelope
  <1>9. \A f \in Stored(t) :
          /\ u.envelopes[f].from = t.envelopes[f].from
          /\ u.envelopes[f].to = t.envelopes[f].to
          /\ u.envelopes[f].space = t.envelopes[f].space
    BY <1>5 DEF SameEnvelope
  <1>10. Once(u)
    BY <1>1, <1>9 DEF Sound, Paired, Once
  <1>11. Internal(u)
    BY <1>1, <1>3, <1>9 DEF Sound, Internal, Enlisted
  <1>. QED BY <1>4, <1>6, <1>7, <1>8, <1>10, <1>11 DEF Sound

\* An envelope with an acknowledgement on record is acknowledged already.
LEMMA AckedAlready ==
  ASSUME NEW t \in Tables, NEW e \in Stored(t), Sound(t), t.acks[e] # <<>>
  PROVE  [t EXCEPT !.envelopes[e].state = "acknowledged"] = t
  <1>1. e \in Envelopes /\ t.envelopes[e].state = "acknowledged"
    BY StoredRow DEF Sound, Acked
  <1>2. Closed(t, e) = t.envelopes
    BY <1>1, ClosedRow
  <1>3. [t EXCEPT !.envelopes[e].state = "acknowledged"] =
          [members |-> t.members, envelopes |-> Closed(t, e), acks |-> t.acks, bindings |-> t.bindings]
    <2>1. [t EXCEPT !.envelopes[e].state = "acknowledged"] = [t EXCEPT !.envelopes = Closed(t, e)]
      BY DEF Closed
    <2>2. \A x : [t EXCEPT !.envelopes = x] =
            [members |-> t.members, envelopes |-> x, acks |-> t.acks, bindings |-> t.bindings]
      BY DEF Tables
    <2>. QED BY <2>1, <2>2
  <1>. QED BY <1>2, <1>3, TablesOf

\* A change of one device's standing.
LEMMA StandingChanged ==
  ASSUME NEW t \in Tables, Sound(t), NEW sd \in Spaces \X Devices,
         NEW standing \in Standings \ {"none"}
  PROVE  LET u == [t EXCEPT !.members[sd] = standing] IN
         /\ u \in Tables /\ Grows(t, u) /\ Sound(u)
         /\ u.envelopes = t.envelopes /\ u.acks = t.acks /\ u.bindings = t.bindings
  <1> DEFINE m == [t.members EXCEPT ![sd] = standing]
             u == [members |-> m, envelopes |-> t.envelopes, acks |-> t.acks, bindings |-> t.bindings]
  <1>1. /\ m \in [Spaces \X Devices -> Standings]
        /\ \A k \in Spaces \X Devices : m[k] = t.members[k] \/ m[k] # "none"
    BY TablesOf
  <1>2. [t EXCEPT !.members[sd] = standing] = u
    <2>1. [t EXCEPT !.members[sd] = standing] = [t EXCEPT !.members = m]
      OBVIOUS
    <2>2. \A x : [t EXCEPT !.members = x] =
            [members |-> x, envelopes |-> t.envelopes, acks |-> t.acks, bindings |-> t.bindings]
      BY TablesOf
    <2>. QED BY <2>1, <2>2
  <1>3. u \in Tables
    BY <1>1, TablesOf, TablesFrom
  <1>4. /\ u.members = m /\ u.envelopes = t.envelopes
        /\ u.acks = t.acks /\ u.bindings = t.bindings
    OBVIOUS
  <1> HIDE DEF m, u
  <1>5. \A s \in Spaces, d \in Devices : Enlisted(t, s, d) => Enlisted(u, s, d)
    BY <1>1, <1>4 DEF Enlisted
  <1>6. Stored(u) = Stored(t)
    BY <1>4 DEF Stored
  <1>7. Grows(t, u)
    BY <1>4, <1>5, GrowsNothing DEF Grows
  <1>8. Acked(u) /\ Paired(u) /\ Once(u)
    BY <1>4, <1>6 DEF Sound, Acked, Paired, Once
  <1>9. Internal(u)
    <2>1. ASSUME NEW e \in Stored(t), t.envelopes[e].space # NoSpace
          PROVE  /\ t.envelopes[e].space \in Spaces
                 /\ t.envelopes[e].from \in Devices /\ t.envelopes[e].to \in Devices
      BY <2>1, StoredRow, RowOf
    <2>. QED BY <1>4, <1>5, <1>6, <2>1 DEF Sound, Internal
  <1>. QED BY <1>2, <1>3, <1>4, <1>7, <1>8, <1>9 DEF Sound
-----------------------------------------------------------------------------
(***************************************************************************)
(* The forms of a step                                                     *)
(***************************************************************************)

\* h keeps data and goes to label.
Note(h, data, label) ==
  /\ mine' = [mine EXCEPT ![h] = data]
  /\ Goto(h, label)
  /\ UNCHANGED <<clock, job, attempt, answer, earlier>>

\* The answers that say nothing of the tables.
Refusals == Answers \ {"queued", "acknowledged", "published", "already_published", "listed"}

\* A handler that goes on.
LEMMA Proceeding ==
  ASSUME TypeOK, NEW h \in Handlers, NEW label \in Labels, Proceed(h, label)
  PROVE  /\ OwnTypes' /\ OnlyOf(h) /\ pc'[h] = label
         /\ job'[h] = job[h] /\ attempt'[h] = attempt[h] /\ mine'[h] = mine[h]
         /\ answer'[h] = answer[h] /\ earlier'[h] = earlier[h]
  BY DEF TypeOK, Proceed, Goto, OwnTypes, OnlyOf, Own

\* A handler that answers.
LEMMA Answering ==
  ASSUME TypeOK, NEW h \in Handlers, NEW a \in Answers, NEW data \in Locals,
         ReplyWith(h, a, data)
  PROVE  /\ OwnTypes' /\ OnlyOf(h) /\ pc'[h] = "answered"
         /\ job'[h] = job[h] /\ mine'[h] = data
         /\ answer'[h] = a /\ earlier'[h] = earlier[h]
  <1>1. "answered" \in Labels
    BY DEF Labels
  <1>. QED BY <1>1 DEF TypeOK, ReplyWith, Goto, OwnTypes, OnlyOf, Own

\* A handler that notes something.
LEMMA Noting ==
  ASSUME TypeOK, NEW h \in Handlers, NEW label \in Labels, NEW data \in Locals,
         Note(h, data, label)
  PROVE  /\ OwnTypes' /\ OnlyOf(h) /\ pc'[h] = label /\ mine'[h] = data
         /\ job'[h] = job[h] /\ attempt'[h] = attempt[h]
         /\ answer'[h] = answer[h] /\ earlier'[h] = earlier[h]
  BY DEF TypeOK, Note, Goto, OwnTypes, OnlyOf, Own

\* Nothing noted.
LEMMA BlankLocal == Blank \in Locals
  BY DEF Blank, Locals

\* A publication that goes around again, or gives up.
LEMMA Retrying ==
  ASSUME TypeOK, NEW h \in Handlers, Retry(h), attempt[h] < MaxAttempts
  PROVE  /\ OwnTypes' /\ OnlyOf(h)
         /\ job'[h] = job[h] /\ earlier'[h] = earlier[h]
         /\ \/ pc'[h] = "publish" /\ attempt'[h] < MaxAttempts
            \/ pc'[h] = "answered" /\ answer'[h] = "contended"
  <1>1. {"answered", "publish"} \subseteq Labels /\ "contended" \in Answers
    BY DEF Labels, Answers
  <1>2. attempt[h] + 1 \in 0..MaxAttempts
    BY DEF TypeOK
  <1>3. attempt' = [attempt EXCEPT ![h] = attempt[h] + 1]
    BY DEF Retry
  <1>4. clock' \in 1..MaxTime
    BY DEF Retry, TypeOK
  <1>5. /\ job' = job /\ earlier' = earlier
        /\ mine' = [mine EXCEPT ![h] = Blank]
        /\ \/ /\ attempt[h] + 1 < MaxAttempts
              /\ pc' = [pc EXCEPT ![h] = "publish"] /\ answer' = answer
           \/ /\ pc' = [pc EXCEPT ![h] = "answered"]
              /\ answer' = [answer EXCEPT ![h] = "contended"]
    BY DEF Retry, Goto
  <1>6. OwnTypes'
    BY <1>1, <1>2, <1>3, <1>4, <1>5, BlankLocal DEF TypeOK, OwnTypes
  <1>7. OnlyOf(h)
    BY <1>3, <1>5 DEF TypeOK, OnlyOf, Own
  <1>8. \/ pc'[h] = "publish" /\ attempt'[h] < MaxAttempts
        \/ pc'[h] = "answered" /\ answer'[h] = "contended"
    BY <1>3, <1>5 DEF TypeOK
  <1>. QED BY <1>5, <1>6, <1>7, <1>8

\* Handlers that end.
LEMMA Forgetting ==
  ASSUME TypeOK, NEW hs \in SUBSET Handlers, Forget(hs)
  PROVE  /\ OwnTypes'
         /\ \A q \in hs : pc'[q] = "idle" /\ attempt'[q] = 0 /\ earlier'[q] = {}
         /\ \A q \in Handlers \ hs : Own(q)' = Own(q)
  <1>1. "idle" \in Labels /\ "none" \in Answers
    BY DEF Labels, Answers
  <1>2. /\ pc' \in [Handlers -> Labels]
        /\ job' \in [Handlers -> Jobs \union {NoRow}]
        /\ attempt' \in [Handlers -> 0..MaxAttempts]
        /\ mine' \in [Handlers -> Locals]
        /\ answer' \in [Handlers -> Answers]
        /\ earlier' \in [Handlers -> SUBSET Envelopes]
        /\ clock' \in 1..MaxTime
    BY <1>1, BlankLocal DEF TypeOK, Forget
  <1>3. \A q \in hs : pc'[q] = "idle" /\ attempt'[q] = 0 /\ earlier'[q] = {}
    BY DEF Forget
  <1>4. \A q \in Handlers \ hs :
          /\ pc'[q] = pc[q] /\ job'[q] = job[q] /\ attempt'[q] = attempt[q]
          /\ mine'[q] = mine[q] /\ answer'[q] = answer[q] /\ earlier'[q] = earlier[q]
    BY DEF Forget
  <1>. QED BY <1>2, <1>3, <1>4 DEF OwnTypes, Own

\* A handler that is idle knows nothing.
LEMMA IdleKnows ==
  ASSUME NEW h \in Handlers, pc'[h] = "idle", attempt'[h] = 0, earlier'[h] = {}
  PROVE  Knows(h)'
  BY DEF Knows, SubmitStage, AckStage, PublishStage, InPublish, Told

\* An answer that is a refusal says nothing.
LEMMA RefusedKnows ==
  ASSUME NEW h \in Handlers, pc'[h] = "answered", answer'[h] \in Refusals,
         earlier'[h] \subseteq Stored(disk')
  PROVE  Knows(h)'
  <1>1. answer'[h] \notin {"queued", "acknowledged", "published", "already_published", "listed"}
    BY DEF Refusals
  <1>. QED BY <1>1 DEF Knows, SubmitStage, AckStage, PublishStage, InPublish, Told

\* What an answer says stays true of tables that grow.
LEMMA AsAskedKept ==
  ASSUME disk \in Tables, disk' \in Tables, Grows(disk, disk'), NEW q \in Handlers, AsAsked(q),
         job'[q] = job[q], mine'[q] = mine[q]
  PROVE  AsAsked(q)'
  BY GrownKeeps DEF AsAsked, SameEnvelope

\* So does a list of what waits: it waits ever less.
LEMMA CompleteKept ==
  ASSUME disk \in Tables, disk' \in Tables, Grows(disk, disk'), NEW q \in Handlers, Complete(q),
         earlier[q] \subseteq Stored(disk),
         job'[q] = job[q], mine'[q] = mine[q], earlier'[q] = earlier[q]
  PROVE  Complete(q)'
  <1> DEFINE j == job[q]
  <1>1. \A e \in Stored(disk) :
          /\ disk.envelopes[e] \in EnvelopeRow /\ disk'.envelopes[e] \in EnvelopeRow
          /\ SameEnvelope(disk.envelopes[e], disk'.envelopes[e])
          /\ e \in Stored(disk')
    BY GrownKeeps, StoredRow
  <1>2. ASSUME NEW e \in earlier[q] \intersect QueuedFor(disk', j.space, j.device)
        PROVE  e \in QueuedFor(disk, j.space, j.device)
    <2>1. e \in Stored(disk) /\ disk'.envelopes[e].state = "queued"
      BY DEF QueuedFor
    <2>2. disk.envelopes[e].state \in {"queued", "acknowledged"}
      BY <1>1, <2>1, RowOf
    <2>3. disk.envelopes[e].state = "queued"
      BY <1>1, <2>1, <2>2 DEF SameEnvelope
    <2>. QED BY <1>1, <2>1, <2>3 DEF QueuedFor, SameEnvelope
  <1>3. earlier[q] \intersect QueuedFor(disk', j.space, j.device) \subseteq mine[q].list
    BY <1>2 DEF Complete
  <1>4. ASSUME NEW e \in mine[q].list
        PROVE  e \in Stored(disk') /\ disk'.envelopes[e].space = j.space
               /\ disk'.envelopes[e].to = j.device
    <2>1. e \in Stored(disk) /\ disk.envelopes[e].space = j.space /\ disk.envelopes[e].to = j.device
      BY DEF Complete
    <2>. QED BY <1>1, <2>1 DEF SameEnvelope
  <1>. QED BY <1>3, <1>4 DEF Complete

\* What a handler knows stays true while others add to the tables; they touch
\* neither what a writer writes nor, with read locks, what a reader has read.
LEMMA OtherKnows ==
  ASSUME TypeOK, disk' \in Tables, Grows(disk, disk'), NEW q \in Handlers, Knows(q),
         Untouched(q)
  PROVE  Knows(q)'
  <1>1. /\ pc'[q] = pc[q] /\ job'[q] = job[q] /\ attempt'[q] = attempt[q]
        /\ mine'[q] = mine[q] /\ answer'[q] = answer[q] /\ earlier'[q] = earlier[q]
    BY DEF Own, Untouched
  <1>2. disk \in Tables
    BY DEF TypeOK
  <1>3. /\ Stored(disk) \subseteq Stored(disk')
        /\ \A e \in Envelopes : Continues(disk.acks[e], disk'.acks[e])
        /\ \A s \in Spaces, d \in Devices : Enlisted(disk, s, d) => Enlisted(disk', s, d)
    BY <1>2, GrownKeeps DEF Grows
  <1>4. SubmitStage(q)'
    BY <1>1, <1>3 DEF Knows, SubmitStage, Named
  <1>5. AckStage(q)'
    <2>1. CASE pc[q] \in {"ack.update", "ack.commit"}
      <3>1. disk' = disk /\ cache' = cache
        BY <2>1 DEF Writing, Untouched
      <3>. QED BY <3>1, <1>1, <2>1 DEF Knows, AckStage
    <2>2. CASE pc[q] \notin {"ack.update", "ack.commit"}
      <3>1. ASSUME pc[q] \in {"ack.member", "ack.decide", "ack.insert"}, mine[q].first # 0
            PROVE  \E n \in DOMAIN disk'.acks[job[q].envelope] :
                     disk'.acks[job[q].envelope][n] = mine[q].first
        BY <1>3, <3>1 DEF Knows, AckStage, Continues, Stored
      <3>. QED BY <3>1, <1>1, <1>3, <2>2 DEF Knows, AckStage
    <2>. QED BY <2>1, <2>2
  <1>6. PublishStage(q)'
    <2>1. CASE ~ InPublish(q)
      BY <1>1, <2>1 DEF PublishStage, InPublish
    <2>2. CASE pc[q] = "publish"
      BY <1>1, <2>2 DEF Knows, PublishStage, InPublish
    <2>3. CASE InPublish(q) /\ pc[q] # "publish"
      <3>1. job[q].space \in Spaces /\ job[q].from \in Devices /\ job[q].to \in Devices
        BY <2>3 DEF Knows, PublishStage, Named
      <3>2. ReadLocks => disk' = disk
        BY <2>3 DEF InPublish, Reading, Writing, Untouched
      <3>3. /\ StillMember(job[q].from, job[q].space) => StillMember(job[q].from, job[q].space)'
            /\ StillMember(job[q].to, job[q].space) => StillMember(job[q].to, job[q].space)'
        BY <1>1, <1>3, <3>1, <3>2 DEF StillMember
      <3>4. pc[q] \in {"publish.binding", "publish.commit"} => disk' = disk /\ cache' = cache
        BY DEF Writing, Untouched
      <3>. QED BY <1>1, <2>3, <3>3, <3>4 DEF Knows, PublishStage, InPublish
    <2>. QED BY <2>1, <2>2, <2>3
  <1>7. Told(q)'
    <2> DEFINE j == job[q]
               e == mine[q].envelope
    <2>1. SUFFICES ASSUME pc[q] = "answered" PROVE Told(q)'
      BY <1>1 DEF Knows, Told
    <2>2. answer[q] \in {"queued", "published", "already_published"} => AsAsked(q)'
      BY <1>1, <1>2, <2>1, AsAskedKept DEF Knows, Told
    <2>3. answer[q] = "acknowledged" =>
            /\ j.envelope \in Stored(disk')
            /\ \E n \in DOMAIN disk'.acks[j.envelope] : disk'.acks[j.envelope][n] = mine[q].at
      BY <1>3, <2>1 DEF Knows, Told, Continues, Stored
    <2>4. answer[q] \in {"published", "already_published"} =>
            /\ disk'.bindings[e] # NoRow
            /\ disk'.bindings[e] = [ref |-> j.ref, payload |-> j.payload]
      BY <2>1 DEF Knows, Told, AsAsked, Stored, Grows
    <2>5. answer[q] = "listed" /\ j.space # NoSpace => Complete(q)'
      BY <1>1, <1>2, <2>1, CompleteKept DEF Knows, Told
    <2>. QED BY <1>1, <2>1, <2>2, <2>3, <2>4, <2>5 DEF Told
  <1>. QED BY <1>1, <1>3, <1>4, <1>5, <1>6, <1>7 DEF Knows
\* A step of the handlers in hs keeps the invariant if they know what they
\* should after it and if it respects what the others hold.
LEMMA StepKeeps ==
  ASSUME IInv, NEW hs \in SUBSET Handlers,
         OwnTypes', TxTypes', Locks', Sound(disk'), Grows(disk, disk'),
         \A q \in hs : Knows(q)',
         \A q \in Handlers \ hs : Untouched(q)
  PROVE  IInv'
  <1>1. TypeOK'
    BY DEF TypeOK, OwnTypes, TxTypes
  <1>2. disk' \in Tables
    BY DEF TxTypes
  <1>3. ASSUME NEW q \in Handlers PROVE Knows(q)'
    <2>1. CASE q \in hs
      BY <2>1
    <2>2. CASE q \notin hs
      BY <1>2, <2>2, OtherKnows DEF IInv
    <2>. QED BY <2>1, <2>2
  <1>. QED BY <1>1, <1>3 DEF IInv

\* The same of the step of one handler.
LEMMA OneKeeps ==
  ASSUME IInv, NEW h \in Handlers,
         OwnTypes', TxTypes', Locks', Sound(disk'), Grows(disk, disk'), Knows(h)',
         \A q \in Handlers \ {h} : Untouched(q)
  PROVE  IInv'
  <1> DEFINE hs == {h}
  <1>1. hs \in SUBSET Handlers /\ \A q \in hs : Knows(q)'
    OBVIOUS
  <1> HIDE DEF hs
  <1>2. \A q \in Handlers \ hs : Untouched(q)
    BY DEF hs
  <1>. QED BY <1>1, <1>2, StepKeeps

\* The step of h leaves pc alone elsewhere.
LEMMA OthersStay ==
  ASSUME NEW h \in Handlers, OnlyOf(h)
  PROVE  \A q \in Handlers \ {h} : pc'[q] = pc[q] /\ Own(q)' = Own(q)
  BY DEF OnlyOf, Own

\* h leaves the tables alone outside a transaction, or rolls its own back.
Quiet(h) == (UNCHANGED txVars /\ pc[h] \notin Reading) \/ TxRollback(h)

\* Which changes nothing that is committed.
LEMMA QuietStep ==
  ASSUME IInv, NEW h \in Handlers, OwnTypes', OnlyOf(h), Knows(h)',
         Quiet(h), pc'[h] \notin Reading
  PROVE  IInv'
  <1>1. disk' = disk /\ \A q \in Handlers \ {h} : writer = q => cache' = cache
    BY DEF Quiet, txVars, TxRollback
  <1>2. disk \in Tables /\ cache \in Tables
    BY DEF IInv, TypeOK
  <1>3. TxTypes'
    BY <1>1, <1>2 DEF Quiet, txVars, TxRollback, IInv, TypeOK, TxTypes
  <1>4. Locks'
    <2>1. CASE UNCHANGED txVars /\ pc[h] \notin Reading
      BY <2>1, OthersStay DEF txVars, IInv, Locks, Reading
    <2>2. CASE TxRollback(h)
      <3>1. \A q \in Handlers : q \in readers' <=> pc'[q] \in Reading
        BY <2>2, OthersStay DEF TxRollback, IInv, Locks
      <3>2. \A q \in Handlers : writer' = q <=> pc'[q] \in Writing
        BY <2>2, OthersStay DEF TxRollback, IInv, Locks, Reading
      <3>3. writer' = NoHandler => cache' = disk'
        BY <2>2 DEF TxRollback, IInv, Locks
      <3>. QED BY <3>1, <3>2, <3>3 DEF Locks
    <2>. QED BY <2>1, <2>2 DEF Quiet
  <1>5. Grows(disk, disk') /\ Sound(disk')
    BY <1>1, <1>2, GrowsNothing DEF IInv
  <1>6. \A q \in Handlers \ {h} : Untouched(q)
    BY <1>1, OthersStay DEF IInv, Locks, Untouched
  <1>. QED BY <1>3, <1>4, <1>5, <1>6, OneKeeps

\* A transaction reads.
LEMMA ReadStep ==
  ASSUME IInv, NEW h \in Handlers, OwnTypes', OnlyOf(h), Knows(h)', TxRead(h),
         pc[h] \notin Writing, pc'[h] \in Reading \ Writing
  PROVE  IInv'
  <1>1. disk' = disk /\ cache' = cache /\ writer' = writer /\ readers' = readers \union {h}
    BY DEF TxRead
  <1>2. TxTypes'
    BY <1>1 DEF IInv, TypeOK, TxTypes
  <1>3. Locks'
    BY <1>1, OthersStay DEF IInv, Locks
  <1>4. Grows(disk, disk') /\ Sound(disk')
    BY <1>1, GrowsNothing DEF IInv, TypeOK
  <1>5. \A q \in Handlers \ {h} : Untouched(q)
    BY <1>1, OthersStay DEF Untouched
  <1>. QED BY <1>1, <1>2, <1>3, <1>4, <1>5, OneKeeps

\* A transaction writes, which keeps the others from writing.
LEMMA WriteStep ==
  ASSUME IInv, NEW h \in Handlers, NEW content \in Tables, TxWrite(h, content),
         OwnTypes', OnlyOf(h), Knows(h)', pc'[h] \in Writing
  PROVE  IInv'
  <1>1. /\ disk' = disk /\ cache' = content /\ writer' = h /\ readers' = readers \union {h}
        /\ writer \in {h, NoHandler}
    BY DEF TxWrite, CanWrite
  <1>2. TxTypes'
    BY <1>1 DEF IInv, TypeOK, TxTypes
  <1>3. \A q \in Handlers \ {h} : pc[q] \notin Writing
    BY <1>1 DEF IInv, Locks
  <1>4. Locks'
    BY <1>1, <1>3, OthersStay DEF IInv, Locks, Reading
  <1>5. Grows(disk, disk') /\ Sound(disk')
    BY <1>1, GrowsNothing DEF IInv, TypeOK
  <1>6. \A q \in Handlers \ {h} : Untouched(q)
    BY <1>1, <1>3, OthersStay DEF Untouched
  <1>. QED BY <1>1, <1>2, <1>3, <1>4, <1>5, <1>6, OneKeeps

\* A transaction commits, over no reader if there are read locks.
LEMMA CommitStep ==
  ASSUME IInv, NEW h \in Handlers, TxCommit(h), Sound(cache), Grows(disk, cache),
         OwnTypes', OnlyOf(h), Knows(h)', pc'[h] \notin Reading
  PROVE  IInv'
  <1>1. /\ disk' = cache /\ cache' = cache /\ writer = h /\ writer' = NoHandler
        /\ readers' = readers \ {h} /\ (ReadLocks => readers \subseteq {h})
    BY DEF TxCommit, CanCommit
  <1>2. TxTypes'
    BY <1>1 DEF IInv, TypeOK, TxTypes
  <1>3. \A q \in Handlers \ {h} : pc[q] \notin Writing /\ (ReadLocks => pc[q] \notin Reading)
    BY <1>1 DEF IInv, Locks
  <1>4. Locks'
    BY <1>1, <1>3, OthersStay DEF IInv, Locks, Reading
  <1>5. \A q \in Handlers \ {h} : Untouched(q)
    BY <1>1, <1>3, OthersStay DEF Untouched
  <1>. QED BY <1>1, <1>2, <1>3, <1>4, <1>5, OneKeeps

\* A lone write, of a handler or of the requests that change the members.
LEMMA AutoStep ==
  ASSUME IInv, NEW h \in Handlers \union {NoHandler}, NEW hs \in SUBSET Handlers,
         h \in hs \/ h = NoHandler, hs \subseteq {h},
         NEW content \in Tables, AutoWrite(h, content), Sound(content), Grows(disk, content),
         OwnTypes', \A q \in Handlers \ hs : Own(q)' = Own(q),
         \A q \in hs : Knows(q)' /\ pc[q] \notin Reading /\ pc'[q] \notin Reading
  PROVE  IInv'
  <1>1. /\ disk' = content /\ cache' = content /\ readers' = readers /\ writer' = writer
        /\ writer = NoHandler /\ (ReadLocks => readers \subseteq {h})
    BY DEF AutoWrite, CanAutoWrite, CanCommit
  <1>2. TxTypes'
    BY <1>1 DEF IInv, TypeOK, TxTypes
  <1>3. \A q \in Handlers \ hs : pc[q] \notin Writing /\ (ReadLocks => pc[q] \notin Reading)
    BY <1>1 DEF IInv, Locks
  <1>4. \A q \in Handlers \ hs : pc'[q] = pc[q]
    BY DEF Own
  <1>5. Locks'
    <2>1. \A q \in Handlers : q \in readers' <=> pc'[q] \in Reading
      BY <1>1, <1>4 DEF IInv, Locks
    <2>2. \A q \in Handlers : writer' # q /\ pc'[q] \notin Writing
      BY <1>1, <1>3, <1>4 DEF Reading
    <2>. QED BY <1>1, <2>1, <2>2 DEF Locks
  <1>6. \A q \in Handlers \ hs : Untouched(q)
    BY <1>1, <1>3 DEF Untouched
  <1>. QED BY <1>1, <1>2, <1>3, <1>4, <1>5, <1>6, StepKeeps

\* Nobody else is touched by a handler that fails or is refused.
LEMMA FailStep ==
  ASSUME IInv, NEW h \in Handlers, NEW a \in Refusals,
         Refuse(h, a) \/ (Fail(h, a) /\ pc[h] \notin Reading)
  PROVE  IInv'
  <1>1. ReplyWith(h, a, Blank) /\ a \in Answers
    BY DEF Refuse, Fail, Reply, Refusals
  <1>2. /\ OwnTypes' /\ OnlyOf(h) /\ pc'[h] = "answered" /\ answer'[h] = a
        /\ earlier'[h] = earlier[h]
    BY <1>1, BlankLocal, Answering DEF IInv
  <1>3. disk' = disk
    BY DEF Refuse, Fail, txVars, TxRollback
  <1>4. Knows(h)'
    <2>1. earlier'[h] \subseteq Stored(disk')
      BY <1>2, <1>3 DEF IInv, Knows
    <2>. QED BY <1>2, <2>1, RefusedKnows
  <1>5. Quiet(h)
    BY DEF Refuse, Fail, Quiet
  <1>. QED BY <1>2, <1>4, <1>5, QuietStep DEF Reading, Writing

\* A publication that goes around again knows its request, and nothing else.
LEMMA RetryStep ==
  ASSUME IInv, NEW h \in Handlers, Retry(h), InPublish(h)
  PROVE  IInv'
  <1>1. attempt[h] < MaxAttempts /\ job[h] \in PublishJobs /\ earlier[h] \subseteq Stored(disk)
    BY DEF IInv, Knows, PublishStage
  <1>2. /\ OwnTypes' /\ OnlyOf(h)
        /\ job'[h] = job[h] /\ earlier'[h] = earlier[h]
        /\ \/ pc'[h] = "publish" /\ attempt'[h] < MaxAttempts
           \/ pc'[h] = "answered" /\ answer'[h] = "contended"
    BY <1>1, Retrying DEF IInv
  <1>3. disk' = disk /\ Quiet(h)
    BY DEF Retry, TxRollback, Quiet
  <1>4. Knows(h)'
    <2>1. CASE pc'[h] = "publish" /\ attempt'[h] < MaxAttempts
      BY <1>1, <1>2, <1>3, <2>1 DEF Knows, SubmitStage, AckStage, PublishStage, InPublish, Told
    <2>2. CASE pc'[h] = "answered" /\ answer'[h] = "contended"
      BY <1>1, <1>2, <1>3, <2>2, RefusedKnows DEF Refusals, Answers
    <2>. QED BY <1>2, <2>1, <2>2
  <1>. QED BY <1>2, <1>3, <1>4, QuietStep DEF Reading, Writing

\* A statement of a publication that fails sends it around again, or ends it.
LEMMA PublishFailsStep ==
  ASSUME IInv, NEW h \in Handlers, PublishFails(h), InPublish(h)
  PROVE  IInv'
  BY RetryStep, FailStep DEF PublishFails, Refusals, Answers

\* A handler goes on, notes something or answers after it only looked.
LEMMA LookStep ==
  ASSUME IInv, NEW h \in Handlers, UNCHANGED txVars, pc[h] \notin Reading, Knows(h)',
         \/ \E label \in Labels \ Reading : Proceed(h, label)
         \/ \E label \in Labels \ Reading, data \in Locals : Note(h, data, label)
         \/ \E a \in Answers, data \in Locals : ReplyWith(h, a, data)
  PROVE  IInv'
  <1>1. OwnTypes' /\ OnlyOf(h) /\ pc'[h] \notin Reading
    <2>1. CASE \E label \in Labels \ Reading : Proceed(h, label)
      BY <2>1, Proceeding DEF IInv
    <2>2. CASE \E label \in Labels \ Reading, data \in Locals : Note(h, data, label)
      BY <2>2, Noting DEF IInv
    <2>3. CASE \E a \in Answers, data \in Locals : ReplyWith(h, a, data)
      BY <2>3, Answering DEF IInv, Reading, Writing
    <2>. QED BY <2>1, <2>2, <2>3
  <1>. QED BY <1>1, QuietStep DEF Quiet
-----------------------------------------------------------------------------
(***************************************************************************)
(* The steps                                                               *)
(***************************************************************************)

\* The empty tables satisfy the invariant.
LEMMA InitIInv == Init => IInv
  <1> SUFFICES ASSUME Init PROVE IInv
    OBVIOUS
  <1>1. disk \in Tables /\ cache \in Tables
    BY DEF Init, Tables, Standings
  <1>2. TypeOK
    <2>1. "idle" \in Labels /\ "none" \in Answers
      BY DEF Labels, Answers
    <2>. QED BY <1>1, <2>1, BlankLocal DEF Init, TypeOK
  <1>3. Locks
    BY DEF Init, Locks, Reading, Writing
  <1>4. Stored(disk) = {}
    BY DEF Init, Stored
  <1>5. Sound(disk)
    BY <1>4 DEF Init, Sound, Acked, Paired, Once, Internal
  <1>6. \A h \in Handlers : Knows(h)
    BY DEF Init, Knows, SubmitStage, AckStage, PublishStage, InPublish, Told
  <1>. QED BY <1>2, <1>3, <1>5, <1>6 DEF IInv

\* A second passes.
LEMMA TickStep ==
  ASSUME IInv, Tick
  PROVE  IInv'
  <1>1. UNCHANGED txVars /\ UNCHANGED local /\ clock' \in 1..MaxTime
    BY DEF Tick, IInv, TypeOK
  <1>2. OwnTypes' /\ TxTypes' /\ Locks' /\ Sound(disk') /\ disk' = disk
    BY <1>1 DEF txVars, local, IInv, TypeOK, OwnTypes, TxTypes, Locks
  <1>3. \A q \in Handlers : Untouched(q)
    BY <1>1 DEF txVars, local, Untouched, Own
  <1>4. Grows(disk, disk')
    BY <1>2, GrowsNothing DEF IInv, TypeOK
  <1>5. {} \in SUBSET Handlers
    OBVIOUS
  <1>. QED BY <1>2, <1>3, <1>4, <1>5, StepKeeps

\* Someone joins, leaves or is disabled: no record is lost, and a member
\* remains one that was.
LEMMA MembersStep ==
  ASSUME IInv, MembersChange
  PROVE  IInv'
  <1>1. PICK sd \in Spaces \X Devices, standing \in Standings \ {"none"} :
          AutoWrite(NoHandler, [disk EXCEPT !.members[sd] = standing])
    BY DEF MembersChange
  <1> DEFINE u == [disk EXCEPT !.members[sd] = standing]
  <1>2. u \in Tables /\ Grows(disk, u) /\ Sound(u)
    BY StandingChanged DEF IInv, TypeOK
  <1>3. AutoWrite(NoHandler, u)
    BY <1>1
  <1> HIDE DEF u
  <1>4. OwnTypes' /\ \A q \in Handlers : Own(q)' = Own(q)
    BY DEF MembersChange, local, IInv, TypeOK, OwnTypes, Own
  <1>5. {} \in SUBSET Handlers
    OBVIOUS
  <1>. QED BY <1>2, <1>3, <1>4, <1>5, AutoStep

\* A killed process rolls every transaction back.
LEMMA CrashStep ==
  ASSUME IInv, Crash
  PROVE  IInv'
  <1>1. /\ disk' = disk /\ cache' = disk /\ writer' = NoHandler /\ readers' = {}
        /\ Forget(Handlers)
    BY DEF Crash, TxCrash
  <1>2. /\ OwnTypes'
        /\ \A q \in Handlers : pc'[q] = "idle" /\ attempt'[q] = 0 /\ earlier'[q] = {}
    BY <1>1, Forgetting DEF IInv
  <1>3. TypeOK'
    BY <1>1, <1>2 DEF IInv, TypeOK, OwnTypes
  <1>4. Locks'
    BY <1>1, <1>2 DEF Locks, Reading, Writing
  <1>5. \A q \in Handlers : Knows(q)'
    BY <1>2, IdleKnows
  <1>. QED BY <1>1, <1>3, <1>4, <1>5 DEF IInv

\* A request is over.
LEMMA DeliverStep ==
  ASSUME IInv, NEW h \in Handlers, Deliver(h)
  PROVE  IInv'
  <1>1. UNCHANGED txVars /\ pc[h] \notin Reading /\ Forget({h})
    BY DEF Deliver, Reading, Writing
  <1>2. /\ OwnTypes' /\ pc'[h] = "idle" /\ attempt'[h] = 0 /\ earlier'[h] = {}
        /\ \A q \in Handlers \ {h} : Own(q)' = Own(q)
    BY <1>1, Forgetting DEF IInv
  <1>3. Knows(h)'
    BY <1>2, IdleKnows
  <1>. QED BY <1>1, <1>2, <1>3, QuietStep DEF OnlyOf, Quiet, Reading, Writing

\* A request has the parts that its kind has.
LEMMA JobParts ==
  ASSUME NEW j \in Jobs
  PROVE  /\ j.op \in {"submit", "inbox", "ack", "publish"}
         /\ j.op = "submit" => j \in SubmitJobs
         /\ j.op = "inbox" => j \in InboxJobs
         /\ j.op = "ack" => j \in AckJobs
         /\ j.op = "publish" => j \in PublishJobs
  BY DEF SubmitJobs, InboxJobs, AckJobs, PublishJobs

\* A request that arrives: one for an inbox notes which envelopes exist.
LEMMA ArriveStep ==
  ASSUME IInv, NEW h \in Handlers, Arrive(h)
  PROVE  IInv'
  <1>1. PICK j \in Jobs :
          /\ job' = [job EXCEPT ![h] = j]
          /\ pc' = [pc EXCEPT ![h] = j.op]
          /\ earlier' = [earlier EXCEPT ![h] = IF j.op = "inbox" THEN Stored(disk) ELSE {}]
    BY DEF Arrive, Goto
  <1>2. /\ pc[h] = "idle" /\ UNCHANGED txVars
        /\ clock' = clock /\ attempt' = attempt /\ mine' = mine /\ answer' = answer
    BY DEF Arrive
  <1>3. /\ j.op \in {"submit", "inbox", "ack", "publish"}
        /\ j.op = "submit" => j \in SubmitJobs
        /\ j.op = "inbox" => j \in InboxJobs
        /\ j.op = "ack" => j \in AckJobs
        /\ j.op = "publish" => j \in PublishJobs
    BY JobParts
  <1>4. j.op \in Labels
    BY <1>3 DEF Labels
  <1>5. Stored(disk) \subseteq Envelopes
    BY DEF Stored
  <1>6. /\ OwnTypes' /\ OnlyOf(h) /\ pc'[h] = j.op /\ job'[h] = j
        /\ earlier'[h] \subseteq Stored(disk) /\ attempt'[h] = attempt[h]
    BY <1>1, <1>2, <1>4, <1>5 DEF IInv, TypeOK, OwnTypes, OnlyOf, Own
  <1>7. disk' = disk /\ attempt[h] = 0
    BY <1>2 DEF txVars, IInv, Knows
  <1>8. Knows(h)'
    BY <1>3, <1>6, <1>7 DEF Knows, SubmitStage, AckStage, PublishStage, InPublish, Told
  <1>9. Quiet(h) /\ pc'[h] \notin Reading
    BY <1>2, <1>3, <1>6 DEF Quiet, Reading, Writing
  <1>. QED BY <1>6, <1>8, <1>9, QuietStep

\* What an answer carries.
LEMMA Carried ==
  /\ \A e \in Envelopes : /\ [Blank EXCEPT !.envelope = e] \in Locals
                          /\ [Blank EXCEPT !.envelope = e].envelope = e
  /\ \A list \in SUBSET Envelopes : /\ [Blank EXCEPT !.list = list] \in Locals
                                    /\ [Blank EXCEPT !.list = list].list = list
  /\ \A at \in 0..MaxTime : /\ [Blank EXCEPT !.at = at] \in Locals
                            /\ [Blank EXCEPT !.at = at].at = at
  <1>1. 0 \in 0..MaxTime
    OBVIOUS
  <1>2. ASSUME NEW e \in Envelopes
        PROVE  /\ [Blank EXCEPT !.envelope = e] \in Locals
               /\ [Blank EXCEPT !.envelope = e].envelope = e
    BY <1>1 DEF Blank, Locals
  <1>3. ASSUME NEW list \in SUBSET Envelopes
        PROVE  /\ [Blank EXCEPT !.list = list] \in Locals
               /\ [Blank EXCEPT !.list = list].list = list
    BY <1>1 DEF Blank, Locals
  <1>4. ASSUME NEW at \in 0..MaxTime
        PROVE  /\ [Blank EXCEPT !.at = at] \in Locals
               /\ [Blank EXCEPT !.at = at].at = at
    BY <1>1 DEF Blank, Locals
  <1>. QED BY <1>2, <1>3, <1>4

\* The tables with a new envelope.
LEMMA PostedTables ==
  ASSUME NEW t \in Tables, NEW e \in FreeIds(t), NEW j \in SubmitJobs \union PublishJobs, Named(j)
  PROVE  LET u == [t EXCEPT !.envelopes[e] = NewEnvelope(j)] IN
         u \in Tables /\ Posted(t, u, e, j) /\ u.bindings = t.bindings
  <1> DEFINE v == [t.envelopes EXCEPT ![e] = NewEnvelope(j)]
             u == [members |-> t.members, envelopes |-> v, acks |-> t.acks, bindings |-> t.bindings]
  <1>1. e \in Envelopes /\ t.envelopes[e] = NoRow
    BY DEF FreeIds, Stored
  <1>2. v \in [Envelopes -> EnvelopeRow \union {NoRow}]
    BY TablesOf, NewRow
  <1>3. [t EXCEPT !.envelopes[e] = NewEnvelope(j)] = u
    <2>1. [t EXCEPT !.envelopes[e] = NewEnvelope(j)] = [t EXCEPT !.envelopes = v]
      OBVIOUS
    <2>2. \A x : [t EXCEPT !.envelopes = x] =
            [members |-> t.members, envelopes |-> x, acks |-> t.acks, bindings |-> t.bindings]
      BY TablesOf
    <2>. QED BY <2>1, <2>2
  <1>4. u \in Tables
    BY <1>2, TablesOf, TablesFrom
  <1>5. Posted(t, u, e, j) /\ u.bindings = t.bindings
    BY <1>1 DEF Posted
  <1>. QED BY <1>3, <1>4, <1>5

\* A check of membership outside a transaction.
LEMMA CheckStep ==
  ASSUME IInv, NEW h \in Handlers, NEW d, NEW refusal \in Refusals, NEW next \in Labels \ Reading,
         CheckMember(h, d, refusal, next), pc[h] \notin Reading,
         /\ ActiveMember(disk, job[h].space, d)
         /\ Proceed(h, next) /\ UNCHANGED txVars
         => Knows(h)'
  PROVE  IInv'
  <1>1. "db_error" \in Refusals
    BY DEF Refusals, Answers
  <1>2. CASE Fail(h, "db_error") \/ Fail(h, refusal)
    BY <1>1, <1>2, FailStep
  <1>3. CASE /\ ActiveMember(disk, job[h].space, d)
             /\ Proceed(h, next) /\ UNCHANGED txVars
    BY <1>3, LookStep
  <1>. QED BY <1>2, <1>3 DEF CheckMember

\* submitEnvelope and submitRelaySpaceEnvelope look up the space and devices.
LEMMA SubmitLookupStep ==
  ASSUME IInv, NEW h \in Handlers, SubmitLookup(h)
  PROVE  IInv'
  <1> DEFINE j == job[h]
             next == IF j.space = NoSpace THEN "submit.insert" ELSE "submit.sender"
  <1>1. {"db_error", "relay_space_not_found", "sender_device_not_found",
         "recipient_device_not_found"} \subseteq Refusals
    BY DEF Refusals, Answers
  <1>2. pc[h] \notin Reading /\ j \in SubmitJobs /\ earlier[h] \subseteq Stored(disk)
    BY DEF SubmitLookup, Reading, Writing, IInv, Knows, SubmitStage
  <1>3. CASE \E a \in Refusals : Fail(h, a)
    BY <1>2, <1>3, FailStep
  <1>4. CASE /\ Stranger \notin {j.space, j.from, j.to}
             /\ Proceed(h, next) /\ UNCHANGED txVars
    <2>1. next \in Labels \ Reading /\ next \in {"submit.insert", "submit.sender"}
      BY DEF Labels, Reading, Writing
    <2>2. Named(j) /\ (j.space # NoSpace <=> next = "submit.sender")
      BY <1>2, <1>4 DEF SubmitJobs, SomeSpace, SomeDevice, Named
    <2> HIDE DEF next
    <2>3. pc'[h] = next /\ job'[h] = j /\ earlier'[h] = earlier[h] /\ disk' = disk
      BY <1>4, <2>1, Proceeding DEF IInv, txVars
    <2>4. Knows(h)'
      BY <1>2, <2>1, <2>2, <2>3 DEF Knows, SubmitStage, AckStage, PublishStage, InPublish, Told
    <2>. QED BY <1>2, <1>4, <2>1, <2>4, LookStep
  <1>. QED BY <1>1, <1>3, <1>4 DEF SubmitLookup

\* Both devices are members, one after the other.
LEMMA SubmitMembersStep ==
  ASSUME IInv, NEW h \in Handlers, SubmitSender(h) \/ SubmitRecipient(h)
  PROVE  IInv'
  <1> DEFINE j == job[h]
  <1>1. /\ {"sender_not_relay_member", "recipient_not_relay_member"} \subseteq Refusals
        /\ {"submit.recipient", "submit.insert"} \subseteq Labels \ Reading
    BY DEF Refusals, Answers, Labels, Reading, Writing
  <1>2. /\ pc[h] \notin Reading /\ j \in SubmitJobs /\ Named(j) /\ j.space # NoSpace
        /\ earlier[h] \subseteq Stored(disk)
    BY DEF SubmitSender, SubmitRecipient, Reading, Writing, IInv, Knows, SubmitStage
  <1>3. \A d : ActiveMember(disk, j.space, d) => Enlisted(disk, j.space, d)
    BY DEF ActiveMember, Enlisted
  <1>4. CASE SubmitSender(h)
    <2>1. ASSUME ActiveMember(disk, j.space, j.from),
                 Proceed(h, "submit.recipient"), UNCHANGED txVars
          PROVE  Knows(h)'
      <3>1. /\ pc'[h] = "submit.recipient" /\ job'[h] = j /\ earlier'[h] = earlier[h]
            /\ disk' = disk
        BY <1>1, <2>1, Proceeding DEF IInv, txVars
      <3>. QED BY <1>2, <1>3, <2>1, <3>1
               DEF Knows, SubmitStage, AckStage, PublishStage, InPublish, Told
    <2>. QED BY <1>1, <1>2, <1>4, <2>1, CheckStep DEF SubmitSender
  <1>5. CASE SubmitRecipient(h)
    <2>1. ASSUME ActiveMember(disk, j.space, j.to),
                 Proceed(h, "submit.insert"), UNCHANGED txVars
          PROVE  Knows(h)'
      <3>1. /\ pc'[h] = "submit.insert" /\ job'[h] = j /\ earlier'[h] = earlier[h]
            /\ disk' = disk
        BY <1>1, <2>1, Proceeding DEF IInv, txVars
      <3>2. Enlisted(disk, j.space, j.from)
        BY <1>5 DEF SubmitRecipient, IInv, Knows, SubmitStage
      <3>. QED BY <1>2, <1>3, <2>1, <3>1, <3>2
               DEF Knows, SubmitStage, AckStage, PublishStage, InPublish, Told
    <2>. QED BY <1>1, <1>2, <1>5, <2>1, CheckStep DEF SubmitRecipient
  <1>. QED BY <1>4, <1>5

\* The INSERT, whoever is a member by then.
LEMMA SubmitInsertStep ==
  ASSUME IInv, NEW h \in Handlers, SubmitInsert(h)
  PROVE  IInv'
  <1> DEFINE j == job[h]
             id == CHOOSE x \in FreeIds(disk) : TRUE
  <1>1. pc[h] = "submit.insert" /\ pc[h] \notin Reading /\ disk \in Tables /\ Sound(disk)
    BY DEF SubmitInsert, Reading, Writing, IInv, TypeOK
  <1>2. /\ j \in SubmitJobs /\ Named(j) /\ earlier[h] \subseteq Stored(disk)
        /\ j.space # NoSpace => Enlisted(disk, j.space, j.from) /\ Enlisted(disk, j.space, j.to)
    BY <1>1 DEF IInv, Knows, SubmitStage
  <1>3. CASE Fail(h, "db_error")
    BY <1>1, <1>3, FailStep DEF Refusals, Answers
  <1>4. CASE ~ Fail(h, "db_error")
    <2>1. PICK e \in FreeIds(disk) :
            /\ AutoWrite(h, [disk EXCEPT !.envelopes[e] = NewEnvelope(j)])
            /\ ReplyWith(h, "queued", [Blank EXCEPT !.envelope = e])
      <3>1. /\ FreeIds(disk) # {}
            /\ AutoWrite(h, [disk EXCEPT !.envelopes[id] = NewEnvelope(j)])
            /\ ReplyWith(h, "queued", [Blank EXCEPT !.envelope = id])
        BY <1>4 DEF SubmitInsert
      <3>2. id \in FreeIds(disk)
        BY <3>1
      <3>. QED BY <3>1, <3>2
    <2> DEFINE u == [disk EXCEPT !.envelopes[e] = NewEnvelope(j)]
               data == [Blank EXCEPT !.envelope = e]
    <2>2. u \in Tables /\ Posted(disk, u, e, j) /\ u.bindings = disk.bindings
      BY <1>1, <1>2, PostedTables
    <2>3. e \in Envelopes /\ data \in Locals /\ data.envelope = e
      BY Carried DEF FreeIds
    <2>4. AutoWrite(h, u) /\ disk' = u /\ ReplyWith(h, "queued", data)
      BY <2>1 DEF AutoWrite
    <2> HIDE DEF u, data
    <2>5. Grows(disk, u) /\ Sound(u)
      BY <1>1, <1>2, <2>2, <2>3, Submitted
    <2>6. Stored(u) = Stored(disk) \union {e} /\ u.envelopes[e] = NewEnvelope(j)
      <3>1. OthersBound(disk, u, e)
        BY <2>2 DEF OthersBound
      <3>. QED BY <1>1, <1>2, <2>2, <2>3, <3>1, PostedGrows
    <2>7. /\ OwnTypes' /\ OnlyOf(h) /\ pc'[h] = "answered" /\ answer'[h] = "queued"
          /\ job'[h] = j /\ mine'[h] = data /\ earlier'[h] = earlier[h]
      BY <2>3, <2>4, Answering DEF IInv, Answers
    <2>8. AsAsked(h)'
      BY <1>2, <2>3, <2>4, <2>6, <2>7, NewRow DEF AsAsked
    <2>9. Knows(h)'
      BY <1>2, <2>4, <2>6, <2>7, <2>8
         DEF Knows, SubmitStage, AckStage, PublishStage, InPublish, Told
    <2>10. {h} \in SUBSET Handlers /\ pc'[h] \notin Reading
      BY <2>7 DEF Reading, Writing
    <2>11. \A q \in {h} : Knows(q)' /\ pc[q] \notin Reading /\ pc'[q] \notin Reading
      BY <1>1, <2>9, <2>10
    <2>12. \A q \in Handlers \ {h} : Own(q)' = Own(q)
      BY <2>7 DEF OnlyOf
    <2>. QED BY <2>2, <2>4, <2>5, <2>7, <2>10, <2>11, <2>12, AutoStep
  <1>. QED BY <1>3, <1>4

\* The inbox of either route looks up the space and the device.
LEMMA InboxLookupStep ==
  ASSUME IInv, NEW h \in Handlers, InboxLookup(h)
  PROVE  IInv'
  <1> DEFINE j == job[h]
             next == IF j.space = NoSpace THEN "inbox.query" ELSE "inbox.member"
  <1>1. {"db_error", "relay_space_not_found", "device_not_found"} \subseteq Refusals
    BY DEF Refusals, Answers
  <1>2. pc[h] \notin Reading /\ j \in InboxJobs /\ earlier[h] \subseteq Stored(disk)
    BY DEF InboxLookup, Reading, Writing, IInv, Knows, Told
  <1>3. CASE \E a \in Refusals : Fail(h, a)
    BY <1>2, <1>3, FailStep
  <1>4. CASE Proceed(h, next) /\ UNCHANGED txVars
    <2>1. next \in Labels \ Reading /\ next \in {"inbox.query", "inbox.member"}
      BY DEF Labels, Reading, Writing
    <2> HIDE DEF next
    <2>2. pc'[h] = next /\ job'[h] = j /\ earlier'[h] = earlier[h] /\ disk' = disk
      BY <1>4, <2>1, Proceeding DEF IInv, txVars
    <2>3. Knows(h)'
      BY <1>2, <2>1, <2>2 DEF Knows, SubmitStage, AckStage, PublishStage, InPublish, Told
    <2>. QED BY <1>2, <1>4, <2>1, <2>3, LookStep
  <1>. QED BY <1>1, <1>3, <1>4 DEF InboxLookup

\* Only a member sees the inbox of a space.
LEMMA InboxMemberStep ==
  ASSUME IInv, NEW h \in Handlers, InboxMember(h)
  PROVE  IInv'
  <1>1. "recipient_not_relay_member" \in Refusals /\ "inbox.query" \in Labels \ Reading
    BY DEF Refusals, Answers, Labels, Reading, Writing
  <1>2. /\ pc[h] \notin Reading /\ job[h] \in InboxJobs /\ earlier[h] \subseteq Stored(disk)
    BY DEF InboxMember, Reading, Writing, IInv, Knows, Told
  <1>3. ASSUME Proceed(h, "inbox.query"), UNCHANGED txVars
        PROVE  Knows(h)'
    <2>1. pc'[h] = "inbox.query" /\ job'[h] = job[h] /\ earlier'[h] = earlier[h] /\ disk' = disk
      BY <1>1, <1>3, Proceeding DEF IInv, txVars
    <2>. QED BY <1>2, <2>1 DEF Knows, SubmitStage, AckStage, PublishStage, InPublish, Told
  <1>. QED BY <1>1, <1>2, <1>3, CheckStep DEF InboxMember

\* The SELECT: all of what waits, if the space asks for it.
LEMMA InboxQueryStep ==
  ASSUME IInv, NEW h \in Handlers, InboxQuery(h)
  PROVE  IInv'
  <1> DEFINE j == job[h]
             all == QueuedFor(disk, j.space, j.device)
  <1>1. pc[h] \notin Reading /\ earlier[h] \subseteq Stored(disk) /\ "listed" \in Answers
    BY DEF InboxQuery, Reading, Writing, IInv, Knows, Answers
  <1>2. CASE Fail(h, "db_error")
    BY <1>1, <1>2, FailStep DEF Refusals, Answers
  <1>3. CASE ~ Fail(h, "db_error")
    <2>1. PICK list \in SUBSET all :
            /\ j.space # NoSpace => list = all
            /\ ReplyWith(h, "listed", [Blank EXCEPT !.list = list])
            /\ UNCHANGED txVars
      BY <1>3 DEF InboxQuery, Fetched
    <2> DEFINE data == [Blank EXCEPT !.list = list]
    <2>2. data \in Locals /\ data.list = list
      <3>1. list \in SUBSET Envelopes
        BY DEF QueuedFor, Stored
      <3>. QED BY <3>1, Carried
    <2>3. ReplyWith(h, "listed", data)
      BY <2>1
    <2> HIDE DEF data
    <2>4. /\ pc'[h] = "answered" /\ answer'[h] = "listed" /\ job'[h] = j
          /\ mine'[h] = data /\ earlier'[h] = earlier[h] /\ disk' = disk
      BY <1>1, <2>1, <2>2, <2>3, Answering DEF IInv, txVars
    <2>5. j.space # NoSpace => Complete(h)'
      BY <2>1, <2>2, <2>4 DEF Complete, QueuedFor
    <2>6. Knows(h)'
      BY <1>1, <2>4, <2>5 DEF Knows, SubmitStage, AckStage, PublishStage, InPublish, Told
    <2>. QED BY <1>1, <2>1, <2>2, <2>3, <2>6, LookStep
  <1>. QED BY <1>2, <1>3

\* What an ack keeps of the rows it read.
LEMMA ReadCarried ==
  ASSUME NEW first \in 0..MaxTime, NEW done \in BOOLEAN
  PROVE  LET data == [Blank EXCEPT !.first = first, !.done = done] IN
         data \in Locals /\ data.first = first /\ data.done = done
  <1>1. 0 \in 0..MaxTime
    OBVIOUS
  <1>2. [Blank EXCEPT !.first = first, !.done = done] \in Locals
    BY <1>1 DEF Blank, Locals
  <1>3. [Blank EXCEPT !.first = first, !.done = done].first = first
    BY DEF Blank
  <1>4. [Blank EXCEPT !.first = first, !.done = done].done = done
    BY DEF Blank
  <1>. QED BY <1>2, <1>3, <1>4

\* ackEnvelope and ackRelaySpaceEnvelope read the envelope and its first
\* acknowledgement.
LEMMA AckReadStep ==
  ASSUME IInv, NEW h \in Handlers, AckRead(h)
  PROVE  IInv'
  <1> DEFINE j == job[h]
             row == disk.envelopes[j.envelope]
             first == Earliest(disk.acks[j.envelope])
             done == row.state = "acknowledged" /\ first # 0
             data == [Blank EXCEPT !.first = first, !.done = done]
             next == IF j.space = NoSpace THEN "ack.decide" ELSE "ack.member"
  <1>1. {"db_error", "relay_space_not_found", "envelope_not_found", "recipient_mismatch"}
          \subseteq Refusals
    BY DEF Refusals, Answers
  <1>2. /\ pc[h] \notin Reading /\ j \in AckJobs /\ earlier[h] \subseteq Stored(disk)
        /\ UNCHANGED txVars /\ disk' = disk /\ disk \in Tables /\ j.envelope \in Envelopes
    BY DEF AckRead, Reading, Writing, IInv, TypeOK, Knows, AckStage, AckJobs, txVars
  <1>3. CASE \E a \in Refusals : Reply(h, a)
    BY <1>2, <1>3, FailStep DEF Fail
  <1>4. CASE row # NoRow /\ Note(h, data, next)
    <2>1. next \in Labels \ Reading /\ next \in {"ack.decide", "ack.member"}
      BY DEF Labels, Reading, Writing
    <2>2. /\ first \in 0..MaxTime
          /\ first # 0 => \E n \in DOMAIN disk.acks[j.envelope] : disk.acks[j.envelope][n] = first
      <3>1. disk.acks[j.envelope] \in Seq(1..MaxTime)
        BY <1>2, TablesOf
      <3>. QED BY <3>1, EarliestOf
    <2>3. j.envelope \in Stored(disk)
      BY <1>2, <1>4 DEF Stored
    <2>4. data \in Locals /\ data.first = first /\ (data.done => first # 0)
      <3> DEFINE d == done
      <3>1. d \in BOOLEAN /\ (d => first # 0)
        OBVIOUS
      <3> HIDE DEF d, first
      <3>2. /\ [Blank EXCEPT !.first = first, !.done = d] \in Locals
            /\ [Blank EXCEPT !.first = first, !.done = d].first = first
            /\ [Blank EXCEPT !.first = first, !.done = d].done = d
        BY <2>2, <3>1, ReadCarried
      <3>. QED BY <3>1, <3>2 DEF d
    <2> HIDE DEF data, next
    <2>5. /\ pc'[h] = next /\ mine'[h] = data /\ job'[h] = j /\ earlier'[h] = earlier[h]
      BY <1>4, <2>1, <2>4, Noting DEF IInv
    <2> HIDE DEF first
    <2>6. Knows(h)'
      BY <1>2, <2>1, <2>2, <2>3, <2>4, <2>5
         DEF Knows, SubmitStage, AckStage, PublishStage, InPublish, Told
    <2>. QED BY <1>2, <1>4, <2>1, <2>4, <2>6, LookStep
  <1>5. \/ \E a \in {"db_error", "relay_space_not_found", "envelope_not_found",
                      "recipient_mismatch"} : Reply(h, a)
        \/ row # NoRow /\ Note(h, data, next)
    BY DEF AckRead, Note, Readable
  <1>. QED BY <1>1, <1>3, <1>4, <1>5

\* What an ack knows once it has read the envelope.
LEMMA AckKnows ==
  ASSUME IInv, NEW h \in Handlers,
         pc[h] \in {"ack.member", "ack.decide", "ack.insert", "ack.update", "ack.commit"}
  PROVE  LET e == job[h].envelope IN
         /\ job[h] \in AckJobs /\ e \in Stored(disk) /\ e \in Envelopes
         /\ earlier[h] \subseteq Stored(disk)
         /\ mine[h] \in Locals
         /\ mine[h].first # 0 => \E n \in DOMAIN disk.acks[e] : disk.acks[e][n] = mine[h].first
         /\ mine[h].done => mine[h].first # 0
  BY DEF IInv, TypeOK, Knows, AckStage, Stored

\* Only a member acknowledges in a space.
LEMMA AckMemberStep ==
  ASSUME IInv, NEW h \in Handlers, AckMember(h)
  PROVE  IInv'
  <1>1. "recipient_not_relay_member" \in Refusals /\ "ack.decide" \in Labels \ Reading
    BY DEF Refusals, Answers, Labels, Reading, Writing
  <1>2. pc[h] = "ack.member" /\ pc[h] \notin Reading
    BY DEF AckMember, Reading, Writing
  <1>3. ASSUME Proceed(h, "ack.decide"), UNCHANGED txVars
        PROVE  Knows(h)'
    <2>1. /\ pc'[h] = "ack.decide" /\ job'[h] = job[h] /\ earlier'[h] = earlier[h]
          /\ mine'[h] = mine[h] /\ disk' = disk
      BY <1>1, <1>3, Proceeding DEF IInv, txVars
    <2>. QED BY <1>2, <2>1, AckKnows
             DEF Knows, SubmitStage, AckStage, PublishStage, InPublish, Told
  <1>. QED BY <1>1, <1>2, <1>3, CheckStep DEF AckMember

\* The time that an ack writes, beside what it read.
LEMMA AtCarried ==
  ASSUME NEW data \in Locals, NEW at \in 0..MaxTime
  PROVE  /\ [data EXCEPT !.at = at] \in Locals
         /\ [data EXCEPT !.at = at].at = at
         /\ [data EXCEPT !.at = at].first = data.first
         /\ [data EXCEPT !.at = at].done = data.done
  <1>1. [data EXCEPT !.at = at] \in Locals
    BY DEF Locals
  <1>2. [data EXCEPT !.at = at].at = at /\ [data EXCEPT !.at = at].first = data.first
    BY DEF Locals
  <1>3. [data EXCEPT !.at = at].done = data.done
    BY DEF Locals
  <1>. QED BY <1>1, <1>2, <1>3

\* An envelope that is done is answered as it was, another gets a time.
LEMMA AckDecideStep ==
  ASSUME IInv, NEW h \in Handlers, AckDecide(h)
  PROVE  IInv'
  <1> DEFINE e == job[h].envelope
             first == mine[h].first
             at == IF first = 0 THEN clock ELSE first
  <1>1. /\ pc[h] = "ack.decide" /\ pc[h] \notin Reading /\ UNCHANGED txVars /\ disk' = disk
        /\ "acknowledged" \in Answers /\ "ack.insert" \in Labels \ Reading
    BY DEF AckDecide, txVars, Reading, Writing, Answers, Labels
  <1>2. /\ job[h] \in AckJobs /\ e \in Stored(disk) /\ earlier[h] \subseteq Stored(disk)
        /\ mine[h] \in Locals
        /\ first # 0 => \E n \in DOMAIN disk.acks[e] : disk.acks[e][n] = first
        /\ mine[h].done => first # 0
    BY <1>1, AckKnows
  <1>3. first \in 0..MaxTime /\ clock \in 1..MaxTime
    BY <1>2 DEF Locals, IInv, TypeOK
  <1>4. CASE mine[h].done
    <2> DEFINE data == [Blank EXCEPT !.at = first]
    <2>1. data \in Locals /\ data.at = first
      <3> HIDE DEF first
      <3>. QED BY <1>3, Carried
    <2>2. ReplyWith(h, "acknowledged", data)
      BY <1>4 DEF AckDecide, Acknowledged
    <2> HIDE DEF data
    <2>3. /\ pc'[h] = "answered" /\ answer'[h] = "acknowledged" /\ job'[h] = job[h]
          /\ mine'[h] = data /\ earlier'[h] = earlier[h]
      BY <1>1, <2>1, <2>2, Answering DEF IInv
    <2>4. Knows(h)'
      BY <1>1, <1>2, <1>4, <2>1, <2>3
         DEF Knows, SubmitStage, AckStage, PublishStage, InPublish, Told
    <2>. QED BY <1>1, <2>1, <2>2, <2>4, LookStep
  <1>5. CASE ~ mine[h].done
    <2> DEFINE data == [mine[h] EXCEPT !.at = at]
    <2>1. at \in 0..MaxTime /\ at \in 1..MaxTime /\ (first # 0 => at = first)
      BY <1>3
    <2>2. data \in Locals /\ data.at = at /\ data.first = first /\ data.done = mine[h].done
      <3> HIDE DEF at
      <3>. QED BY <1>2, <2>1, AtCarried
    <2>3. Note(h, data, "ack.insert")
      BY <1>5 DEF AckDecide, Note
    <2> HIDE DEF data, at
    <2>4. /\ pc'[h] = "ack.insert" /\ mine'[h] = data /\ job'[h] = job[h]
          /\ earlier'[h] = earlier[h]
      BY <1>1, <2>2, <2>3, Noting DEF IInv
    <2>5. Knows(h)'
      BY <1>1, <1>2, <1>5, <2>1, <2>2, <2>4
         DEF Knows, SubmitStage, AckStage, PublishStage, InPublish, Told
    <2>. QED BY <1>1, <2>2, <2>3, <2>5, LookStep
  <1>. QED BY <1>4, <1>5

\* The tables with one more acknowledgement.
LEMMA ReceiptTables ==
  ASSUME NEW t \in Tables, NEW e \in Envelopes, NEW at \in 1..MaxTime
  PROVE  LET u == [t EXCEPT !.acks[e] = Append(@, at)] IN
         u \in Tables /\ Receipted(t, u, e, at) /\ u.envelopes = t.envelopes
  <1> DEFINE new == Append(t.acks[e], at)
             a == [t.acks EXCEPT ![e] = new]
             u == [members |-> t.members, envelopes |-> t.envelopes, acks |-> a, bindings |-> t.bindings]
  <1>1. new \in Seq(1..MaxTime)
    <2>1. t.acks[e] \in Seq(1..MaxTime)
      BY TablesOf
    <2>. QED BY <2>1
  <1>2. [t EXCEPT !.acks[e] = Append(@, at)] = [t EXCEPT !.acks = a]
    OBVIOUS
  <1>3. Receipted(t, u, e, at) /\ u.envelopes = t.envelopes
    BY DEF Receipted
  <1> HIDE DEF new
  <1>4. a \in [Envelopes -> Seq(1..MaxTime)]
    BY <1>1, TablesOf
  <1>5. u \in Tables
    BY <1>4, TablesOf, TablesFrom
  <1>6. \A x : [t EXCEPT !.acks = x] =
          [members |-> t.members, envelopes |-> t.envelopes, acks |-> x, bindings |-> t.bindings]
    BY TablesOf
  <1>. QED BY <1>2, <1>3, <1>5, <1>6

\* The tables with an envelope acknowledged.
LEMMA ClosedTables ==
  ASSUME NEW t \in Tables, NEW e \in Stored(t)
  PROVE  LET u == [t EXCEPT !.envelopes[e].state = "acknowledged"] IN
         /\ u \in Tables /\ u.envelopes = Closed(t, e)
         /\ u.members = t.members /\ u.acks = t.acks /\ u.bindings = t.bindings
  <1> DEFINE v == Closed(t, e)
             u == [members |-> t.members, envelopes |-> v, acks |-> t.acks, bindings |-> t.bindings]
  <1>1. [t EXCEPT !.envelopes[e].state = "acknowledged"] = [t EXCEPT !.envelopes = v]
    BY DEF Closed
  <1>2. v \in [Envelopes -> EnvelopeRow \union {NoRow}]
    BY ClosedRow
  <1>3. u \in Tables
    BY <1>2, TablesOf, TablesFrom
  <1>4. \A x : [t EXCEPT !.envelopes = x] =
          [members |-> t.members, envelopes |-> x, acks |-> t.acks, bindings |-> t.bindings]
    BY TablesOf
  <1>. QED BY <1>1, <1>3, <1>4

\* A writer that comes first to the lock finds the cache as the file is.
LEMMA FirstWrite ==
  ASSUME IInv, NEW h \in Handlers, CanWrite(h), pc[h] \notin Writing
  PROVE  cache = disk
  BY DEF CanWrite, IInv, Locks

\* The INSERT of an acknowledgement, unless one was there.
LEMMA AckInsertStep ==
  ASSUME IInv, NEW h \in Handlers, AckInsert(h)
  PROVE  IInv'
  <1> DEFINE e == job[h].envelope
             at == mine[h].at
             first == mine[h].first
             u == IF first = 0 THEN [cache EXCEPT !.acks[e] = Append(@, at)] ELSE cache
  <1>1. pc[h] = "ack.insert" /\ pc[h] \notin Writing /\ disk \in Tables
        /\ "ack.update" \in Labels
    BY DEF AckInsert, Writing, IInv, TypeOK, Labels
  <1>2. /\ job[h] \in AckJobs /\ e \in Stored(disk) /\ e \in Envelopes
        /\ earlier[h] \subseteq Stored(disk)
        /\ first # 0 => \E n \in DOMAIN disk.acks[e] : disk.acks[e][n] = first
        /\ mine[h].done => first # 0
    BY <1>1, AckKnows
  <1>3. at \in 1..MaxTime /\ (first # 0 => at = first)
    BY <1>1 DEF IInv, Knows, AckStage
  <1>4. CASE Refuse(h, "db_error")
    BY <1>4, FailStep DEF Refusals, Answers
  <1>5. CASE TxWrite(h, u) /\ Proceed(h, "ack.update")
    <2>1. cache = disk /\ disk' = disk
      BY <1>1, <1>5, FirstWrite DEF TxWrite
    <2>2. /\ u \in Tables
          /\ first = 0 => Receipted(disk, u, e, at) /\ u.envelopes = disk.envelopes
          /\ first # 0 => u = disk
      <3> DEFINE v == [disk EXCEPT !.acks[e] = Append(@, at)]
      <3>1. v \in Tables /\ Receipted(disk, v, e, at) /\ v.envelopes = disk.envelopes
        BY <1>1, <1>2, <1>3, ReceiptTables
      <3>2. u = IF first = 0 THEN v ELSE disk
        BY <2>1
      <3> HIDE DEF u, v
      <3>. QED BY <1>1, <3>1, <3>2
    <2>3. cache' = u
      BY <1>5 DEF TxWrite
    <2> HIDE DEF u
    <2>4. /\ OwnTypes' /\ OnlyOf(h) /\ pc'[h] = "ack.update" /\ job'[h] = job[h]
          /\ mine'[h] = mine[h] /\ earlier'[h] = earlier[h]
      BY <1>1, <1>5, Proceeding DEF IInv
    <2>5. Knows(h)'
      BY <1>2, <1>3, <2>1, <2>2, <2>3, <2>4
         DEF Knows, SubmitStage, AckStage, PublishStage, InPublish, Told
    <2>6. pc'[h] \in Writing
      BY <2>4 DEF Writing
    <2>. QED BY <1>5, <2>2, <2>4, <2>5, <2>6, WriteStep
  <1>. QED BY <1>4, <1>5 DEF AckInsert

\* The UPDATE, which changes nothing where an acknowledgement was there.
LEMMA AckUpdateStep ==
  ASSUME IInv, NEW h \in Handlers, AckUpdate(h)
  PROVE  IInv'
  <1> DEFINE e == job[h].envelope
             at == mine[h].at
             first == mine[h].first
             u == [cache EXCEPT !.envelopes[e].state = "acknowledged"]
  <1>1. /\ pc[h] = "ack.update" /\ disk \in Tables /\ cache \in Tables /\ Sound(disk)
        /\ "ack.commit" \in Labels
    BY DEF AckUpdate, IInv, TypeOK, Labels
  <1>2. /\ job[h] \in AckJobs /\ e \in Stored(disk) /\ e \in Envelopes
        /\ earlier[h] \subseteq Stored(disk)
        /\ first # 0 => \E n \in DOMAIN disk.acks[e] : disk.acks[e][n] = first
        /\ mine[h].done => first # 0
    BY <1>1, AckKnows
  <1>3. /\ at \in 1..MaxTime /\ (first # 0 => at = first)
        /\ first = 0 => Receipted(disk, cache, e, at) /\ cache.envelopes = disk.envelopes
        /\ first # 0 => cache = disk
    BY <1>1 DEF IInv, Knows, AckStage
  <1>4. CASE Refuse(h, "db_error")
    BY <1>4, FailStep DEF Refusals, Answers
  <1>5. CASE TxWrite(h, u) /\ Proceed(h, "ack.commit")
    <2>1. disk' = disk /\ cache' = u
      BY <1>5 DEF TxWrite
    <2>2. e \in Stored(cache)
      BY <1>2, <1>3 DEF Stored
    <2>3. /\ u \in Tables /\ u.envelopes = Closed(cache, e)
          /\ u.members = cache.members /\ u.acks = cache.acks /\ u.bindings = cache.bindings
      BY <1>1, <2>2, ClosedTables
    <2>4. first # 0 => u = disk
      <3>1. first # 0 => disk.acks[e] # <<>>
        BY <1>2
      <3>2. first # 0 => [disk EXCEPT !.envelopes[e].state = "acknowledged"] = disk
        BY <1>1, <1>2, <3>1, AckedAlready
      <3>. QED BY <1>3, <3>2
    <2> HIDE DEF u
    <2>5. first = 0 => Receipted(disk, u, e, at) /\ u.envelopes = Closed(disk, e)
      BY <1>3, <2>3 DEF Receipted, Closed
    <2>6. /\ OwnTypes' /\ OnlyOf(h) /\ pc'[h] = "ack.commit" /\ job'[h] = job[h]
          /\ mine'[h] = mine[h] /\ earlier'[h] = earlier[h]
      BY <1>1, <1>5, Proceeding DEF IInv
    <2>7. Knows(h)'
      BY <1>2, <1>3, <2>1, <2>4, <2>5, <2>6
         DEF Knows, SubmitStage, AckStage, PublishStage, InPublish, Told
    <2>8. pc'[h] \in Writing
      BY <2>6 DEF Writing
    <2>. QED BY <1>5, <2>3, <2>6, <2>7, <2>8, WriteStep
  <1>. QED BY <1>4, <1>5 DEF AckUpdate

\* What an ack commits: an acknowledgement of its envelope, or nothing new.
LEMMA AckCommits ==
  ASSUME IInv, NEW h \in Handlers, pc[h] = "ack.commit"
  PROVE  LET e == job[h].envelope IN
         /\ Grows(disk, cache) /\ Sound(cache) /\ e \in Stored(cache)
         /\ \E n \in DOMAIN cache.acks[e] : cache.acks[e][n] = mine[h].at
         /\ \/ cache = disk
            \/ /\ Receipted(disk, cache, e, mine[h].at) /\ mine[h].at \in 1..MaxTime
               /\ cache.envelopes = Closed(disk, e)
  <1> DEFINE e == job[h].envelope
             at == mine[h].at
             first == mine[h].first
  <1>1. disk \in Tables /\ cache \in Tables /\ Sound(disk)
    BY DEF IInv, TypeOK
  <1>2. /\ e \in Stored(disk)
        /\ first # 0 => \E n \in DOMAIN disk.acks[e] : disk.acks[e][n] = first
    BY AckKnows
  <1>3. /\ at \in 1..MaxTime /\ (first # 0 => at = first)
        /\ first = 0 => Receipted(disk, cache, e, at) /\ cache.envelopes = Closed(disk, e)
        /\ first # 0 => cache = disk
    BY DEF IInv, Knows, AckStage
  <1>4. CASE first = 0
    <2>1. /\ Grows(disk, cache) /\ Sound(cache)
          /\ \E n \in DOMAIN cache.acks[e] : cache.acks[e][n] = at
      BY <1>1, <1>2, <1>3, <1>4, Acknowledging
    <2>2. e \in Stored(cache)
      BY <1>1, <1>2, <2>1, GrownKeeps
    <2>. QED BY <1>3, <1>4, <2>1, <2>2
  <1>5. CASE first # 0
    BY <1>1, <1>2, <1>3, <1>5, GrowsNothing
  <1>. QED BY <1>4, <1>5

\* The commit, and the answer that the acknowledgement is on record.
LEMMA AckCommitStep ==
  ASSUME IInv, NEW h \in Handlers, AckCommit(h)
  PROVE  IInv'
  <1> DEFINE e == job[h].envelope
             at == mine[h].at
             data == [Blank EXCEPT !.at = at]
  <1>1. pc[h] = "ack.commit" /\ "acknowledged" \in Answers
    BY DEF AckCommit, Answers
  <1>2. CASE Refuse(h, "db_error")
    BY <1>2, FailStep DEF Refusals, Answers
  <1>3. CASE TxCommit(h) /\ ReplyWith(h, "acknowledged", data)
    <2>1. /\ Grows(disk, cache) /\ Sound(cache) /\ e \in Stored(cache)
          /\ \E n \in DOMAIN cache.acks[e] : cache.acks[e][n] = at
      BY <1>1, AckCommits
    <2>2. data \in Locals /\ data.at = at
      <3>1. at \in 0..MaxTime
        BY DEF IInv, TypeOK, Locals
      <3> HIDE DEF at
      <3>. QED BY <3>1, Carried
    <2> HIDE DEF data
    <2>3. /\ OwnTypes' /\ OnlyOf(h) /\ pc'[h] = "answered" /\ answer'[h] = "acknowledged"
          /\ job'[h] = job[h] /\ mine'[h] = data /\ earlier'[h] = earlier[h]
      BY <1>1, <1>3, <2>2, Answering DEF IInv
    <2>4. disk' = cache
      BY <1>3 DEF TxCommit
    <2>5. earlier[h] \subseteq Stored(cache)
      <3>1. disk \in Tables /\ cache \in Tables /\ earlier[h] \subseteq Stored(disk)
        BY DEF IInv, TypeOK, Knows
      <3>. QED BY <2>1, <3>1, GrownKeeps
    <2>6. Knows(h)'
      BY <2>1, <2>2, <2>3, <2>4, <2>5
         DEF Knows, SubmitStage, AckStage, PublishStage, InPublish, Told
    <2>7. pc'[h] \notin Reading
      BY <2>3 DEF Reading, Writing
    <2>. QED BY <1>3, <2>1, <2>3, <2>6, <2>7, CommitStep
  <1>. QED BY <1>2, <1>3 DEF AckCommit

\* What a publication knows.
LEMMA PublishKnows ==
  ASSUME IInv, NEW h \in Handlers, InPublish(h)
  PROVE  LET j == job[h] IN
         /\ j \in PublishJobs /\ attempt[h] < MaxAttempts /\ earlier[h] \subseteq Stored(disk)
         /\ pc[h] # "publish" => Named(j) /\ j.space # NoSpace
         /\ pc[h] \notin {"publish", "publish.sender"} => StillMember(j.from, j.space)
         /\ pc[h] \in {"publish.find", "publish.envelope", "publish.binding", "publish.commit"} =>
              StillMember(j.to, j.space)
  BY DEF IInv, Knows, PublishStage

\* A publication that goes on reading keeps what it knows and adds to it.
LEMMA PublishReadStep ==
  ASSUME IInv, NEW h \in Handlers, InPublish(h), PublishReads(h),
         NEW next \in {"publish.sender", "publish.recipient", "publish.find", "publish.envelope"},
         Proceed(h, next), pc[h] \notin Writing,
         Named(job[h]), job[h].space # NoSpace,
         next # "publish.sender" => StillMember(job[h].from, job[h].space),
         next \in {"publish.find", "publish.envelope"} => StillMember(job[h].to, job[h].space)
  PROVE  IInv'
  <1>1. /\ job[h] \in PublishJobs /\ attempt[h] < MaxAttempts /\ earlier[h] \subseteq Stored(disk)
    BY PublishKnows
  <1>2. TxRead(h) /\ disk' = disk
    BY DEF PublishReads, TxRead
  <1>3. next \in Labels /\ next \in Reading \ Writing
    BY DEF Labels, Reading, Writing
  <1>4. /\ OwnTypes' /\ OnlyOf(h) /\ pc'[h] = next /\ job'[h] = job[h]
        /\ attempt'[h] = attempt[h] /\ mine'[h] = mine[h] /\ earlier'[h] = earlier[h]
    BY <1>3, Proceeding DEF IInv
  <1>5. /\ StillMember(job[h].from, job[h].space) => StillMember(job[h].from, job[h].space)'
        /\ StillMember(job[h].to, job[h].space) => StillMember(job[h].to, job[h].space)'
    BY <1>2, <1>4 DEF StillMember
  <1>6. PublishStage(h)'
    BY <1>1, <1>2, <1>3, <1>4, <1>5 DEF PublishStage, InPublish
  <1>7. Knows(h)'
    BY <1>1, <1>2, <1>3, <1>4, <1>6 DEF Knows, SubmitStage, AckStage, Told
  <1>. QED BY <1>2, <1>3, <1>4, <1>7, ReadStep

\* The first reads look up the space and the devices.
LEMMA PublishBeginStep ==
  ASSUME IInv, NEW h \in Handlers, PublishBegin(h)
  PROVE  IInv'
  <1> DEFINE j == job[h]
  <1>1. {"relay_space_not_found", "sender_device_not_found", "recipient_device_not_found"}
          \subseteq Refusals
    BY DEF Refusals, Answers
  <1>2. InPublish(h) /\ pc[h] \notin Writing
    BY DEF PublishBegin, InPublish, Writing
  <1>3. CASE PublishFails(h)
    BY <1>2, <1>3, PublishFailsStep
  <1>4. CASE \E a \in Refusals : Refuse(h, a)
    BY <1>4, FailStep
  <1>5. CASE /\ Stranger \notin {j.space, j.from, j.to}
             /\ PublishReads(h)
             /\ Proceed(h, "publish.sender")
    <2>1. Named(j) /\ j.space # NoSpace
      <3>1. j \in PublishJobs
        BY <1>2, PublishKnows
      <3>. QED BY <1>5, <3>1 DEF PublishJobs, SomeDevice, Named
    <2>. QED BY <1>2, <1>5, <2>1, PublishReadStep
  <1>. QED BY <1>1, <1>3, <1>4, <1>5 DEF PublishBegin

\* An active member is one still as it is read.
LEMMA ReadsMember ==
  ASSUME NEW d, NEW s, ActiveMember(disk, s, d)
  PROVE  StillMember(d, s)
  BY DEF StillMember, ActiveMember, Enlisted

\* Both devices are members.
LEMMA PublishMembersStep ==
  ASSUME IInv, NEW h \in Handlers, PublishSender(h) \/ PublishRecipient(h)
  PROVE  IInv'
  <1> DEFINE j == job[h]
  <1>1. {"sender_not_relay_member", "recipient_not_relay_member"} \subseteq Refusals
    BY DEF Refusals, Answers
  <1>2. /\ InPublish(h) /\ pc[h] \notin Writing
        /\ pc[h] \in {"publish.sender", "publish.recipient"}
    BY DEF PublishSender, PublishRecipient, InPublish, Writing
  <1>3. /\ Named(j) /\ j.space # NoSpace
        /\ pc[h] = "publish.recipient" => StillMember(j.from, j.space)
    BY <1>2, PublishKnows
  <1>4. CASE PublishFails(h)
    BY <1>2, <1>4, PublishFailsStep
  <1>5. CASE \E a \in Refusals : Refuse(h, a)
    BY <1>5, FailStep
  <1>6. CASE /\ ActiveMember(disk, j.space, j.from)
             /\ PublishReads(h) /\ Proceed(h, "publish.recipient")
    <2>1. StillMember(j.from, j.space)
      BY <1>6, ReadsMember
    <2>. QED BY <1>2, <1>3, <1>6, <2>1, PublishReadStep
  <1>7. CASE /\ pc[h] = "publish.recipient" /\ ActiveMember(disk, j.space, j.to)
             /\ PublishReads(h) /\ Proceed(h, "publish.find")
    <2>1. StillMember(j.to, j.space)
      BY <1>7, ReadsMember
    <2>. QED BY <1>2, <1>3, <1>7, <2>1, PublishReadStep
  <1>. QED BY <1>1, <1>4, <1>5, <1>6, <1>7 DEF PublishSender, PublishRecipient, RequireMember

\* An earlier publication is the same one, or in the way, or there is none.
LEMMA PublishFindStep ==
  ASSUME IInv, NEW h \in Handlers, PublishFind(h)
  PROVE  IInv'
  <1> DEFINE j == job[h]
             found == ByRef(disk, j.from, j.ref) \union ByPayload(disk, j.from, j.payload)
  <1>1. /\ {"identity_conflict", "reuse_conflict"} \subseteq Refusals
        /\ "already_published" \in Answers
    BY DEF Refusals, Answers
  <1>2. /\ InPublish(h) /\ pc[h] = "publish.find" /\ pc[h] \notin Writing
    BY DEF PublishFind, InPublish, Writing
  <1>3. /\ Named(j) /\ j.space # NoSpace /\ earlier[h] \subseteq Stored(disk)
        /\ StillMember(j.from, j.space) /\ StillMember(j.to, j.space)
    BY <1>2, PublishKnows
  <1>4. CASE PublishFails(h)
    BY <1>2, <1>4, PublishFailsStep
  <1>5. CASE \E e \in found : ReplayError(j, e) # "ok" /\ Refuse(h, ReplayError(j, e))
    <2>1. PICK e \in found : ReplayError(j, e) # "ok" /\ Refuse(h, ReplayError(j, e))
      BY <1>5
    <2>2. ReplayError(j, e) \in Refusals
      BY <1>1, <2>1 DEF ReplayError
    <2>. QED BY <2>1, <2>2, FailStep
  <1>6. CASE \E e \in found :
               /\ ReplayError(j, e) = "ok" /\ TxRollback(h)
               /\ ReplyWith(h, "already_published", [Blank EXCEPT !.envelope = e])
    <2>1. PICK e \in found :
            /\ ReplayError(j, e) = "ok" /\ TxRollback(h)
            /\ ReplyWith(h, "already_published", [Blank EXCEPT !.envelope = e])
      BY <1>6
    <2> DEFINE data == [Blank EXCEPT !.envelope = e]
    <2>2. /\ e \in Stored(disk) /\ e \in Envelopes /\ disk.bindings[e] # NoRow
          /\ disk.envelopes[e].from = j.from
      BY DEF ByRef, ByPayload, Stored
    <2>3. /\ disk.bindings[e] = [ref |-> j.ref, payload |-> j.payload]
          /\ disk.envelopes[e].space = j.space /\ disk.envelopes[e].to = j.to
      BY <2>1 DEF ReplayError
    <2>4. data \in Locals /\ data.envelope = e
      BY <2>2, Carried
    <2>5. ReplyWith(h, "already_published", data)
      BY <2>1
    <2> HIDE DEF data
    <2>6. /\ OwnTypes' /\ OnlyOf(h) /\ pc'[h] = "answered" /\ answer'[h] = "already_published"
          /\ job'[h] = j /\ mine'[h] = data /\ earlier'[h] = earlier[h]
      BY <1>1, <2>4, <2>5, Answering DEF IInv
    <2>7. disk' = disk
      BY <2>1 DEF TxRollback
    <2>8. AsAsked(h)'
      BY <2>2, <2>3, <2>4, <2>6, <2>7 DEF AsAsked
    <2>9. Knows(h)'
      BY <1>3, <2>2, <2>3, <2>4, <2>6, <2>7, <2>8
         DEF Knows, SubmitStage, AckStage, PublishStage, InPublish, Told
    <2>10. Quiet(h) /\ pc'[h] \notin Reading
      BY <2>1, <2>6 DEF Quiet, Reading, Writing
    <2>. QED BY <2>6, <2>9, <2>10, QuietStep
  <1>7. CASE PublishReads(h) /\ Proceed(h, "publish.envelope")
    BY <1>2, <1>3, <1>7, PublishReadStep
  <1>. QED BY <1>4, <1>5, <1>6, <1>7 DEF PublishFind

\* The envelope that a publication names, beside what it kept.
LEMMA EnvelopeCarried ==
  ASSUME NEW data \in Locals, NEW e \in Envelopes
  PROVE  /\ [data EXCEPT !.envelope = e] \in Locals
         /\ [data EXCEPT !.envelope = e].envelope = e
  BY DEF Locals

\* The INSERT of the envelope.
LEMMA PublishEnvelopeStep ==
  ASSUME IInv, NEW h \in Handlers, PublishEnvelope(h)
  PROVE  IInv'
  <1> DEFINE j == job[h]
             id == CHOOSE x \in FreeIds(cache) : TRUE
  <1>1. /\ InPublish(h) /\ pc[h] = "publish.envelope" /\ pc[h] \notin Writing
        /\ disk \in Tables /\ mine[h] \in Locals
        /\ "publish.binding" \in Labels
    BY DEF PublishEnvelope, InPublish, Writing, IInv, TypeOK, Labels
  <1>2. /\ j \in PublishJobs /\ attempt[h] < MaxAttempts
        /\ Named(j) /\ j.space # NoSpace /\ earlier[h] \subseteq Stored(disk)
        /\ StillMember(j.from, j.space) /\ StillMember(j.to, j.space)
    BY <1>1, PublishKnows
  <1>3. CASE PublishFails(h)
    BY <1>1, <1>3, PublishFailsStep
  <1>4. CASE ~ PublishFails(h)
    <2>1. PICK e \in FreeIds(cache) :
            /\ TxWrite(h, [cache EXCEPT !.envelopes[e] = NewEnvelope(j)])
            /\ mine' = [mine EXCEPT ![h].envelope = e]
            /\ Goto(h, "publish.binding")
            /\ UNCHANGED <<clock, job, attempt, answer, earlier>>
      <3>1. /\ FreeIds(cache) # {}
            /\ TxWrite(h, [cache EXCEPT !.envelopes[id] = NewEnvelope(j)])
            /\ mine' = [mine EXCEPT ![h].envelope = id]
            /\ Goto(h, "publish.binding")
            /\ UNCHANGED <<clock, job, attempt, answer, earlier>>
        BY <1>4 DEF PublishEnvelope
      <3>2. id \in FreeIds(cache)
        BY <3>1
      <3>. QED BY <3>1, <3>2
    <2>2. cache = disk /\ disk' = disk
      BY <1>1, <2>1, FirstWrite DEF TxWrite
    <2> DEFINE u == [cache EXCEPT !.envelopes[e] = NewEnvelope(j)]
               data == [mine[h] EXCEPT !.envelope = e]
    <2>3. u \in Tables /\ Posted(disk, u, e, j) /\ u.bindings = disk.bindings
      BY <1>1, <1>2, <2>2, PostedTables
    <2>4. e \in Envelopes /\ data \in Locals /\ data.envelope = e
      BY <1>1, EnvelopeCarried DEF FreeIds
    <2>5. TxWrite(h, u) /\ cache' = u /\ Note(h, data, "publish.binding")
      BY <2>1 DEF TxWrite, Note
    <2> HIDE DEF u, data
    <2>6. /\ OwnTypes' /\ OnlyOf(h) /\ pc'[h] = "publish.binding" /\ mine'[h] = data
          /\ job'[h] = j /\ attempt'[h] = attempt[h] /\ earlier'[h] = earlier[h]
      BY <1>1, <2>4, <2>5, Noting DEF IInv
    <2>7. StillMember(j.from, j.space)' /\ StillMember(j.to, j.space)'
      BY <1>2, <2>2, <2>6 DEF StillMember
    <2>8. PublishStage(h)'
      BY <1>2, <2>2, <2>3, <2>4, <2>5, <2>6, <2>7 DEF PublishStage, InPublish
    <2>9. Knows(h)'
      BY <1>2, <2>2, <2>6, <2>8 DEF Knows, SubmitStage, AckStage, Told
    <2>10. pc'[h] \in Writing
      BY <2>6 DEF Writing
    <2>. QED BY <2>3, <2>5, <2>6, <2>9, <2>10, WriteStep
  <1>. QED BY <1>3, <1>4

\* The tables with a publication.
LEMMA BoundTables ==
  ASSUME NEW t \in Tables, NEW e \in Envelopes, NEW row \in Binding
  PROVE  LET u == [t EXCEPT !.bindings[e] = row] IN
         /\ u \in Tables /\ u.bindings = [t.bindings EXCEPT ![e] = row]
         /\ u.members = t.members /\ u.envelopes = t.envelopes /\ u.acks = t.acks
  <1> DEFINE b == [t.bindings EXCEPT ![e] = row]
             u == [members |-> t.members, envelopes |-> t.envelopes, acks |-> t.acks, bindings |-> b]
  <1>1. [t EXCEPT !.bindings[e] = row] = [t EXCEPT !.bindings = b]
    OBVIOUS
  <1>2. b \in [Envelopes -> Binding \union {NoRow}]
    BY TablesOf
  <1> HIDE DEF b
  <1>3. u \in Tables
    BY <1>2, TablesOf, TablesFrom
  <1>4. \A x : [t EXCEPT !.bindings = x] =
          [members |-> t.members, envelopes |-> t.envelopes, acks |-> t.acks, bindings |-> x]
    BY TablesOf
  <1>. QED BY <1>1, <1>3, <1>4 DEF b

\* What the indexes refuse in the file they refuse in the writer's cache.
LEMMA PublishedInCache ==
  ASSUME NEW t \in Tables, NEW u \in Tables, NEW e, NEW j \in PublishJobs, Named(j), NEW k,
         Posted(t, u, e, j), u.bindings = t.bindings, Published(t, k)
  PROVE  Published(u, k)
  <1>1. PICK f \in Stored(t) :
          /\ t.bindings[f] # NoRow /\ t.envelopes[f].from = k.from
          /\ t.bindings[f].ref = k.ref \/ t.bindings[f].payload = k.payload
    BY DEF Published, ByRef, ByPayload
  <1>2. f \in Stored(u) /\ u.envelopes[f] = t.envelopes[f]
    <2>1. f \in Envelopes /\ t.envelopes[f] # NoRow
      BY StoredRow
    <2>2. e \in Envelopes /\ t.envelopes[e] = NoRow
          /\ u.envelopes = [t.envelopes EXCEPT ![e] = NewEnvelope(j)]
      BY DEF Posted
    <2>3. u.envelopes[f] = t.envelopes[f]
      BY <2>1, <2>2, TablesOf
    <2>. QED BY <2>1, <2>3 DEF Stored
  <1>3. f \in ByRef(u, k.from, k.ref) \union ByPayload(u, k.from, k.payload)
    BY <1>1, <1>2 DEF ByRef, ByPayload
  <1>. QED BY <1>3 DEF Published

\* The INSERT of the publication, which the unique indexes let pass.
LEMMA PublishBindingStep ==
  ASSUME IInv, NEW h \in Handlers, PublishBinding(h)
  PROVE  IInv'
  <1> DEFINE j == job[h]
             e == mine[h].envelope
             row == [ref |-> j.ref, payload |-> j.payload]
             u == [cache EXCEPT !.bindings[e] = row]
  <1>1. /\ InPublish(h) /\ pc[h] = "publish.binding"
        /\ disk \in Tables /\ cache \in Tables
        /\ "publish.commit" \in Labels
    BY DEF PublishBinding, InPublish, IInv, TypeOK, Labels
  <1>2. /\ j \in PublishJobs /\ attempt[h] < MaxAttempts
        /\ Named(j) /\ j.space # NoSpace /\ earlier[h] \subseteq Stored(disk)
        /\ StillMember(j.from, j.space) /\ StillMember(j.to, j.space)
    BY <1>1, PublishKnows
  <1>3. Posted(disk, cache, e, j) /\ e \in Envelopes /\ cache.bindings = disk.bindings
    BY <1>1 DEF IInv, Knows, PublishStage, Posted
  <1>4. CASE PublishFails(h)
    BY <1>1, <1>4, PublishFailsStep
  <1>5. CASE ~Published(cache, j) /\ TxWrite(h, u) /\ Proceed(h, "publish.commit")
    <2>1. ~Published(disk, j)
      BY <1>1, <1>2, <1>3, <1>5, PublishedInCache
    <2>2. row \in Binding
      BY <1>2 DEF PublishJobs, Binding
    <2>3. /\ u \in Tables /\ u.bindings = [cache.bindings EXCEPT ![e] = row]
          /\ u.members = cache.members /\ u.envelopes = cache.envelopes /\ u.acks = cache.acks
      <3> HIDE DEF row
      <3>. QED BY <1>1, <1>3, <2>2, BoundTables
    <2>4. disk' = disk /\ cache' = u
      BY <1>5 DEF TxWrite
    <2> HIDE DEF u
    <2>5. Posted(disk, u, e, j) /\ Bound(disk, u, e, j)
      BY <1>3, <2>3 DEF Posted, Bound
    <2>6. /\ OwnTypes' /\ OnlyOf(h) /\ pc'[h] = "publish.commit" /\ mine'[h] = mine[h]
          /\ job'[h] = j /\ attempt'[h] = attempt[h] /\ earlier'[h] = earlier[h]
      BY <1>1, <1>5, Proceeding DEF IInv
    <2>7. StillMember(j.from, j.space)' /\ StillMember(j.to, j.space)'
      BY <1>2, <2>4, <2>6 DEF StillMember
    <2>8. PublishStage(h)'
      BY <1>2, <2>1, <2>4, <2>5, <2>6, <2>7 DEF PublishStage, InPublish
    <2>9. Knows(h)'
      BY <1>2, <2>4, <2>6, <2>8 DEF Knows, SubmitStage, AckStage, Told
    <2>10. pc'[h] \in Writing
      BY <2>6 DEF Writing
    <2>. QED BY <1>5, <2>3, <2>6, <2>9, <2>10, WriteStep
  <1>. QED BY <1>4, <1>5 DEF PublishBinding

\* What a publication commits.
LEMMA PublishCommits ==
  ASSUME IInv, NEW h \in Handlers, pc[h] = "publish.commit"
  PROVE  LET j == job[h]
             e == mine[h].envelope
         IN
         /\ Grows(disk, cache) /\ Sound(cache)
         /\ Posted(disk, cache, e, j) /\ Bound(disk, cache, e, j) /\ ~Published(disk, j)
         /\ j \in PublishJobs /\ Named(j) /\ e \in Envelopes
         /\ Stored(cache) = Stored(disk) \union {e} /\ cache.envelopes[e] = NewEnvelope(j)
         /\ cache.bindings[e] = [ref |-> j.ref, payload |-> j.payload]
         /\ cache.bindings[e] # NoRow
         /\ [ref |-> j.ref, payload |-> j.payload] \in Binding
         /\ earlier[h] \subseteq Stored(disk)
  <1> DEFINE j == job[h]
             e == mine[h].envelope
  <1>1. InPublish(h) /\ disk \in Tables /\ cache \in Tables /\ Sound(disk)
    BY DEF InPublish, IInv, TypeOK
  <1>2. /\ j \in PublishJobs /\ Named(j) /\ j.space # NoSpace /\ earlier[h] \subseteq Stored(disk)
        /\ Enlisted(disk, j.space, j.from) /\ Enlisted(disk, j.space, j.to)
    BY <1>1, PublishKnows DEF StillMember
  <1>3. /\ Posted(disk, cache, e, j) /\ Bound(disk, cache, e, j) /\ ~Published(disk, j)
        /\ e \in Envelopes
    BY DEF IInv, Knows, PublishStage, Posted
  <1>4. /\ Grows(disk, cache) /\ Sound(cache)
        /\ [ref |-> j.ref, payload |-> j.payload] \in Binding
        /\ cache.bindings[e] = [ref |-> j.ref, payload |-> j.payload]
        /\ cache.bindings[e] # NoRow
    BY <1>1, <1>2, <1>3, Announced
  <1>5. Stored(cache) = Stored(disk) \union {e} /\ cache.envelopes[e] = NewEnvelope(j)
    <2>1. OthersBound(disk, cache, e)
      BY <1>1, <1>3, TablesOf DEF Bound, OthersBound
    <2>. QED BY <1>1, <1>2, <1>3, <2>1, PostedGrows
  <1>. QED BY <1>2, <1>3, <1>4, <1>5

\* The commit.
LEMMA PublishCommitStep ==
  ASSUME IInv, NEW h \in Handlers, PublishCommit(h)
  PROVE  IInv'
  <1> DEFINE j == job[h]
             e == mine[h].envelope
             data == [Blank EXCEPT !.envelope = e]
  <1>1. InPublish(h) /\ pc[h] = "publish.commit" /\ "published" \in Answers
    BY DEF PublishCommit, InPublish, Answers
  <1>2. CASE PublishFails(h)
    BY <1>1, <1>2, PublishFailsStep
  <1>3. CASE TxCommit(h) /\ ReplyWith(h, "published", data)
    <2>1. /\ Grows(disk, cache) /\ Sound(cache) /\ e \in Envelopes
          /\ j \in PublishJobs /\ Named(j)
          /\ Stored(cache) = Stored(disk) \union {e} /\ cache.envelopes[e] = NewEnvelope(j)
          /\ cache.bindings[e] = [ref |-> j.ref, payload |-> j.payload]
          /\ cache.bindings[e] # NoRow /\ earlier[h] \subseteq Stored(disk)
      BY <1>1, PublishCommits
    <2>2. data \in Locals /\ data.envelope = e
      <3> HIDE DEF e
      <3>. QED BY <2>1, Carried
    <2> HIDE DEF data
    <2>3. /\ OwnTypes' /\ OnlyOf(h) /\ pc'[h] = "answered" /\ answer'[h] = "published"
          /\ job'[h] = j /\ mine'[h] = data /\ earlier'[h] = earlier[h]
      BY <1>1, <1>3, <2>2, Answering DEF IInv
    <2>4. disk' = cache
      BY <1>3 DEF TxCommit
    <2>5. AsAsked(h)'
      BY <2>1, <2>2, <2>3, <2>4, NewRow DEF AsAsked
    <2>6. Knows(h)'
      BY <2>1, <2>2, <2>3, <2>4, <2>5
         DEF Knows, SubmitStage, AckStage, PublishStage, InPublish, Told
    <2>7. pc'[h] \notin Reading
      BY <2>3 DEF Reading, Writing
    <2>. QED BY <1>3, <2>1, <2>3, <2>6, <2>7, CommitStep
  <1>. QED BY <1>2, <1>3 DEF PublishCommit

\* The invariant is inductive.
LEMMA NextIInv ==
  ASSUME IInv, [Next]_vars
  PROVE  IInv'
  <1>1. CASE UNCHANGED vars
    <2>1. disk' = disk
      BY <1>1 DEF vars
    <2>2. OwnTypes' /\ TxTypes' /\ Locks'
      BY <1>1 DEF vars, IInv, TypeOK, OwnTypes, TxTypes, Locks
    <2>3. \A q \in Handlers : Untouched(q)
      BY <1>1 DEF vars, Untouched, Own
    <2>4. Sound(disk') /\ Grows(disk, disk')
      BY <2>1, GrowsNothing DEF IInv, TypeOK
    <2>5. {} \in SUBSET Handlers
      OBVIOUS
    <2>. QED BY <2>2, <2>3, <2>4, <2>5, StepKeeps
  <1>2. CASE Tick \/ MembersChange \/ Crash
    BY <1>2, TickStep, MembersStep, CrashStep
  <1>3. ASSUME NEW h \in Handlers, Arrive(h) \/ Deliver(h)
        PROVE  IInv'
    BY <1>3, ArriveStep, DeliverStep
  <1>4. ASSUME NEW h \in Handlers, Submit(h)
        PROVE  IInv'
    BY <1>4, SubmitLookupStep, SubmitMembersStep, SubmitInsertStep DEF Submit
  <1>5. ASSUME NEW h \in Handlers, Inbox(h)
        PROVE  IInv'
    BY <1>5, InboxLookupStep, InboxMemberStep, InboxQueryStep DEF Inbox
  <1>6. ASSUME NEW h \in Handlers, Ack(h)
        PROVE  IInv'
    BY <1>6, AckReadStep, AckMemberStep, AckDecideStep, AckInsertStep, AckUpdateStep,
       AckCommitStep DEF Ack
  <1>7. ASSUME NEW h \in Handlers, Publish(h)
        PROVE  IInv'
    BY <1>7, PublishBeginStep, PublishMembersStep, PublishFindStep, PublishEnvelopeStep,
       PublishBindingStep, PublishCommitStep DEF Publish
  <1>. QED BY <1>1, <1>2, <1>3, <1>4, <1>5, <1>6, <1>7 DEF Next, Serve
-----------------------------------------------------------------------------
(***************************************************************************)
(* The mailbox                                                             *)
(***************************************************************************)

\* What the mailbox sees of the tables.
Address(row) == [space |-> row.space, from |-> row.from, to |-> row.to]

PlacedOf(t) ==
  [e \in Envelopes |-> IF e \in Stored(t) THEN {Address(t.envelopes[e])} ELSE {}]

BoundOf(t) == [e \in Envelopes |-> {t.bindings[e]} \ {NoRow}]

WaitingOf(t) == {e \in Stored(t) : t.envelopes[e].state = "queued"}

\* What a step may make of the tables t: the members change at most, an
\* envelope is sent, acknowledged or announced.
Commits(t, u) ==
  \/ u.envelopes = t.envelopes /\ u.acks = t.acks /\ u.bindings = t.bindings
  \/ \E e \in Envelopes, j \in SubmitJobs :
       Named(j) /\ Posted(t, u, e, j) /\ u.bindings = t.bindings
  \/ \E e \in Stored(t), at \in 1..MaxTime : Receipted(t, u, e, at) /\ u.envelopes = Closed(t, e)
  \/ \E e \in Envelopes, j \in PublishJobs :
       Named(j) /\ Posted(t, u, e, j) /\ Bound(t, u, e, j) /\ ~Published(t, j)

\* Only a commit changes the tables, and a change of members keeps all else.
LEMMA MembersCommits ==
  ASSUME IInv, MembersChange
  PROVE  Commits(disk, disk')
  <1>1. PICK sd \in Spaces \X Devices, standing \in Standings \ {"none"} :
          AutoWrite(NoHandler, [disk EXCEPT !.members[sd] = standing])
    BY DEF MembersChange
  <1> DEFINE u == [disk EXCEPT !.members[sd] = standing]
  <1>2. u.envelopes = disk.envelopes /\ u.acks = disk.acks /\ u.bindings = disk.bindings
    BY StandingChanged DEF IInv, TypeOK
  <1>3. disk' = u
    BY <1>1 DEF AutoWrite
  <1> HIDE DEF u
  <1>. QED BY <1>2, <1>3 DEF Commits

\* A submit.
LEMMA SubmitCommits ==
  ASSUME IInv, NEW h \in Handlers, SubmitInsert(h)
  PROVE  Commits(disk, disk')
  <1> DEFINE j == job[h]
             id == CHOOSE x \in FreeIds(disk) : TRUE
  <1>1. j \in SubmitJobs /\ Named(j) /\ disk \in Tables
    BY DEF SubmitInsert, IInv, TypeOK, Knows, SubmitStage
  <1>2. CASE Fail(h, "db_error")
    BY <1>2 DEF Fail, txVars, Commits
  <1>3. CASE ~ Fail(h, "db_error")
    <2>1. /\ FreeIds(disk) # {}
          /\ disk' = [disk EXCEPT !.envelopes[id] = NewEnvelope(j)]
      BY <1>3 DEF SubmitInsert, AutoWrite
    <2>2. id \in FreeIds(disk)
      BY <2>1
    <2> HIDE DEF id
    <2>3. Posted(disk, disk', id, j) /\ disk'.bindings = disk.bindings
      BY <1>1, <2>1, <2>2, PostedTables
    <2>4. id \in Envelopes
      BY <2>2 DEF FreeIds
    <2>. QED BY <1>1, <2>3, <2>4 DEF Commits
  <1>. QED BY <1>2, <1>3

\* Every step.
LEMMA NextCommits ==
  ASSUME IInv, [Next]_vars
  PROVE  Commits(disk, disk')
  <1>1. disk' = disk => Commits(disk, disk')
    BY DEF Commits
  <1>2. CASE UNCHANGED vars \/ Tick \/ Crash
    BY <1>1, <1>2 DEF vars, txVars, Tick, Crash, TxCrash
  <1>3. CASE MembersChange
    BY <1>3, MembersCommits
  <1>4. ASSUME NEW h \in Handlers, Arrive(h) \/ Deliver(h) \/ Inbox(h)
        PROVE  disk' = disk
    BY <1>4 DEF Arrive, Deliver, Inbox, InboxLookup, InboxMember, InboxQuery, CheckMember,
       Fail, txVars
  <1>5. ASSUME NEW h \in Handlers, Submit(h)
        PROVE  Commits(disk, disk')
    <2>1. CASE SubmitLookup(h) \/ SubmitSender(h) \/ SubmitRecipient(h)
      BY <1>1, <2>1 DEF SubmitLookup, SubmitSender, SubmitRecipient, CheckMember, Fail, txVars
    <2>. QED BY <1>5, <2>1, SubmitCommits DEF Submit
  <1>6. ASSUME NEW h \in Handlers, Ack(h)
        PROVE  Commits(disk, disk')
    <2>1. CASE AckCommit(h)
      <3>1. pc[h] = "ack.commit" /\ (disk' = disk \/ disk' = cache)
        BY <2>1 DEF AckCommit, Refuse, TxRollback, TxCommit
      <3>2. \/ cache = disk
            \/ \E e \in Stored(disk), at \in 1..MaxTime :
                 Receipted(disk, cache, e, at) /\ cache.envelopes = Closed(disk, e)
        BY <3>1, AckCommits, AckKnows
      <3>. QED BY <1>1, <3>1, <3>2 DEF Commits
    <2>2. CASE ~ AckCommit(h)
      BY <1>1, <1>6, <2>2 DEF Ack, AckRead, AckMember, AckDecide, AckInsert, AckUpdate,
         CheckMember, Fail, Refuse, TxRollback, TxWrite, txVars
    <2>. QED BY <2>1, <2>2
  <1>7. ASSUME NEW h \in Handlers, Publish(h)
        PROVE  Commits(disk, disk')
    <2>1. CASE PublishCommit(h)
      <3>1. pc[h] = "publish.commit" /\ (disk' = disk \/ disk' = cache)
        BY <2>1 DEF PublishCommit, PublishFails, Retry, Refuse, TxRollback, TxCommit
      <3>2. \E e \in Envelopes, j \in PublishJobs :
              /\ Named(j) /\ Posted(disk, cache, e, j)
              /\ Bound(disk, cache, e, j) /\ ~Published(disk, j)
        BY <3>1, PublishCommits
      <3>. QED BY <1>1, <3>1, <3>2 DEF Commits
    <2>2. CASE PublishBegin(h) \/ PublishSender(h) \/ PublishRecipient(h)
      BY <1>1, <2>2 DEF PublishBegin, PublishSender, PublishRecipient, RequireMember,
         PublishReads, PublishFails, Retry, Refuse, TxRollback, TxRead
    <2>3. CASE PublishFind(h) \/ PublishEnvelope(h) \/ PublishBinding(h)
      BY <1>1, <2>3 DEF PublishFind, PublishEnvelope, PublishBinding,
         PublishReads, PublishFails, Retry, Refuse, TxRollback, TxRead, TxWrite
    <2>. QED BY <1>7, <2>1, <2>2, <2>3 DEF Publish
  <1>. QED BY <1>1, <1>2, <1>3, <1>4, <1>5, <1>6, <1>7 DEF Next, Serve

\* A new envelope is placed and waits.
LEMMA PostedPlaced ==
  ASSUME NEW t \in Tables, NEW u \in Tables, NEW e \in Envelopes,
         NEW j \in SubmitJobs \union PublishJobs, Named(j), Posted(t, u, e, j)
  PROVE  /\ PlacedOf(t)[e] = {}
         /\ PlacedOf(u) = [PlacedOf(t) EXCEPT ![e] = {Address(j)}]
         /\ WaitingOf(u) = WaitingOf(t) \union {e}
         /\ u.acks = t.acks
         /\ Address(j) \in [space : Spaces \union {NoSpace}, from : Devices, to : Devices]
  <1>1. /\ \A f \in Envelopes \ {e} : u.envelopes[f] = t.envelopes[f]
        /\ u.envelopes[e] = NewEnvelope(j) /\ t.envelopes[e] = NoRow /\ u.acks = t.acks
    BY TablesOf DEF Posted
  <1>2. /\ NewEnvelope(j) # NoRow /\ NewEnvelope(j).state = "queued"
        /\ NewEnvelope(j).space = j.space /\ NewEnvelope(j).from = j.from
        /\ NewEnvelope(j).to = j.to
    BY NewRow
  <1>3. e \notin Stored(t) /\ Stored(u) = Stored(t) \union {e}
    BY <1>1, <1>2 DEF Stored
  <1>4. PlacedOf(u) = [PlacedOf(t) EXCEPT ![e] = {Address(j)}]
    <2>1. PlacedOf(u)[e] = {Address(j)}
      BY <1>1, <1>2, <1>3 DEF PlacedOf, Address
    <2>2. \A f \in Envelopes \ {e} : PlacedOf(u)[f] = PlacedOf(t)[f]
      BY <1>1, <1>3 DEF PlacedOf
    <2>. QED BY <2>1, <2>2 DEF PlacedOf
  <1>5. WaitingOf(u) = WaitingOf(t) \union {e}
    BY <1>1, <1>2, <1>3 DEF WaitingOf, Stored
  <1>6. Address(j) \in [space : Spaces \union {NoSpace}, from : Devices, to : Devices]
    BY DEF Address, Named
  <1>. QED BY <1>1, <1>3, <1>4, <1>5, <1>6 DEF PlacedOf

\* An acknowledged envelope waits no more, and is where it was.
LEMMA ClosedPlaced ==
  ASSUME NEW t \in Tables, NEW u \in Tables, NEW e \in Stored(t), u.envelopes = Closed(t, e)
  PROVE  PlacedOf(u) = PlacedOf(t) /\ PlacedOf(t)[e] # {} /\ WaitingOf(u) = WaitingOf(t) \ {e}
  <1>1. /\ e \in Envelopes
        /\ \A f \in Envelopes \ {e} : u.envelopes[f] = t.envelopes[f]
        /\ SameEnvelope(t.envelopes[e], u.envelopes[e])
        /\ u.envelopes[e].state = "acknowledged"
    BY ClosedRow, StoredRow
  <1>2. Stored(u) = Stored(t)
    BY <1>1, StoredRow DEF Stored, SameEnvelope
  <1>3. \A f \in Envelopes : PlacedOf(u)[f] = PlacedOf(t)[f]
    <2>1. PlacedOf(u)[e] = PlacedOf(t)[e]
      BY <1>1, <1>2 DEF PlacedOf, SameEnvelope, Address
    <2>2. \A f \in Envelopes \ {e} : PlacedOf(u)[f] = PlacedOf(t)[f]
      BY <1>1, <1>2 DEF PlacedOf
    <2>. QED BY <2>1, <2>2
  <1>4. PlacedOf(u) = PlacedOf(t)
    BY <1>3 DEF PlacedOf
  <1>5. PlacedOf(t)[e] # {}
    BY <1>1 DEF PlacedOf
  <1>6. WaitingOf(u) = WaitingOf(t) \ {e}
    BY <1>1, <1>2 DEF WaitingOf, Stored
  <1>. QED BY <1>4, <1>5, <1>6

\* A submit binds nothing, a publication its envelope, an acknowledgement
\* leaves all bound.
LEMMA BoundPlaced ==
  ASSUME NEW t \in Tables, NEW u \in Tables, NEW e \in Envelopes, NEW j \in PublishJobs,
         Bound(t, u, e, j)
  PROVE  LET row == [ref |-> j.ref, payload |-> j.payload] IN
         /\ BoundOf(u) = [BoundOf(t) EXCEPT ![e] = {row}]
         /\ row \in Binding /\ row.ref = j.ref /\ row.payload = j.payload
  <1> DEFINE row == [ref |-> j.ref, payload |-> j.payload]
  <1>1. row \in Binding /\ row # NoRow /\ row.ref = j.ref /\ row.payload = j.payload
    BY DEF PublishJobs, Binding
  <1>2. u.bindings = [t.bindings EXCEPT ![e] = row]
    BY DEF Bound
  <1> HIDE DEF row
  <1>3. u.bindings[e] = row /\ \A f \in Envelopes \ {e} : u.bindings[f] = t.bindings[f]
    BY <1>2, TablesOf
  <1>4. BoundOf(u) = [BoundOf(t) EXCEPT ![e] = {row}]
    <2>1. BoundOf(u)[e] = {row}
      BY <1>1, <1>3 DEF BoundOf
    <2>2. \A f \in Envelopes \ {e} : BoundOf(u)[f] = BoundOf(t)[f]
      BY <1>3 DEF BoundOf
    <2>. QED BY <2>1, <2>2 DEF BoundOf
  <1>. QED BY <1>1, <1>4 DEF row

\* What the mailbox of EnvelopeDelivery is.
LEMMA MailboxOf ==
  /\ Mail!mailboxVars = <<PlacedOf(disk), BoundOf(disk), WaitingOf(disk), disk.acks>>
  /\ Mail!mailboxVars' = <<PlacedOf(disk'), BoundOf(disk'), WaitingOf(disk'), disk'.acks>>
  BY DEF Mail!mailboxVars, PlacedOf, BoundOf, WaitingOf, Address, Stored

\* An envelope is put in its place.
LEMMA PlacesInMailbox ==
  ASSUME disk \in Tables, disk' \in Tables, NEW e \in Envelopes,
         NEW j \in SubmitJobs \union PublishJobs, Named(j), Posted(disk, disk', e, j)
  PROVE  Mail!Place(e)
  <1> DEFINE a == Address(j)
  <1>1. /\ PlacedOf(disk)[e] = {}
        /\ PlacedOf(disk') = [PlacedOf(disk) EXCEPT ![e] = {a}]
        /\ WaitingOf(disk') = WaitingOf(disk) \union {e}
        /\ disk'.acks = disk.acks
        /\ a \in [space : Spaces \union {NoSpace}, from : Devices, to : Devices]
    BY PostedPlaced
  <1> HIDE DEF a
  <1>2. /\ PlacedOf(disk)[e] = {}
        /\ WaitingOf(disk') = WaitingOf(disk) \union {e}
        /\ \E address \in [space : Spaces \union {NoSpace}, from : Devices, to : Devices] :
             PlacedOf(disk') = [PlacedOf(disk) EXCEPT ![e] = {address}]
        /\ disk'.acks = disk.acks
    BY <1>1
  <1>. QED BY <1>2 DEF Mail!Place, PlacedOf, WaitingOf, Address, Stored

\* A submit sends.
LEMMA SendsInMailbox ==
  ASSUME disk \in Tables, disk' \in Tables, NEW e \in Envelopes,
         NEW j \in SubmitJobs, Named(j), Posted(disk, disk', e, j),
         disk'.bindings = disk.bindings
  PROVE  Mail!Send(e)
  <1>1. Mail!Place(e)
    BY PlacesInMailbox
  <1>2. BoundOf(disk') = BoundOf(disk)
    BY DEF BoundOf
  <1>. QED BY <1>1, <1>2 DEF Mail!Send, BoundOf

\* An ack acknowledges.
LEMMA AcknowledgesInMailbox ==
  ASSUME disk \in Tables, disk' \in Tables, NEW e \in Stored(disk), NEW at \in 1..MaxTime,
         Receipted(disk, disk', e, at), disk'.envelopes = Closed(disk, e)
  PROVE  Mail!Acknowledge(e)
  <1>1. /\ PlacedOf(disk') = PlacedOf(disk) /\ PlacedOf(disk)[e] # {}
        /\ WaitingOf(disk') = WaitingOf(disk) \ {e}
    BY ClosedPlaced
  <1>2. BoundOf(disk') = BoundOf(disk)
    BY DEF Receipted, BoundOf
  <1>3. \E time \in 1..MaxTime : disk'.acks = [disk.acks EXCEPT ![e] = Append(@, time)]
    BY DEF Receipted
  <1>. QED BY <1>1, <1>2, <1>3
           DEF Mail!Acknowledge, PlacedOf, BoundOf, WaitingOf, Address, Stored

\* The KeyPackages that the sender of an envelope has published, as the
\* mailbox sees it.
PublishedBefore(t, u, e) ==
  UNION {BoundOf(t)[f] : f \in {g \in Envelopes :
           \E a \in PlacedOf(t)[g], b \in PlacedOf(u)[e] : a.from = b.from}}

\* None of them is in the way of a publication that the indexes let pass.
LEMMA NoneBefore ==
  ASSUME NEW t \in Tables, NEW u \in Tables, Sound(t), NEW e \in Envelopes,
         NEW j \in PublishJobs, Named(j), Posted(t, u, e, j), ~Published(t, j),
         NEW old \in PublishedBefore(t, u, e)
  PROVE  old.ref # j.ref /\ old.payload # j.payload
  <1>1. PICK f \in Envelopes :
          /\ \E a \in PlacedOf(t)[f], b \in PlacedOf(u)[e] : a.from = b.from
          /\ old \in BoundOf(t)[f]
    BY DEF PublishedBefore
  <1>2. old = t.bindings[f] /\ old # NoRow
    BY <1>1 DEF BoundOf
  <1>3. PlacedOf(u)[e] = {Address(j)}
    <2>1. PlacedOf(u) = [PlacedOf(t) EXCEPT ![e] = {Address(j)}]
      BY PostedPlaced
    <2>. QED BY <2>1 DEF PlacedOf
  <1>4. t.envelopes[f].from = j.from
    BY <1>1, <1>3 DEF PlacedOf, Address
  <1>. QED BY <1>2, <1>4, PublishedNew

\* A publication announces.
LEMMA AnnouncesInMailbox ==
  ASSUME disk \in Tables, disk' \in Tables, Sound(disk), NEW e \in Envelopes,
         NEW j \in PublishJobs, Named(j), Posted(disk, disk', e, j),
         Bound(disk, disk', e, j), ~Published(disk, j)
  PROVE  Mail!Announce(e)
  <1>1. Mail!Place(e)
    BY PlacesInMailbox
  <1>2. Mail!Published(e) = PublishedBefore(disk, disk', e)
    BY DEF Mail!Published, PublishedBefore, PlacedOf, BoundOf, Address, Stored
  <1>3. PICK new \in Binding :
          /\ BoundOf(disk') = [BoundOf(disk) EXCEPT ![e] = {new}]
          /\ new.ref = j.ref /\ new.payload = j.payload
    <2> DEFINE row == [ref |-> j.ref, payload |-> j.payload]
    <2>1. /\ BoundOf(disk') = [BoundOf(disk) EXCEPT ![e] = {row}]
          /\ row \in Binding /\ row.ref = j.ref /\ row.payload = j.payload
      BY BoundPlaced
    <2> HIDE DEF row
    <2>. QED BY <2>1
  <1>4. \A old \in Mail!Published(e) : old.ref # new.ref /\ old.payload # new.payload
    <2>1. \A old \in PublishedBefore(disk, disk', e) : old.ref # j.ref /\ old.payload # j.payload
      BY NoneBefore
    <2>. QED BY <1>2, <1>3, <2>1
  <1>5. \E k \in Binding :
          /\ \A old \in Mail!Published(e) : old.ref # k.ref /\ old.payload # k.payload
          /\ BoundOf(disk') = [BoundOf(disk) EXCEPT ![e] = {k}]
    BY <1>3, <1>4
  <1>. QED BY <1>1, <1>5 DEF Mail!Announce, BoundOf

\* Every step of the handlers is one of the mailbox, or none.
LEMMA NextMailbox ==
  ASSUME IInv, IInv', [Next]_vars
  PROVE  [Mail!MailboxNext]_(Mail!mailboxVars)
  <1>1. disk \in Tables /\ disk' \in Tables /\ Sound(disk) /\ Commits(disk, disk')
    BY NextCommits DEF IInv, TypeOK
  <1>2. CASE /\ disk'.envelopes = disk.envelopes /\ disk'.acks = disk.acks
             /\ disk'.bindings = disk.bindings
    <2>1. /\ PlacedOf(disk') = PlacedOf(disk) /\ BoundOf(disk') = BoundOf(disk)
          /\ WaitingOf(disk') = WaitingOf(disk)
      BY <1>2 DEF PlacedOf, BoundOf, WaitingOf, Stored
    <2>. QED BY <1>2, <2>1, MailboxOf
  <1>3. CASE \E e \in Envelopes, j \in SubmitJobs :
               /\ Named(j) /\ Posted(disk, disk', e, j)
               /\ disk'.bindings = disk.bindings
    <2>1. \E e \in Envelopes : Mail!Send(e)
      BY <1>1, <1>3, SendsInMailbox
    <2>. QED BY <2>1 DEF Mail!MailboxNext
  <1>4. CASE \E e \in Stored(disk), at \in 1..MaxTime :
               Receipted(disk, disk', e, at) /\ disk'.envelopes = Closed(disk, e)
    <2>1. \E e \in Envelopes : Mail!Acknowledge(e)
      BY <1>1, <1>4, AcknowledgesInMailbox DEF Stored
    <2>. QED BY <2>1 DEF Mail!MailboxNext
  <1>5. CASE \E e \in Envelopes, j \in PublishJobs :
               /\ Named(j) /\ Posted(disk, disk', e, j)
               /\ Bound(disk, disk', e, j) /\ ~Published(disk, j)
    <2>1. \E e \in Envelopes : Mail!Announce(e)
      BY <1>1, <1>5, AnnouncesInMailbox
    <2>. QED BY <2>1 DEF Mail!MailboxNext
  <1>. QED BY <1>1, <1>2, <1>3, <1>4, <1>5 DEF Commits

\* The empty tables are the empty mailbox.
LEMMA InitMailbox == Init => Mail!MailboxInit
  <1> SUFFICES ASSUME Init PROVE Mail!MailboxInit
    OBVIOUS
  <1>1. Stored(disk) = {} /\ \A e \in Envelopes : disk.bindings[e] = NoRow
    BY DEF Init, Stored
  <1>2. /\ PlacedOf(disk) = [e \in Envelopes |-> {}] /\ BoundOf(disk) = [e \in Envelopes |-> {}]
        /\ WaitingOf(disk) = {} /\ disk.acks = [e \in Envelopes |-> <<>>]
    BY <1>1 DEF Init, PlacedOf, BoundOf, WaitingOf
  <1>. QED BY <1>2 DEF Mail!MailboxInit, PlacedOf, BoundOf, WaitingOf, Address, Stored
-----------------------------------------------------------------------------
(***************************************************************************)
(* Theorems                                                                *)
(***************************************************************************)

\* The inductive invariant.
THEOREM SpecIInv == Spec => []IInv
  <1>1. Init => IInv
    BY InitIInv
  <1>2. IInv /\ [Next]_vars => IInv'
    BY NextIInv
  <1>. QED BY <1>1, <1>2, PTL DEF Spec

\* Every variable keeps to its type.
THEOREM SpecTypeOK == Spec => []TypeOK
  <1>1. IInv => TypeOK
    BY DEF IInv
  <1>. QED BY <1>1, SpecIInv, PTL

\* An envelope is acknowledged exactly when an acknowledgement of it is on
\* record, wherever an ack fails or is killed and however many race.
THEOREM SpecAcksMatchState == Spec => []AcksMatchState
  <1>1. IInv => AcksMatchState
    BY DEF IInv, Sound, Acked, AcksMatchState
  <1>. QED BY <1>1, SpecIInv, PTL

\* What a client was told is on disk, and stays there.
THEOREM SpecAnswersAreDurable == Spec => []AnswersAreDurable
  <1>1. ASSUME IInv, NEW h \in Handlers, pc[h] = "answered"
        PROVE  LET j == job[h]
                   told == disk.envelopes[mine[h].envelope]
                   acked == disk.acks[j.envelope]
               IN
               /\ answer[h] = "queued" =>
                    /\ mine[h].envelope \in Stored(disk)
                    /\ <<told.space, told.from, told.to>> = <<j.space, j.from, j.to>>
               /\ answer[h] = "acknowledged" =>
                    /\ disk.envelopes[j.envelope].state = "acknowledged"
                    /\ \E n \in DOMAIN acked : acked[n] = mine[h].at
               /\ answer[h] \in {"published", "already_published"} =>
                    /\ disk.bindings[mine[h].envelope] = [ref |-> j.ref, payload |-> j.payload]
                    /\ <<told.space, told.from, told.to>> = <<j.space, j.from, j.to>>
    <2>1. Told(h) /\ Acked(disk)
      BY <1>1 DEF IInv, Knows, Sound
    <2>2. answer[h] = "acknowledged" =>
            /\ disk.envelopes[job[h].envelope].state = "acknowledged"
            /\ \E n \in DOMAIN disk.acks[job[h].envelope] :
                 disk.acks[job[h].envelope][n] = mine[h].at
      <3>1. answer[h] = "acknowledged" =>
              /\ job[h].envelope \in Envelopes
              /\ \E n \in DOMAIN disk.acks[job[h].envelope] :
                   disk.acks[job[h].envelope][n] = mine[h].at
        BY <1>1, <2>1 DEF Told, Stored
      <3>2. answer[h] = "acknowledged" => disk.acks[job[h].envelope] # <<>>
        BY <3>1
      <3>. QED BY <2>1, <3>1, <3>2 DEF Acked
    <2>. QED BY <1>1, <2>1, <2>2 DEF Told, AsAsked
  <1>2. IInv => AnswersAreDurable
    BY <1>1 DEF AnswersAreDurable
  <1>. QED BY <1>2, SpecIInv, PTL

\* A KeyPackage is published at most once by its sender, by whatever retries
\* and races, and no publication leaves an envelope without its record.
THEOREM SpecPublishedOnce == Spec => []PublishedOnce
  <1>1. IInv => PublishedOnce
    BY DEF IInv, Sound, Paired, Once, Stored, PublishedOnce
  <1>. QED BY <1>1, SpecIInv, PTL

\* A relay-space inbox overlooks no envelope.
THEOREM SpecScopedInboxIsComplete == Spec => []ScopedInboxIsComplete
  <1>1. IInv => ScopedInboxIsComplete
    BY DEF IInv, Knows, Told, ScopedInboxIsComplete
  <1>. QED BY <1>1, SpecIInv, PTL

\* An envelope of a relay space is only ever between devices that were made
\* members of it, though its checks and its INSERT are apart.
THEOREM SpecSpaceEnvelopesAreInternal == Spec => []SpaceEnvelopesAreInternal
  <1>1. IInv => SpaceEnvelopesAreInternal
    BY DEF IInv, Sound, Internal, Enlisted, SpaceEnvelopesAreInternal
  <1>. QED BY <1>1, SpecIInv, PTL

\* With SQLite's read locks, both devices are active members still when a
\* publication between them is committed.
THEOREM SpecPublishedBetweenActive ==
  ASSUME ReadLocks
  PROVE  Spec => PublishedBetweenActive
  <1> DEFINE A ==
        \A h \in Handlers : pc[h] = "publish.commit" /\ answer'[h] = "published" =>
          \A d \in {job[h].from, job[h].to} : ActiveMember(disk, job[h].space, d)
  <1>1. IInv => A
    <2> SUFFICES ASSUME IInv, NEW h \in Handlers, pc[h] = "publish.commit"
                 PROVE  \A d \in {job[h].from, job[h].to} : ActiveMember(disk, job[h].space, d)
      OBVIOUS
    <2>1. StillMember(job[h].from, job[h].space) /\ StillMember(job[h].to, job[h].space)
      BY PublishKnows DEF InPublish
    <2>. QED BY <2>1 DEF StillMember
  <1>2. IInv /\ [Next]_vars => [A]_vars
    BY <1>1
  <1> HIDE DEF A
  <1>3. Spec => [][A]_vars
    BY <1>2, SpecIInv, PTL DEF Spec
  <1>. QED BY <1>3 DEF A, PublishedBetweenActive

\* Envelope delivery implements the mailbox: no envelope ever vanishes, moves
\* or waits again, and each commit is all of one step of it.
THEOREM SpecRefinesMailbox == Spec => RefinesMailbox
  <1>1. Init => Mail!MailboxInit
    BY InitMailbox
  <1>2. IInv /\ IInv' /\ [Next]_vars => [Mail!MailboxNext]_(Mail!mailboxVars)
    BY NextMailbox
  <1>. QED BY <1>1, <1>2, SpecIInv, PTL DEF Spec, RefinesMailbox, Mail!MailboxSpec
=============================================================================
