--------------------------- MODULE EnvelopeDelivery ---------------------------
(***************************************************************************)
(* Envelopes: how they are queued, listed and acknowledged, inside a relay *)
(* space and outside any, and how a KeyPackage is published as one         *)
(*   submit    POST /v0/envelopes and /v0/relay-spaces/{id}/envelopes      *)
(*   inbox     GET  .../devices/{id}/envelopes, of both kinds              *)
(*   ack       POST .../envelopes/{id}/ack, of both kinds                  *)
(*   publish   POST /v0/relay-spaces/{id}/keypackage-publications          *)
(* served by concurrent handlers over SqliteTx, while the requests of      *)
(* RelaySpaceMembership change who is a member.  A job whose space is      *)
(* NoSpace came by the route outside any relay space.                      *)
(*                                                                         *)
(* disk and cache are records [members, envelopes, acks, bindings].  A     *)
(* statement can always fail: it meets a lock of these handlers or of      *)
(* those that change the members (SQLITE_BUSY), or the disk errs.          *)
(***************************************************************************)
EXTENDS SqliteTx, Integers, Sequences

CONSTANTS
  Spaces, Devices,
  Stranger,     \* a device or space that does not exist
  NoSpace,      \* relay_space_id NULL
  Envelopes,    \* the uuids that envelopes get
  Refs,         \* key_package_ref
  Payloads,     \* payload_sha256
  NoRow,        \* an absent row
  MaxTime,      \* bound on the clock, in seconds
  MaxAttempts,  \* 30 in the code
  Jobs          \* the requests that clients may send

Standings == {"none", "active", "disabled", "left"}

\* via is the kind of request that inserted the row, not a column.
EnvelopeRow == [space : Spaces \union {NoSpace}, from : Devices, to : Devices,
                state : {"queued", "acknowledged"}, via : {"submit", "publish"}]

\* The other columns of keypackage_publications repeat those of the envelope.
Binding == [ref : Refs, payload : Payloads]

\* acks are the acknowledged_at of an envelope's rows, in order of insertion.
Tables == [members : [Spaces \X Devices -> Standings],
           envelopes : [Envelopes -> EnvelopeRow \union {NoRow}],
           acks : [Envelopes -> Seq(1..MaxTime)],
           bindings : [Envelopes -> Binding \union {NoRow}]]

SomeSpace == Spaces \union {NoSpace, Stranger}
SomeDevice == Devices \union {Stranger}
SubmitJobs == [op : {"submit"}, space : SomeSpace, from : SomeDevice, to : SomeDevice]
InboxJobs == [op : {"inbox"}, space : SomeSpace, device : SomeDevice]
AckJobs == [op : {"ack"}, space : SomeSpace, envelope : Envelopes, device : SomeDevice]
PublishJobs == [op : {"publish"}, space : Spaces \union {Stranger}, from : SomeDevice,
                to : SomeDevice, ref : Refs, payload : Payloads]

ASSUME DeliveryAssumption ==
  /\ NoSpace \notin Spaces /\ Stranger \notin Spaces \union Devices \union {NoSpace}
  /\ NoRow \notin EnvelopeRow \union Binding \union Envelopes
  /\ MaxTime \in Nat \ {0} /\ MaxAttempts \in Nat \ {0}
  /\ IsFiniteSet(Envelopes)
  /\ Jobs \subseteq SubmitJobs \union InboxJobs \union AckJobs \union PublishJobs

VARIABLES
  clock,    \* db.NowUTC(), shared by all
  pc,       \* where each handler is
  job,      \* the request it serves
  attempt,  \* completed rounds of its retry loop (publish)
  mine,     \* its locals, and what its answer carries
  answer,   \* the code of its answer
  earlier   \* history: the envelopes that existed when its request (inbox) arrived

local == <<pc, job, attempt, mine, answer, earlier>>
vars == <<disk, cache, readers, writer, clock, pc, job, attempt, mine, answer, earlier>>

\* first and done are what an ack has read: the earliest acknowledged_at (0
\* for none), and whether the envelope is acknowledged already; at is the
\* acknowledged_at it writes or answers, list and envelope what others answer.
Blank == [first |-> 0, done |-> FALSE, at |-> 0, list |-> {}, envelope |-> NoRow]

Init ==
  /\ disk = [members |-> [sd \in Spaces \X Devices |-> "none"],
             envelopes |-> [e \in Envelopes |-> NoRow],
             acks |-> [e \in Envelopes |-> <<>>],
             bindings |-> [e \in Envelopes |-> NoRow]]
  /\ cache = disk
  /\ readers = {}
  /\ writer = NoHandler
  /\ clock = 1
  /\ pc = [h \in Handlers |-> "idle"]
  /\ job = [h \in Handlers |-> NoRow]
  /\ attempt = [h \in Handlers |-> 0]
  /\ mine = [h \in Handlers |-> Blank]
  /\ answer = [h \in Handlers |-> "none"]
  /\ earlier = [h \in Handlers |-> {}]

-----------------------------------------------------------------------------
\* Helpers

Stored(tables) == {e \in Envelopes : tables.envelopes[e] # NoRow}
FreeIds(tables) == Envelopes \ Stored(tables)

\* IsActiveRelaySpaceDeviceMember.  A routing member in state "active" never
\* has a disabled_at (RelaySpaceMembership), so the state tells.
ActiveMember(tables, s, d) == tables.members[<<s, d>>] = "active"

\* What an inbox lists.
QueuedFor(tables, s, d) ==
  {e \in Stored(tables) : /\ tables.envelopes[e].space = s
                          /\ tables.envelopes[e].to = d
                          /\ tables.envelopes[e].state = "queued"}

\* ORDER BY acknowledged_at ASC LIMIT 1
Earliest(times) ==
  IF times = <<>> THEN 0
  ELSE CHOOSE t \in {times[n] : n \in DOMAIN times} : \A n \in DOMAIN times : t <= times[n]

\* The publications of a sender by KeyPackage reference and by payload hash.
ByRef(tables, from, ref) ==
  {e \in Stored(tables) : /\ tables.bindings[e] # NoRow
                          /\ tables.envelopes[e].from = from
                          /\ tables.bindings[e].ref = ref}
ByPayload(tables, from, payload) ==
  {e \in Stored(tables) : /\ tables.bindings[e] # NoRow
                          /\ tables.envelopes[e].from = from
                          /\ tables.bindings[e].payload = payload}

Goto(h, label) == pc' = [pc EXCEPT ![h] = label]

ReplyWith(h, a, data) ==
  /\ Goto(h, "answered")
  /\ answer' = [answer EXCEPT ![h] = a]
  /\ mine' = [mine EXCEPT ![h] = data]
  /\ UNCHANGED <<clock, job, attempt, earlier>>

Reply(h, a) == ReplyWith(h, a, Blank)

\* Outside a transaction, and from inside one: the deferred Rollback runs.
Fail(h, a) == UNCHANGED txVars /\ Reply(h, a)
Refuse(h, a) == TxRollback(h) /\ Reply(h, a)

Proceed(h, label) ==
  /\ Goto(h, label)
  /\ UNCHANGED <<clock, job, attempt, mine, answer, earlier>>

\* One more round of the loop in PublishRelaySpaceKeyPackage, or its end.
Retry(h) ==
  /\ TxRollback(h)
  /\ attempt' = [attempt EXCEPT ![h] = @ + 1]
  /\ IF attempt[h] + 1 < MaxAttempts
     THEN Goto(h, "publish") /\ UNCHANGED answer
     ELSE Goto(h, "answered") /\ answer' = [answer EXCEPT ![h] = "contended"]
  /\ mine' = [mine EXCEPT ![h] = Blank]
  /\ UNCHANGED <<clock, job, earlier>>

\* A statement of a publication fails: a lock or a unique index asks for one
\* more round, anything else ends the loop at once.
PublishFails(h) == Retry(h) \/ Refuse(h, "db_error")

-----------------------------------------------------------------------------
\* The world around the handlers

Tick ==
  /\ clock < MaxTime
  /\ clock' = clock + 1
  /\ UNCHANGED txVars /\ UNCHANGED local

\* A commit of one of the requests of RelaySpaceMembership.
MembersChange ==
  /\ \E sd \in Spaces \X Devices, standing \in Standings \ {"none"} :
       /\ disk.members[sd] \notin {"left", standing}
       /\ AutoWrite(NoHandler, [disk EXCEPT !.members[sd] = standing])
  /\ UNCHANGED clock /\ UNCHANGED local

\* Bound: a request that inserts arrives only while every handler finds an id.
Arrive(h) ==
  /\ pc[h] = "idle"
  /\ \E j \in Jobs :
       /\ j.op \in {"submit", "publish"} =>
            Cardinality(FreeIds(cache)) >= Cardinality(Handlers)
       /\ job' = [job EXCEPT ![h] = j]
       /\ Goto(h, j.op)
       /\ earlier' = [earlier EXCEPT ![h] = IF j.op = "inbox" THEN Stored(disk) ELSE {}]
  /\ UNCHANGED txVars
  /\ UNCHANGED <<clock, attempt, mine, answer>>

Forget(hs) ==
  /\ pc' = [h \in Handlers |-> IF h \in hs THEN "idle" ELSE pc[h]]
  /\ job' = [h \in Handlers |-> IF h \in hs THEN NoRow ELSE job[h]]
  /\ attempt' = [h \in Handlers |-> IF h \in hs THEN 0 ELSE attempt[h]]
  /\ mine' = [h \in Handlers |-> IF h \in hs THEN Blank ELSE mine[h]]
  /\ answer' = [h \in Handlers |-> IF h \in hs THEN "none" ELSE answer[h]]
  /\ earlier' = [h \in Handlers |-> IF h \in hs THEN {} ELSE earlier[h]]
  /\ UNCHANGED clock

\* The response is written, or the client is gone: the handler is free again.
Deliver(h) == pc[h] = "answered" /\ Forget({h}) /\ UNCHANGED txVars

\* The process is killed and started again on the same file.
Crash == (\E h \in Handlers : pc[h] # "idle") /\ Forget(Handlers) /\ TxCrash

-----------------------------------------------------------------------------
\* submitEnvelope and submitRelaySpaceEnvelope

\* GetRelaySpace, then deviceExists twice.  Spaces and devices never go, but
\* deviceExists takes a row that it cannot read for one that is not there.
SubmitLookup(h) ==
  LET j == job[h] IN
  /\ pc[h] = "submit"
  /\ \/ j.space # NoSpace /\ Fail(h, "db_error")
     \/ j.space = Stranger /\ Fail(h, "relay_space_not_found")
     \/ j.space # Stranger /\ Fail(h, "sender_device_not_found")
     \/ j.space # Stranger /\ j.from # Stranger /\ Fail(h, "recipient_device_not_found")
     \/ /\ Stranger \notin {j.space, j.from, j.to}
        /\ Proceed(h, IF j.space = NoSpace THEN "submit.insert" ELSE "submit.sender")
        /\ UNCHANGED txVars

\* A check of membership on its own connection; true only while it is made.
CheckMember(h, d, refusal, next) ==
  \/ Fail(h, "db_error")
  \/ ~ActiveMember(disk, job[h].space, d) /\ Fail(h, refusal)
  \/ /\ ActiveMember(disk, job[h].space, d)
     /\ Proceed(h, next)
     /\ UNCHANGED txVars

\* Fault: only the recipient is looked up.
SubmitSender_Unchecked(h) ==
  /\ pc[h] = "submit.sender"
  /\ Proceed(h, "submit.recipient")
  /\ UNCHANGED txVars

SubmitSender(h) ==
  /\ pc[h] = "submit.sender"
  /\ CheckMember(h, job[h].from, "sender_not_relay_member", "submit.recipient")

SubmitRecipient(h) ==
  /\ pc[h] = "submit.recipient"
  /\ CheckMember(h, job[h].to, "recipient_not_relay_member", "submit.insert")

NewEnvelope(j) ==
  [space |-> j.space, from |-> j.from, to |-> j.to, state |-> "queued", via |-> j.op]

SubmitInsert(h) ==
  LET e == CHOOSE id \in FreeIds(disk) : TRUE IN
  /\ pc[h] = "submit.insert"
  /\ \/ Fail(h, "db_error")
     \/ /\ FreeIds(disk) # {}
        /\ AutoWrite(h, [disk EXCEPT !.envelopes[e] = NewEnvelope(job[h])])
        /\ ReplyWith(h, "queued", [Blank EXCEPT !.envelope = e])

-----------------------------------------------------------------------------
\* deviceEnvelopes and relaySpaceDeviceEnvelopes

InboxLookup(h) ==
  LET j == job[h] IN
  /\ pc[h] = "inbox"
  /\ \/ j.space # NoSpace /\ Fail(h, "db_error")
     \/ j.space = Stranger /\ Fail(h, "relay_space_not_found")
     \/ j.space # Stranger /\ Fail(h, "device_not_found")
     \/ /\ Stranger \notin {j.space, j.device}
        /\ Proceed(h, IF j.space = NoSpace THEN "inbox.query" ELSE "inbox.member")
        /\ UNCHANGED txVars

InboxMember(h) ==
  /\ pc[h] = "inbox.member"
  /\ CheckMember(h, job[h].device, "recipient_not_relay_member", "inbox.query")

\* What a loop over the rows may have when it ends.  The first row comes with
\* Query, whose error is looked at.
Fetched(all) == {list \in SUBSET all : list = {} => all = {}}

\* Fault: neither route looks at rows.Err().
InboxQuery_NoRowsErr(h) ==
  LET all == QueuedFor(disk, job[h].space, job[h].device) IN
  /\ pc[h] = "inbox.query"
  /\ UNCHANGED txVars
  /\ \/ Reply(h, "db_error")
     \/ \E list \in Fetched(all) : ReplyWith(h, "listed", [Blank EXCEPT !.list = list])

\* The SELECT and the loop over its rows.  A row that cannot be fetched ends
\* the loop; only relaySpaceDeviceEnvelopes asks rows.Err() why it ended.
InboxQuery(h) ==
  LET all == QueuedFor(disk, job[h].space, job[h].device) IN
  /\ pc[h] = "inbox.query"
  /\ \/ Fail(h, "db_error")
     \/ /\ \E list \in (IF job[h].space = NoSpace THEN Fetched(all) ELSE {all}) :
             ReplyWith(h, "listed", [Blank EXCEPT !.list = list])
        /\ UNCHANGED txVars

-----------------------------------------------------------------------------
\* ackEnvelope and ackRelaySpaceEnvelope

\* The route outside any space takes an envelope of whatever space.
Readable(row, s) == row # NoRow /\ (s = NoSpace \/ row.space = s)

Acknowledged(h) == ReplyWith(h, "acknowledged", [Blank EXCEPT !.at = mine[h].first])

\* The envelope and its first acknowledgement, read outside the transaction.
AckRead(h) ==
  LET j == job[h]
      row == disk.envelopes[j.envelope]
      first == Earliest(disk.acks[j.envelope])
  IN
  /\ pc[h] = "ack"
  /\ UNCHANGED txVars
  /\ \/ Reply(h, "db_error")
     \/ j.space = Stranger /\ Reply(h, "relay_space_not_found")
     \/ j.space # Stranger /\ ~Readable(row, j.space) /\ Reply(h, "envelope_not_found")
     \/ /\ Readable(row, j.space)
        /\ IF row.to # j.device
           THEN Reply(h, "recipient_mismatch")
           ELSE /\ mine' = [mine EXCEPT ![h] =
                     [Blank EXCEPT !.first = first,
                                   !.done = row.state = "acknowledged" /\ first # 0]]
                /\ Goto(h, IF j.space = NoSpace THEN "ack.decide" ELSE "ack.member")
                /\ UNCHANGED <<clock, job, attempt, answer, earlier>>

AckMember(h) ==
  /\ pc[h] = "ack.member"
  /\ CheckMember(h, job[h].device, "recipient_not_relay_member", "ack.decide")

\* Fault: the time of the acknowledgement is never taken.
AckDecide_NoTime(h) ==
  /\ pc[h] = "ack.decide"
  /\ UNCHANGED txVars
  /\ IF mine[h].done
     THEN Acknowledged(h)
     ELSE /\ mine' = [mine EXCEPT ![h].at = mine[h].first]
          /\ Goto(h, "ack.insert")
          /\ UNCHANGED <<clock, job, attempt, answer, earlier>>

\* Done already, or now is the time to write.
AckDecide(h) ==
  /\ pc[h] = "ack.decide"
  /\ UNCHANGED txVars
  /\ IF mine[h].done
     THEN Acknowledged(h)
     ELSE /\ mine' = [mine EXCEPT ![h].at = IF mine[h].first = 0 THEN clock ELSE mine[h].first]
          /\ Goto(h, "ack.insert")
          /\ UNCHANGED <<clock, job, attempt, answer, earlier>>

\* Fault: the acknowledgement is inserted before the transaction begins.
AckInsert_OnItsOwn(h) ==
  LET e == job[h].envelope IN
  /\ pc[h] = "ack.insert"
  /\ \/ Refuse(h, "db_error")
     \/ AutoWrite(h, [disk EXCEPT !.acks[e] = Append(@, mine[h].at)]) /\ Proceed(h, "ack.update")

\* Fault: an INSERT OR REPLACE.
AckInsert_Replaces(h) ==
  LET e == job[h].envelope IN
  /\ pc[h] = "ack.insert"
  /\ \/ Refuse(h, "db_error")
     \/ /\ TxWrite(h, [cache EXCEPT !.acks[e] = <<mine[h].at>>])
        /\ Proceed(h, "ack.update")

\* Begin, and the INSERT unless a row was there.
AckInsert(h) ==
  LET e == job[h].envelope IN
  /\ pc[h] = "ack.insert"
  /\ \/ Refuse(h, "db_error")
     \/ /\ TxWrite(h, IF mine[h].first = 0
                      THEN [cache EXCEPT !.acks[e] = Append(@, mine[h].at)] ELSE cache)
        /\ Proceed(h, "ack.update")

\* The space of the WHERE clause was compared when the envelope was read, and
\* an envelope never changes it.
AckUpdate(h) ==
  LET e == job[h].envelope IN
  /\ pc[h] = "ack.update"
  /\ \/ Refuse(h, "db_error")
     \/ /\ TxWrite(h, [cache EXCEPT !.envelopes[e].state = "acknowledged"])
        /\ Proceed(h, "ack.commit")

\* Fault: the error of the commit is ignored.
AckCommit_Unchecked(h) ==
  /\ pc[h] = "ack.commit"
  /\ TxRollback(h) \/ TxCommit(h)
  /\ ReplyWith(h, "acknowledged", [Blank EXCEPT !.at = mine[h].at])

AckCommit(h) ==
  /\ pc[h] = "ack.commit"
  /\ \/ Refuse(h, "db_error")
     \/ TxCommit(h) /\ ReplyWith(h, "acknowledged", [Blank EXCEPT !.at = mine[h].at])

-----------------------------------------------------------------------------
\* publishRelaySpaceKeyPackageOnce: one transaction, reads and writes

\* Fault: the reads go through the pool and not through the transaction.
PublishReads_OutsideTx(h) == UNCHANGED txVars

PublishReads(h) == TxRead(h)

PublishBegin(h) ==
  LET j == job[h] IN
  /\ pc[h] = "publish"
  /\ \/ PublishFails(h)
     \/ j.space = Stranger /\ Refuse(h, "relay_space_not_found")
     \/ j.space # Stranger /\ j.from = Stranger /\ Refuse(h, "sender_device_not_found")
     \/ /\ j.space # Stranger /\ j.from # Stranger /\ j.to = Stranger
        /\ Refuse(h, "recipient_device_not_found")
     \/ /\ Stranger \notin {j.space, j.from, j.to}
        /\ PublishReads(h)
        /\ Proceed(h, "publish.sender")

RequireMember(h, d, refusal, next) ==
  \/ PublishFails(h)
  \/ ~ActiveMember(disk, job[h].space, d) /\ Refuse(h, refusal)
  \/ ActiveMember(disk, job[h].space, d) /\ PublishReads(h) /\ Proceed(h, next)

PublishSender(h) ==
  /\ pc[h] = "publish.sender"
  /\ RequireMember(h, job[h].from, "sender_not_relay_member", "publish.recipient")

PublishRecipient(h) ==
  /\ pc[h] = "publish.recipient"
  /\ RequireMember(h, job[h].to, "recipient_not_relay_member", "publish.find")

\* Fault: the destination of the earlier publication goes unchecked.
ReplayError_AnyDestination(j, e) ==
  IF disk.bindings[e] # [ref |-> j.ref, payload |-> j.payload] THEN "identity_conflict"
  ELSE "ok"

\* Whether an earlier publication is the same one, or in the way.
ReplayError(j, e) ==
  IF disk.bindings[e] # [ref |-> j.ref, payload |-> j.payload] THEN "identity_conflict"
  ELSE IF disk.envelopes[e].space # j.space \/ disk.envelopes[e].to # j.to
       THEN "reuse_conflict"
  ELSE "ok"

\* Look for an earlier publication, by reference and by payload.  Two
\* different ones conflict in themselves, as each differs from the request.
PublishFind(h) ==
  LET j == job[h]
      found == ByRef(disk, j.from, j.ref) \union ByPayload(disk, j.from, j.payload)
  IN
  /\ pc[h] = "publish.find"
  /\ \/ PublishFails(h)
     \/ \E e \in found :
          LET bad == ReplayError(j, e) IN
          \/ bad # "ok" /\ Refuse(h, bad)
          \/ /\ bad = "ok"
             /\ TxRollback(h)
             /\ ReplyWith(h, "already_published", [Blank EXCEPT !.envelope = e])
     \/ found = {} /\ PublishReads(h) /\ Proceed(h, "publish.envelope")

\* Fault: the envelope is inserted on its own.
PublishEnvelope_OnItsOwn(h) ==
  LET e == CHOOSE id \in FreeIds(disk) : TRUE IN
  /\ pc[h] = "publish.envelope"
  /\ \/ Retry(h)
     \/ /\ AutoWrite(h, [disk EXCEPT !.envelopes[e] = NewEnvelope(job[h])])
        /\ mine' = [mine EXCEPT ![h].envelope = e]
        /\ Goto(h, "publish.binding")
        /\ UNCHANGED <<clock, job, attempt, answer, earlier>>

PublishEnvelope(h) ==
  LET e == CHOOSE id \in FreeIds(cache) : TRUE IN
  /\ pc[h] = "publish.envelope"
  /\ \/ PublishFails(h)
     \/ /\ FreeIds(cache) # {}
        /\ TxWrite(h, [cache EXCEPT !.envelopes[e] = NewEnvelope(job[h])])
        /\ mine' = [mine EXCEPT ![h].envelope = e]
        /\ Goto(h, "publish.binding")
        /\ UNCHANGED <<clock, job, attempt, answer, earlier>>

\* Fault: a publication without unique indexes.
Published_NoIndex(tables, j) == FALSE

\* What the two unique indexes of keypackage_publications refuse.
Published(tables, j) ==
  ByRef(tables, j.from, j.ref) \union ByPayload(tables, j.from, j.payload) # {}

PublishBinding(h) ==
  LET j == job[h]
      row == [ref |-> j.ref, payload |-> j.payload]
  IN
  /\ pc[h] = "publish.binding"
  /\ \/ PublishFails(h)
     \/ /\ ~Published(cache, j)
        /\ TxWrite(h, [cache EXCEPT !.bindings[mine[h].envelope] = row])
        /\ Proceed(h, "publish.commit")

PublishCommit(h) ==
  /\ pc[h] = "publish.commit"
  /\ \/ PublishFails(h)
     \/ TxCommit(h) /\ ReplyWith(h, "published", [Blank EXCEPT !.envelope = mine[h].envelope])

-----------------------------------------------------------------------------
Submit(h) == SubmitLookup(h) \/ SubmitSender(h) \/ SubmitRecipient(h) \/ SubmitInsert(h)
Inbox(h) == InboxLookup(h) \/ InboxMember(h) \/ InboxQuery(h)
Ack(h) == AckRead(h) \/ AckMember(h) \/ AckDecide(h) \/ AckInsert(h) \/ AckUpdate(h) \/ AckCommit(h)
Publish(h) ==
  \/ PublishBegin(h) \/ PublishSender(h) \/ PublishRecipient(h) \/ PublishFind(h)
  \/ PublishEnvelope(h) \/ PublishBinding(h) \/ PublishCommit(h)

Serve(h) == Submit(h) \/ Inbox(h) \/ Ack(h) \/ Publish(h)

Next == Tick \/ MembersChange \/ Crash \/ \E h \in Handlers : Arrive(h) \/ Serve(h) \/ Deliver(h)

Spec == Init /\ [][Next]_vars

-----------------------------------------------------------------------------
\* Properties

Labels ==
  {"idle", "answered",
   "submit", "submit.sender", "submit.recipient", "submit.insert",
   "inbox", "inbox.member", "inbox.query",
   "ack", "ack.member", "ack.decide", "ack.insert", "ack.update", "ack.commit",
   "publish", "publish.sender", "publish.recipient", "publish.find", "publish.envelope",
   "publish.binding", "publish.commit"}

Answers ==
  {"none", "queued", "listed", "acknowledged", "published", "already_published", "contended",
   "db_error", "relay_space_not_found", "sender_device_not_found", "recipient_device_not_found",
   "device_not_found", "envelope_not_found", "recipient_mismatch", "sender_not_relay_member",
   "recipient_not_relay_member", "identity_conflict", "reuse_conflict"}

Locals == [first : 0..MaxTime, done : BOOLEAN, at : 0..MaxTime, list : SUBSET Envelopes,
           envelope : Envelopes \union {NoRow}]

TypeOK ==
  /\ disk \in Tables /\ cache \in Tables
  /\ readers \subseteq Handlers
  /\ writer \in Handlers \union {NoHandler}
  /\ clock \in 1..MaxTime
  /\ pc \in [Handlers -> Labels]
  /\ job \in [Handlers -> Jobs \union {NoRow}]
  /\ attempt \in [Handlers -> 0..MaxAttempts]
  /\ mine \in [Handlers -> Locals]
  /\ answer \in [Handlers -> Answers]
  /\ earlier \in [Handlers -> SUBSET Envelopes]

\* An envelope is acknowledged exactly when an acknowledgement of it is on
\* record, whichever of the two writes of an ack failed or was cut off by a
\* crash, and however many acks race.
AcksMatchState ==
  \A e \in Envelopes :
    disk.acks[e] # <<>> <=> e \in Stored(disk) /\ disk.envelopes[e].state = "acknowledged"

\* What a client was told is on disk and stays there, across retries and a
\* crash: the queued envelope, the acknowledgement at the reported time, the
\* publication bound to this very reference, payload, space and recipient.
AnswersAreDurable ==
  \A h \in Handlers : pc[h] = "answered" =>
    LET j == job[h]
        told == disk.envelopes[mine[h].envelope]
        acked == disk.acks[j.envelope]
    IN
    /\ answer[h] = "queued" =>
         mine[h].envelope \in Stored(disk) /\ <<told.space, told.from, told.to>> = <<j.space, j.from, j.to>>
    /\ answer[h] = "acknowledged" =>
         /\ disk.envelopes[j.envelope].state = "acknowledged"
         /\ \E n \in DOMAIN acked : acked[n] = mine[h].at
    /\ answer[h] \in {"published", "already_published"} =>
         /\ disk.bindings[mine[h].envelope] = [ref |-> j.ref, payload |-> j.payload]
         /\ <<told.space, told.from, told.to>> = <<j.space, j.from, j.to>>

\* Every envelope that waited for the device when its request arrived and
\* still waits is in the list, and nothing but its envelopes of that space is.
Complete(h) ==
  LET j == job[h]
      its == {e \in Stored(disk) : disk.envelopes[e].space = j.space /\ disk.envelopes[e].to = j.device}
  IN
  /\ earlier[h] \intersect QueuedFor(disk, j.space, j.device) \subseteq mine[h].list
  /\ mine[h].list \subseteq its

\* A relay-space inbox overlooks no envelope, even when rows cannot be fetched.
ScopedInboxIsComplete ==
  \A h \in Handlers :
    (pc[h] = "answered" /\ answer[h] = "listed" /\ job[h].space # NoSpace) => Complete(h)

\* The mailbox that the committed tables stand for.
Mail == INSTANCE Mailbox WITH
  Addresses <- [space : Spaces \union {NoSpace}, from : Devices, to : Devices],
  Bindings <- Binding,
  Times <- 1..MaxTime,
  placed <- [e \in Envelopes |->
               IF e \in Stored(disk)
               THEN {[space |-> disk.envelopes[e].space, from |-> disk.envelopes[e].from,
                      to |-> disk.envelopes[e].to]}
               ELSE {}],
  bound <- [e \in Envelopes |-> {disk.bindings[e]} \ {NoRow}],
  waiting <- {e \in Stored(disk) : disk.envelopes[e].state = "queued"},
  receipts <- disk.acks

\* Handlers that interleave, fail half way, go around again or are killed
\* implement the mailbox: each commit is one of its steps or none.  So no
\* envelope ever vanishes, moves or waits again, no acknowledgement is lost
\* or taken for half, and no publication is without its envelope.
RefinesMailbox == Mail!MailboxSpec

\* An envelope of a relay space is only ever between devices that were made
\* members of it, though members change between the two checks of a submit
\* and its INSERT (api.go:638), and an ack outside any space asks for none.
SpaceEnvelopesAreInternal ==
  \A e \in Stored(disk) :
    LET row == disk.envelopes[e] IN
    row.space # NoSpace =>
      \A d \in {row.from, row.to} : disk.members[<<row.space, d>>] # "none"

\* A KeyPackage is published at most once by its sender, by whatever request,
\* retry or race: no two publications share its reference or its payload, and
\* no envelope is left behind by a publication that was not completed.
PublishedOnce ==
  LET published == {e \in Stored(disk) : disk.bindings[e] # NoRow} IN
  /\ \A e \in Stored(disk) : disk.envelopes[e].via = "publish" <=> e \in published
  /\ \A e, f \in published :
       /\ disk.envelopes[e].from = disk.envelopes[f].from
       /\ \/ disk.bindings[e].ref = disk.bindings[f].ref
          \/ disk.bindings[e].payload = disk.bindings[f].payload
       => e = f

\* When a publication is committed both devices are active members still:
\* the transaction that checked them keeps everyone else from committing.
PublishedBetweenActive ==
  [][\A h \in Handlers : pc[h] = "publish.commit" /\ answer'[h] = "published" =>
       \A d \in {job[h].from, job[h].to} : ActiveMember(disk, job[h].space, d)]_vars

-----------------------------------------------------------------------------
\* What the documents, messages and tests say, and the code does not keep

\* "second ack acknowledged_at, want original": repeated acks of an envelope
\* answer with the same time.
AckAnswersAgree ==
  \A g, h \in Handlers :
    /\ pc[g] = "answered" /\ answer[g] = "acknowledged"
    /\ pc[h] = "answered" /\ answer[h] = "acknowledged"
    /\ job[g].envelope = job[h].envelope
    => mine[g].at = mine[h].at

\* "queued means the envelope is available through the recipient inbox route".
InboxIsComplete ==
  \A h \in Handlers : pc[h] = "answered" /\ answer[h] = "listed" => Complete(h)

\* "sender device not found", "recipient device not found", "device not found"
\* are said of devices that do not exist.
NotFoundIsTrue ==
  \A h \in Handlers : pc[h] = "answered" =>
    /\ answer[h] = "sender_device_not_found" => job[h].from = Stranger
    /\ answer[h] = "recipient_device_not_found" => job[h].to = Stranger
    /\ answer[h] = "device_not_found" => job[h].device = Stranger
=============================================================================
