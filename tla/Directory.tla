------------------------------ MODULE Directory ------------------------------
(***************************************************************************)
(* What the relay knows before anyone sends anything: account invites,     *)
(* accounts, their devices and the relay spaces.  Each process that starts *)
(* seeds the invite code of its environment and then listens; the one that *)
(* got the port serves                                                     *)
(*   invite    POST /v0/dev/invites                                        *)
(*   claim     POST /v0/invites/claim                                      *)
(*   device    POST /v0/devices/register                                   *)
(*   devices   GET  /v0/accounts/{account_id}/devices                      *)
(*   space     POST /v0/relay-spaces                                       *)
(*   spaces    GET  /v0/relay-spaces                                       *)
(* by concurrent handlers over SqliteTx.  A handler stands for the         *)
(* goroutine of a request or, in a job "start", for a starting process,    *)
(* which holds a lock only within a statement.                             *)
(*                                                                         *)
(* disk and cache are records [invites, accounts, devices, spaces].  Any   *)
(* statement can fail (a lock, the disk) and nothing here is retried.  No  *)
(* statement of the code sets a disabled_at or revoked_at of these tables. *)
(***************************************************************************)
EXTENDS SqliteTx

CONSTANTS
  Codes,       \* invite codes
  AccountIds, DeviceIds,  \* the uuids that accounts and devices get
  SpaceIds,    \* relay_space_id, a client's own or a uuid
  Stranger,    \* an id that nothing has
  Nobody,      \* an id that is "" / NULL: no creator, not claimed
  NoRow,       \* an absent row
  Down         \* no process serves

Ids == AccountIds \union DeviceIds \union SpaceIds

\* A row of invites is claimed_by_account_id.  A row of accounts is the code
\* that it was made with, which is history and not a column.
SpaceRow == {row \in [account : AccountIds \union {Nobody}, device : DeviceIds \union {Nobody}] :
               row.device # Nobody => row.account # Nobody}

Tables == [invites : [Codes -> AccountIds \union {Nobody, NoRow}],
           accounts : [AccountIds -> Codes \union {NoRow}],
           devices : [DeviceIds -> AccountIds \union {NoRow}],
           spaces : [SpaceIds -> SpaceRow \union {NoRow}]]

ASSUME DirectoryAssumption ==
  /\ {NoRow, Nobody, Stranger} \intersect (Ids \union Codes) = {}
  /\ NoRow # Nobody /\ NoRow # Stranger /\ Nobody # Stranger /\ NoRow \notin SpaceRow
  /\ Down \notin Codes
  /\ IsFiniteSet(AccountIds) /\ IsFiniteSet(DeviceIds)

VARIABLES
  served,   \* the invite code that the serving process was started with, or Down
  pc,       \* where each handler is
  job,      \* the request, or the start
  mine,     \* the ids that its answer will name
  answer,   \* the code of its answer
  earlier   \* history: the spaces that existed when its request arrived

local == <<pc, job, mine, answer, earlier>>
vars == <<disk, cache, readers, writer, served, pc, job, mine, answer, earlier>>

Init ==
  /\ disk = [invites |-> [c \in Codes |-> NoRow], accounts |-> [a \in AccountIds |-> NoRow],
             devices |-> [d \in DeviceIds |-> NoRow], spaces |-> [s \in SpaceIds |-> NoRow]]
  /\ cache = disk
  /\ readers = {}
  /\ writer = NoHandler
  /\ served = Down
  /\ pc = [h \in Handlers |-> "idle"]
  /\ job = [h \in Handlers |-> NoRow]
  /\ mine = [h \in Handlers |-> {}]
  /\ answer = [h \in Handlers |-> "none"]
  /\ earlier = [h \in Handlers |-> {}]

-----------------------------------------------------------------------------
\* Helpers

Rows(table) == {id \in DOMAIN table : table[id] # NoRow}
Free(table) == DOMAIN table \ Rows(table)

DevicesOf(tables, a) == {d \in Rows(tables.devices) : tables.devices[d] = a}

Goto(h, label) == pc' = [pc EXCEPT ![h] = label]

Proceed(h, label) ==
  /\ Goto(h, label)
  /\ UNCHANGED <<served, job, mine, answer, earlier>>

ReplyWith(h, a, ids) ==
  /\ Goto(h, "answered")
  /\ answer' = [answer EXCEPT ![h] = a]
  /\ mine' = [mine EXCEPT ![h] = ids]
  /\ UNCHANGED <<served, job, earlier>>

\* Outside a transaction, and from inside one: the deferred Rollback runs.
Fail(h, a) == UNCHANGED txVars /\ ReplyWith(h, a, {})
Refuse(h, a) == TxRollback(h) /\ ReplyWith(h, a, {})

\* A lone INSERT.  In the answer, the id of the new row.
Insert(h, content, a, id) == AutoWrite(h, content) /\ ReplyWith(h, a, {id})

Forget(hs) ==
  /\ pc' = [h \in Handlers |-> IF h \in hs THEN "idle" ELSE pc[h]]
  /\ job' = [h \in Handlers |-> IF h \in hs THEN NoRow ELSE job[h]]
  /\ mine' = [h \in Handlers |-> IF h \in hs THEN {} ELSE mine[h]]
  /\ answer' = [h \in Handlers |-> IF h \in hs THEN "none" ELSE answer[h]]
  /\ earlier' = [h \in Handlers |-> IF h \in hs THEN {} ELSE earlier[h]]

Starting == {h \in Handlers : job[h] # NoRow /\ job[h].op = "start"}

-----------------------------------------------------------------------------
\* Processes: Open and Migrate have succeeded (SchemaMigration), then

\* config.Load puts a default in place of an empty CYPHER_DEV_INVITE: there is
\* always a code to seed, and devMode is always on.
Start(h) ==
  /\ pc[h] = "idle"
  /\ \E code \in Codes : job' = [job EXCEPT ![h] = [op |-> "start", code |-> code]]
  /\ Goto(h, "seed")
  /\ UNCHANGED txVars /\ UNCHANGED <<served, mine, answer, earlier>>

\* log.Fatalf, or a kill: a starting process ends.
Die(h) == h \in Starting /\ Forget({h}) /\ UNCHANGED served /\ UNCHANGED txVars

SeedLookup(h) ==
  /\ pc[h] = "seed"
  /\ Proceed(h, IF disk.invites[job[h].code] = NoRow THEN "seed.insert" ELSE "listen")
  /\ UNCHANGED txVars

\* Fault: an INSERT OR REPLACE.
SeedInsert_Replaces(h) ==
  /\ pc[h] = "seed.insert"
  /\ AutoWrite(h, [disk EXCEPT !.invites[job[h].code] = Nobody])
  /\ Proceed(h, "listen")

\* Fault: an error of the seeding is not fatal.
SeedInsert_Unchecked(h) ==
  /\ pc[h] = "seed.insert"
  /\ \/ UNCHANGED txVars
     \/ /\ disk.invites[job[h].code] = NoRow
        /\ AutoWrite(h, [disk EXCEPT !.invites[job[h].code] = Nobody])
  /\ Proceed(h, "listen")

\* The UNIQUE hash refuses the code that another inserted meanwhile: Die.
SeedInsert(h) ==
  /\ pc[h] = "seed.insert"
  /\ disk.invites[job[h].code] = NoRow
  /\ AutoWrite(h, [disk EXCEPT !.invites[job[h].code] = Nobody])
  /\ Proceed(h, "listen")

\* Who finds the port taken ends: Die.
Listen(h) ==
  /\ pc[h] = "listen"
  /\ served = Down
  /\ served' = job[h].code
  /\ Forget({h})
  /\ UNCHANGED txVars

\* The serving process is killed, with all its requests.
Crash ==
  /\ served # Down
  /\ served' = Down
  /\ Forget(Handlers \ Starting)
  /\ TxCrash

-----------------------------------------------------------------------------
\* Requests.  A client names ids it was given, or makes one up (Stranger).

KnownAccounts == Rows(disk.accounts) \union {Stranger}
KnownDevices == Rows(disk.devices) \union {Stranger}

\* Bound: what gets a uuid arrives only while every handler finds one.
Requests ==
  UNION {[op : {"invite"}, code : Codes],
         IF Cardinality(Free(cache.accounts)) >= Cardinality(Handlers)
         THEN [op : {"claim"}, code : Codes] ELSE {},
         IF Cardinality(Free(disk.devices)) >= Cardinality(Handlers)
         THEN [op : {"device"}, account : KnownAccounts] ELSE {},
         [op : {"devices"}, account : KnownAccounts],
         [op : {"space"}, space : SpaceIds, account : KnownAccounts \union {Nobody},
          device : KnownDevices \union {Nobody}],
         [op : {"spaces"}]}

Arrive(h) ==
  /\ pc[h] = "idle" /\ served # Down
  /\ \E j \in Requests :
       /\ job' = [job EXCEPT ![h] = j]
       /\ Goto(h, j.op)
       /\ earlier' = [earlier EXCEPT ![h] = IF j.op = "spaces" THEN Rows(disk.spaces) ELSE {}]
  /\ UNCHANGED txVars /\ UNCHANGED <<served, mine, answer>>

\* The response is written, or the client is gone: the handler is free again.
Deliver(h) == pc[h] = "answered" /\ Forget({h}) /\ UNCHANGED served /\ UNCHANGED txVars

-----------------------------------------------------------------------------
\* createDevInvite

InviteLookup(h) ==
  /\ pc[h] = "invite"
  /\ \/ Fail(h, "db_error")
     \/ disk.invites[job[h].code] # NoRow /\ Fail(h, "invite_exists")
     \/ /\ disk.invites[job[h].code] = NoRow
        /\ Proceed(h, "invite.insert")
        /\ UNCHANGED txVars

InviteInsert(h) ==
  /\ pc[h] = "invite.insert"
  /\ \/ Fail(h, "db_error")
     \/ /\ disk.invites[job[h].code] = NoRow
        /\ AutoWrite(h, [disk EXCEPT !.invites[job[h].code] = Nobody])
        /\ ReplyWith(h, "invite_created", {})

-----------------------------------------------------------------------------
\* claimInvite: one transaction, and an UPDATE that compares nothing

\* Fault: the lookup goes through the pool and not through the transaction.
ClaimRead_OutsideTx(h) ==
  LET by == disk.invites[job[h].code] IN
  /\ pc[h] = "claim"
  /\ \/ Refuse(h, "db_error")
     \/ by = NoRow /\ Refuse(h, "invalid_invite")
     \/ by \notin {NoRow, Nobody} /\ Refuse(h, "invite_claimed")
     \/ by = Nobody /\ UNCHANGED txVars /\ Proceed(h, "claim.account")

ClaimRead(h) ==
  LET by == disk.invites[job[h].code] IN
  /\ pc[h] = "claim"
  /\ \/ Refuse(h, "db_error")
     \/ by = NoRow /\ Refuse(h, "invalid_invite")
     \/ by \notin {NoRow, Nobody} /\ Refuse(h, "invite_claimed")
     \/ by = Nobody /\ TxRead(h) /\ Proceed(h, "claim.account")

\* INSERT INTO accounts
ClaimAccount(h) ==
  LET a == CHOOSE id \in Free(cache.accounts) : TRUE IN
  /\ pc[h] = "claim.account"
  /\ \/ Refuse(h, "db_error")
     \/ /\ Free(cache.accounts) # {}
        /\ TxWrite(h, [cache EXCEPT !.accounts[a] = job[h].code])
        /\ mine' = [mine EXCEPT ![h] = {a}]
        /\ Goto(h, "claim.invite")
        /\ UNCHANGED <<served, job, answer, earlier>>

\* UPDATE invites
ClaimInvite(h) ==
  /\ pc[h] = "claim.invite"
  /\ \/ Refuse(h, "db_error")
     \/ \E a \in mine[h] :
          /\ TxWrite(h, [cache EXCEPT !.invites[job[h].code] = a])
          /\ Proceed(h, "claim.commit")

\* Fault: the error of the commit is ignored.
ClaimCommit_Unchecked(h) ==
  /\ pc[h] = "claim.commit"
  /\ TxRollback(h) \/ TxCommit(h)
  /\ ReplyWith(h, "claimed", mine[h])

ClaimCommit(h) ==
  /\ pc[h] = "claim.commit"
  /\ \/ Refuse(h, "db_error")
     \/ TxCommit(h) /\ ReplyWith(h, "claimed", mine[h])

-----------------------------------------------------------------------------
\* registerDevice and accountDevices

DeviceLookup(h) ==
  /\ pc[h] = "device"
  /\ UNCHANGED txVars
  /\ \/ ReplyWith(h, "db_error", {})
     \/ job[h].account \notin Rows(disk.accounts) /\ ReplyWith(h, "account_not_found", {})
     \/ job[h].account \in Rows(disk.accounts) /\ Proceed(h, "device.insert")

DeviceInsert(h) ==
  LET d == CHOOSE id \in Free(disk.devices) : TRUE IN
  /\ pc[h] = "device.insert"
  /\ \/ Fail(h, "db_error")
     \/ /\ Free(disk.devices) # {}
        /\ Insert(h, [disk EXCEPT !.devices[d] = job[h].account], "registered", d)

\* A row that cannot be fetched ends the loop, and nobody asks rows.Err().  (The
\* first row comes with Query, whose error is looked at: that an empty list may
\* stand for some is more than the code does, and no property is about it.)
ListDevices(h) ==
  /\ pc[h] = "devices"
  /\ UNCHANGED txVars
  /\ \/ ReplyWith(h, "db_error", {})
     \/ \E list \in SUBSET DevicesOf(disk, job[h].account) : ReplyWith(h, "listed", list)

-----------------------------------------------------------------------------
\* createRelaySpace and listRelaySpaces

\* Fault: a device without an account is let through.
SpaceAccount_DeviceAlone(h) ==
  LET j == job[h] IN
  /\ pc[h] = "space"
  /\ \/ j.account = Nobody /\ UNCHANGED txVars /\ Proceed(h, "space.insert")
     \/ j.account # Nobody /\ Fail(h, "db_error")
     \/ j.account \notin Rows(disk.accounts) \union {Nobody} /\ Fail(h, "account_not_found")
     \/ /\ j.account \in Rows(disk.accounts)
        /\ Proceed(h, IF j.device = Nobody THEN "space.insert" ELSE "space.device")
        /\ UNCHANGED txVars

SpaceAccount(h) ==
  LET j == job[h] IN
  /\ pc[h] = "space"
  /\ \/ /\ j.account = Nobody /\ j.device # Nobody
        /\ Fail(h, "account_required_for_device")
     \/ /\ j.account = Nobody /\ j.device = Nobody
        /\ UNCHANGED txVars /\ Proceed(h, "space.insert")
     \/ j.account # Nobody /\ Fail(h, "db_error")
     \/ j.account \notin Rows(disk.accounts) \union {Nobody} /\ Fail(h, "account_not_found")
     \/ /\ j.account \in Rows(disk.accounts)
        /\ Proceed(h, IF j.device = Nobody THEN "space.insert" ELSE "space.device")
        /\ UNCHANGED txVars

\* Fault: whose device it is goes unchecked.
SpaceDevice_AnyOwner(h) ==
  LET j == job[h] IN
  /\ pc[h] = "space.device"
  /\ \/ Fail(h, "db_error")
     \/ j.device \notin Rows(disk.devices) /\ Fail(h, "device_not_found")
     \/ /\ j.device \in Rows(disk.devices)
        /\ UNCHANGED txVars /\ Proceed(h, "space.insert")

SpaceDevice(h) ==
  LET j == job[h] IN
  /\ pc[h] = "space.device"
  /\ \/ Fail(h, "db_error")
     \/ j.device \notin Rows(disk.devices) /\ Fail(h, "device_not_found")
     \/ /\ j.device \in Rows(disk.devices) /\ disk.devices[j.device] # j.account
        /\ Fail(h, "account_device_mismatch")
     \/ /\ j.device \in Rows(disk.devices) /\ disk.devices[j.device] = j.account
        /\ UNCHANGED txVars /\ Proceed(h, "space.insert")

\* The id of the client's own may be taken.
SpaceInsert(h) ==
  LET j == job[h] IN
  /\ pc[h] = "space.insert"
  /\ \/ Fail(h, "db_error")
     \/ /\ disk.spaces[j.space] = NoRow
        /\ AutoWrite(h, [disk EXCEPT !.spaces[j.space] = [account |-> j.account, device |-> j.device]])
        /\ Proceed(h, "space.reread")

\* GetRelaySpace
SpaceReread(h) ==
  /\ pc[h] = "space.reread"
  /\ Fail(h, "db_error") \/ (UNCHANGED txVars /\ ReplyWith(h, "space_created", {job[h].space}))

\* Fault: rows.Err() is not asked.
ListSpaces_NoRowsErr(h) ==
  /\ pc[h] = "spaces"
  /\ UNCHANGED txVars
  /\ \/ ReplyWith(h, "db_error", {})
     \/ \E list \in SUBSET Rows(disk.spaces) : ReplyWith(h, "listed", list)

ListSpaces(h) ==
  /\ pc[h] = "spaces"
  /\ Fail(h, "db_error") \/ (UNCHANGED txVars /\ ReplyWith(h, "listed", Rows(disk.spaces)))

-----------------------------------------------------------------------------
Seed(h) == SeedLookup(h) \/ SeedInsert(h) \/ Listen(h)
Invite(h) == InviteLookup(h) \/ InviteInsert(h)
Claim(h) == ClaimRead(h) \/ ClaimAccount(h) \/ ClaimInvite(h) \/ ClaimCommit(h)
Device(h) == DeviceLookup(h) \/ DeviceInsert(h) \/ ListDevices(h)
Space(h) ==
  \/ SpaceAccount(h) \/ SpaceDevice(h) \/ SpaceInsert(h) \/ SpaceReread(h)
  \/ ListSpaces(h)

Next ==
  \/ Crash
  \/ \E h \in Handlers :
       \/ Start(h) \/ Seed(h) \/ Die(h)
       \/ Arrive(h) \/ Invite(h) \/ Claim(h) \/ Device(h) \/ Space(h) \/ Deliver(h)

Spec == Init /\ [][Next]_vars

-----------------------------------------------------------------------------
\* Properties

Labels ==
  {"idle", "answered", "seed", "seed.insert", "listen", "invite", "invite.insert",
   "claim", "claim.account", "claim.invite", "claim.commit",
   "device", "device.insert", "devices",
   "space", "space.device", "space.insert", "space.reread", "spaces"}

Answers ==
  {"none", "db_error", "invite_exists", "invite_created",
   "invalid_invite", "invite_claimed", "claimed", "account_not_found", "registered", "listed",
   "account_required_for_device", "device_not_found", "account_device_mismatch", "space_created"}

Jobs ==
  UNION {[op : {"start", "invite", "claim"}, code : Codes],
         [op : {"device", "devices"}, account : AccountIds \union {Stranger}],
         [op : {"space"}, space : SpaceIds, account : AccountIds \union {Stranger, Nobody},
          device : DeviceIds \union {Stranger, Nobody}],
         [op : {"spaces"}]}

\* Types; among the rows, a space with a device always has an account.
TypeOK ==
  /\ disk \in Tables /\ cache \in Tables
  /\ readers \subseteq Handlers
  /\ writer \in Handlers \union {NoHandler}
  /\ served \in Codes \union {Down}
  /\ pc \in [Handlers -> Labels]
  /\ job \in [Handlers -> Jobs \union {NoRow}]
  /\ mine \in [Handlers -> SUBSET Ids]
  /\ answer \in [Handlers -> Answers]
  /\ earlier \in [Handlers -> SUBSET SpaceIds]

\* An invite code makes one account at most, and is used up exactly if it did:
\* whatever races for it, fails between the INSERT of the account and the
\* UPDATE of the invite (api.go:190), or is killed there.
OneAccountPerCode ==
  \A c \in Codes, a \in AccountIds : disk.accounts[a] = c <=> disk.invites[c] = a

\* What a row says it says for good: codes stay known and used codes used,
\* accounts, devices and spaces never go or change, across starts that seed.
\* The other modules take accounts, devices and spaces as constants on this.
DirectoryOnlyGrows ==
  [][/\ \A c \in Rows(disk.invites) :
          disk'.invites[c] # disk.invites[c] =>
            disk.invites[c] = Nobody /\ disk'.invites[c] \in AccountIds
     /\ \A a \in Rows(disk.accounts) : disk'.accounts[a] = disk.accounts[a]
     /\ \A d \in Rows(disk.devices) : disk'.devices[d] = disk.devices[d]
     /\ \A s \in Rows(disk.spaces) : disk'.spaces[s] = disk.spaces[s]]_vars

\* What a row refers to exists, with no help from SQLite's foreign keys (the
\* pragma of db.go:29 reaches one pooled connection): a device's account, the
\* creators of a space, whose device is the account's own.
ReferencesHold ==
  /\ \A d \in Rows(disk.devices) : disk.devices[d] \in Rows(disk.accounts)
  /\ \A s \in Rows(disk.spaces) :
       LET row == disk.spaces[s] IN
       /\ row.account # Nobody => row.account \in Rows(disk.accounts)
       /\ row.device # Nobody => row.device \in DevicesOf(disk, row.account)

\* What a client was told is on disk: the account made with its code, the
\* device of its account, the invite, the space as it was asked for.
AnswersAreDurable ==
  \A h \in Handlers : pc[h] = "answered" =>
    LET j == job[h] IN
    /\ answer[h] = "invite_created" => disk.invites[j.code] # NoRow
    /\ answer[h] = "claimed" => \A a \in mine[h] : disk.invites[j.code] = a
    /\ answer[h] = "registered" => mine[h] \subseteq DevicesOf(disk, j.account)
    /\ answer[h] = "space_created" => disk.spaces[j.space] = [account |-> j.account, device |-> j.device]

\* A process that serves with a dev invite has it in its tables, though two
\* may look for the code and insert it at once when they start.
SeededWhenServing == served # Down => disk.invites[served] # NoRow

\* A list of relay spaces overlooks none that existed when it was asked for.
ListedSpacesAreComplete ==
  \A h \in Handlers :
    (pc[h] = "answered" /\ answer[h] = "listed" /\ job[h].op = "spaces") => earlier[h] \subseteq mine[h]
=============================================================================
