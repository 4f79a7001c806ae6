------------------------------ MODULE KeySync ------------------------------
(***************************************************************************)
(* The life of one API key in two places: the api_keys row of napkey-core, *)
(* which the console shows and reservations consult, and the entry of      *)
(* kiro-go's configuration, which authenticates requests.  Handlers of the *)
(* console and of the administrator change the row and push the change at  *)
(* once; the syncer pushes what is not marked synced.  Each works from     *)
(* what it read before its call, and nothing keeps two of them apart.      *)
(*                                                                         *)
(* A call to kiro-go may be lost, executed after its caller gave up, or    *)
(* answered to nobody, and kiro-go may fail to save its configuration: the *)
(* entry it works with and the one its next start reads then differ.       *)
(* next_sync_at appears only as the difference that   *)
(* matters: due some time, or in a hundred years ("parked").               *)
(***************************************************************************)
EXTENDS Naturals, FiniteSets

CONSTANTS
    Handlers,       \* request handlers of napkey-core that run at one time
    Kinds,          \* what the requests after the creation may be
    Named,          \* the customer gave the key a name
    Concurrent,     \* FALSE: a request or a pass starts when all else is over
    MaxRequests,    \* bound: requests in a behaviour
    MaxLate,        \* bound: calls on their way that nobody waits for
    MaxFailures     \* bound: failed bookkeeping writes and saves, crashes and restarts

Syncer == "syncer"
Nobody == "nobody"

ASSUME KeySyncAssumption ==
    /\ {Syncer, Nobody} \cap Handlers = {}
    /\ Kinds \subseteq {"edit", "quota", "revoke", "suspend"}
    /\ Named \in BOOLEAN /\ Concurrent \in BOOLEAN
    /\ MaxRequests \in Nat /\ MaxLate \in Nat /\ MaxFailures \in Nat

VARIABLES
    active,     \* users.status is active
    row,        \* the api_keys row
    handed,     \* the cleartext key was returned to the customer
    remote,     \* the entry in kiro-go's configuration
    stored,     \* that entry in the configuration's file
    unsaved,    \* history: a removal of the entry was not saved
    at, op,     \* where each handler and the syncer is, and with what
    snap,       \* the row as the actor read it
    calls,      \* calls on their way to kiro-go
    requests,   \* requests started
    failures    \* failures so far

core == <<active, row, handed>>
kiro == <<remote, stored, unsaved>>
actors == <<at, op, snap>>
vars == <<core, kiro, actors, calls, requests, failures>>

Actors == Handlers \cup {Syncer}
OnOff == {"on", "off"}
Unsynced == {"pending", "failed", "delete_pending"}
Seen == [enabled : OnOff, known : BOOLEAN]

NoRow == [there |-> FALSE, enabled |-> "off", revoked |-> FALSE, state |-> "none",
          known |-> FALSE, parked |-> FALSE]
NoEntry == [there |-> FALSE, enabled |-> "off", name |-> "own"]
NoSnap == [enabled |-> "off", known |-> FALSE]
Live == row.there /\ ~ row.revoked
Snapshot == [enabled |-> row.enabled, known |-> row.known]

-----------------------------------------------------------------------------
(* The statements of store/apikeys.go: what each leaves of the row. *)

\* Mutation: the WHERE clause does not ask for revoked_at.
UpdatedAnyway(enabled) ==
    IF row.there THEN [row EXCEPT !.enabled = enabled, !.parked = FALSE,
                                  !.state = IF @ = "delete_pending" THEN @ ELSE "pending"]
    ELSE row

\* UpdateAPIKey: no row is touched once the key is revoked.
Updated(enabled) ==
    IF Live THEN [row EXCEPT !.enabled = enabled, !.parked = FALSE,
                             !.state = IF @ = "delete_pending" THEN @ ELSE "pending"]
    ELSE row

\* RevokeAPIKey
RevokedRow == [row EXCEPT !.revoked = TRUE, !.enabled = "off",
                          !.state = "delete_pending", !.parked = FALSE]

\* Mutation: the keys are disabled but not queued for a push.
SuspendedRowUnqueued ==
    IF Live /\ row.enabled = "on" THEN [row EXCEPT !.enabled = "off"] ELSE row

\* SetUserStatus, for the user's enabled keys.
SuspendedRow ==
    IF Live /\ row.enabled = "on"
    THEN [row EXCEPT !.enabled = "off", !.state = "pending", !.parked = FALSE] ELSE row

\* MarkKeySynced: whatever the row has become since.
SyncedRow ==
    IF row.there THEN [row EXCEPT !.state = "synced", !.known = TRUE, !.parked = FALSE]
    ELSE row

\* Mutation: the mark inserts the row it does not find.
FailedRowUpserted(state) == [row EXCEPT !.state = state, !.parked = FALSE]

\* MarkKeySyncFailed: likewise.
FailedRow(state) ==
    IF row.there THEN [row EXCEPT !.state = state, !.parked = FALSE] ELSE row

\* DeleteSyncedKey
RemovedRow ==
    IF row.revoked /\ row.state = "delete_pending"
    THEN [row EXCEPT !.state = "synced", !.parked = TRUE] ELSE row

\* MarkKeyUnusable
UnusableRow ==
    IF Live THEN [row EXCEPT !.revoked = TRUE, !.enabled = "off", !.state = "failed",
                             !.parked = TRUE]
    ELSE row

\* DeleteAPIKeyRow
DeletedRow == IF row.state = "synced" THEN row ELSE NoRow

\* A bookkeeping write whose error is only logged.
Write(new) ==
    \/ row' = new /\ UNCHANGED failures
    \/ failures < MaxFailures /\ failures' = failures + 1 /\ UNCHANGED row

-----------------------------------------------------------------------------
(* Actors and their calls. *)

Go(a, place) == at' = [at EXCEPT ![a] = place]

Finish(a) ==
    /\ Go(a, "idle")
    /\ op' = [op EXCEPT ![a] = "none"]
    /\ snap' = [snap EXCEPT ![a] = NoSnap]

\* What the call of an operation asks for; "keep" is a field left out of it.
Request(o, s) ==
    CASE o = "create"             -> [op |-> "create", enabled |-> "on", name |-> "tag"]
      [] o = "edit"               -> [op |-> "update", enabled |-> s.enabled, name |-> "tag"]
      [] o = "quota"              -> [op |-> "update", enabled |-> "keep", name |-> "keep"]
      [] o = "suspend"            -> [op |-> "update", enabled |-> s.enabled, name |-> "keep"]
      [] o = "push"               -> [op |-> "update", enabled |-> s.enabled,
                                      name |-> IF Named THEN "own" ELSE "keep"]
      [] o \in {"revoke", "remove"} -> [op |-> "delete", enabled |-> "keep", name |-> "keep"]

Send(a, o, s) ==
    /\ Go(a, "waiting")
    /\ op' = [op EXCEPT ![a] = o]
    /\ snap' = [snap EXCEPT ![a] = s]
    /\ calls' = calls \cup {[from |-> a, req |-> Request(o, s)]}

\* The actors in gone no longer wait for their calls.
Abandon(gone) ==
    /\ calls' = {IF c.from \in gone THEN [c EXCEPT !.from = Nobody] ELSE c : c \in calls}
    /\ Cardinality({c \in calls' : c.from = Nobody}) <= MaxLate

\* No request, pass or call is under way.
Quiet == calls = {} /\ \A a \in Actors : at[a] = "idle"

Idle(a) == at[a] = "idle" /\ (Concurrent \/ Quiet)

Begin(a) ==
    /\ a \in Handlers
    /\ Idle(a)
    /\ requests < MaxRequests
    /\ requests' = requests + 1

\* handleCreateKey: CreateAPIKey, then the push of the cleartext.
CreateKey(a) ==
    /\ Begin(a) /\ requests = 0
    /\ active
    /\ row' = [NoRow EXCEPT !.there = TRUE, !.enabled = "on", !.state = "pending"]
    /\ Send(a, "create", NoSnap)
    /\ UNCHANGED <<active, handed, kiro, failures>>

\* The handlers that load the key first.  Only an edit refuses a revoked key,
\* and only the user's own requests need an active account.
Load(a, o) ==
    /\ Begin(a)
    /\ o \in Kinds \ {"suspend"}
    /\ row.there
    /\ o = "edit" => ~ row.revoked
    /\ o # "quota" => active
    /\ Go(a, "store")
    /\ op' = [op EXCEPT ![a] = o]
    /\ snap' = [snap EXCEPT ![a] = Snapshot]
    /\ UNCHANGED <<core, kiro, calls, failures>>

\* handleUpdateKey and handleAdminSetQuota: UpdateAPIKey.
StoreUpdate(a) ==
    /\ at[a] = "store"
    /\ \/ op[a] = "edit" /\ \E e \in OnOff : row' = Updated(e)
       \/ op[a] = "quota" /\ row' = Updated(row.enabled)
    /\ Go(a, "read")
    /\ UNCHANGED <<active, handed, kiro, op, snap, calls, requests, failures>>

\* handleRevokeKey: RevokeAPIKey, then the removal if the id was known before.
StoreRevoke(a) ==
    /\ at[a] = "store" /\ op[a] = "revoke"
    /\ IF Live
       THEN /\ row' = RevokedRow
            /\ IF snap[a].known THEN Send(a, "revoke", snap[a])
               ELSE Go(a, "ok") /\ UNCHANGED <<op, snap, calls>>
       ELSE Finish(a) /\ UNCHANGED <<row, calls>>
    /\ UNCHANGED <<active, handed, kiro, requests, failures>>

\* handleAdminSetUserStatus
Suspend(a) ==
    /\ Begin(a) /\ "suspend" \in Kinds
    /\ active' = FALSE
    /\ row' = SuspendedRow
    /\ Go(a, "read")
    /\ op' = [op EXCEPT ![a] = "suspend"]
    /\ UNCHANGED <<handed, kiro, snap, calls, failures>>

Reactivate(a) ==
    /\ Begin(a) /\ "suspend" \in Kinds
    /\ ~ active
    /\ active' = TRUE
    /\ UNCHANGED <<row, handed, kiro, actors, calls, failures>>

\* The row as it is after the update, and its push.
ReadForPush(a) ==
    /\ at[a] = "read"
    /\ IF row.there /\ row.known /\ (op[a] = "suspend" => ~ row.revoked)
       THEN Send(a, op[a], Snapshot)
       ELSE Finish(a) /\ UNCHANGED calls
    /\ UNCHANGED <<core, kiro, requests, failures>>

\* A read or the first write of a request fails: the handler answers an error.
RequestFails(a) ==
    /\ at[a] \in {"store", "read"}
    /\ Finish(a)
    /\ UNCHANGED <<core, kiro, calls, requests, failures>>

\* Mutation: a push that failed once is not tried again.
ClaimPending ==
    /\ Idle(Syncer)
    /\ row.there /\ row.state \in {"pending", "delete_pending"} /\ ~ row.parked
    /\ row.known
    /\ Send(Syncer, IF row.state = "pending" THEN "push" ELSE "remove", Snapshot)
    /\ UNCHANGED <<core, kiro, requests, failures>>

\* sweep: ClaimKeysForSync, and syncOne up to its call.
Claim ==
    /\ Idle(Syncer)
    /\ row.there /\ row.state \in Unsynced /\ ~ row.parked
    /\ LET o == IF row.state = "delete_pending" THEN "remove" ELSE "push" IN
       IF row.known THEN Send(Syncer, o, Snapshot)
       ELSE /\ Go(Syncer, IF o = "remove" THEN "ok" ELSE "failed")
            /\ op' = [op EXCEPT ![Syncer] = o]
            /\ snap' = [snap EXCEPT ![Syncer] = Snapshot]
            /\ UNCHANGED calls
    /\ UNCHANGED <<core, kiro, requests, failures>>

\* Mutation: stale keys are deleted like those of a failed creation.
RetireStaleKeyByDeletion ==
    /\ Idle(Syncer)
    /\ \A a \in Handlers : op[a] # "create"
    /\ Live /\ row.state \in {"pending", "failed"} /\ ~ row.known
    /\ Write(DeletedRow)
    /\ UNCHANGED <<active, handed, kiro, actors, calls, requests>>

\* retireStaleKeys, ten minutes after the creation.
RetireStaleKey ==
    /\ Idle(Syncer)
    /\ \A a \in Handlers : op[a] # "create"
    /\ Live /\ row.state \in {"pending", "failed"} /\ ~ row.known
    /\ Write(UnusableRow)
    /\ UNCHANGED <<active, handed, kiro, actors, calls, requests>>

-----------------------------------------------------------------------------
(* After the call. *)

\* The caller's timeout; the call may yet be executed.
TimeOut(a) ==
    /\ at[a] = "waiting"
    /\ Go(a, "failed")
    /\ Abandon({a})
    /\ UNCHANGED <<core, kiro, op, snap, requests, failures>>

\* The push succeeded: MarkKeySynced, and the new key goes to the customer.
MarkSynced(a) ==
    /\ at[a] = "ok" /\ op[a] \notin {"revoke", "remove"}
    /\ Write(SyncedRow)
    /\ handed' = (handed \/ op[a] = "create")
    /\ Finish(a)
    /\ UNCHANGED <<active, kiro, calls, requests>>

\* It failed: MarkKeySyncFailed.  Only the syncer treats a missing entry apart.
MarkSyncFailed(a) ==
    /\ at[a] \in {"failed", "gone"} /\ op[a] # "create"
    /\ ~ (at[a] = "gone" /\ op[a] = "push")
    /\ Write(FailedRow(IF op[a] \in {"revoke", "remove"} THEN "delete_pending" ELSE "failed"))
    /\ Finish(a)
    /\ UNCHANGED <<active, handed, kiro, calls, requests>>

\* The entry is gone from kiro-go: DeleteSyncedKey.
MarkRemoved(a) ==
    /\ at[a] = "ok" /\ op[a] \in {"revoke", "remove"}
    /\ Write(RemovedRow)
    /\ Finish(a)
    /\ UNCHANGED <<active, handed, kiro, calls, requests>>

\* handleCreateKey after a failed push: DeleteAPIKeyRow, else MarkKeyUnusable.
RollBack(a) ==
    /\ at[a] = "failed" /\ op[a] = "create"
    /\ \/ row' = DeletedRow /\ Finish(a) /\ UNCHANGED failures
       \/ /\ failures < MaxFailures /\ failures' = failures + 1
          /\ Go(a, "unusable")
          /\ UNCHANGED <<row, op, snap>>
    /\ UNCHANGED <<active, handed, kiro, calls, requests>>

\* MarkKeyUnusable, there and for a key the syncer finds gone.
MarkUnusable(a) ==
    /\ at[a] = "unusable" \/ (at[a] = "gone" /\ op[a] = "push")
    /\ Write(UnusableRow)
    /\ Finish(a)
    /\ UNCHANGED <<active, handed, kiro, calls, requests>>

CoreCrashes ==
    /\ failures < MaxFailures
    /\ failures' = failures + 1
    /\ at' = [a \in Actors |-> "idle"]
    /\ op' = [a \in Actors |-> "none"]
    /\ snap' = [a \in Actors |-> NoSnap]
    /\ Abandon(Actors)
    /\ UNCHANGED <<core, kiro, requests>>

-----------------------------------------------------------------------------
(* The network and kiro-go's admin interface. *)

LoseCall(c) ==
    /\ c \in calls
    /\ calls' = calls \ {c}
    /\ UNCHANGED <<core, kiro, actors, requests, failures>>

\* The answer to c reaches its caller.
Reply(c, answer) == c.from # Nobody /\ Go(c.from, answer)

\* The answer to c is lost, or nobody waits for it.
NoReply == UNCHANGED at

\* DeleteApiKey and UpdateApiKey look for the entry in memory.
Missing(req) == req.op # "create" /\ ~ remote.there

\* What AddApiKey, UpdateApiKey and DeleteApiKey make of the entry.
Effect(req) ==
    IF req.op = "delete" THEN NoEntry
    ELSE [there |-> TRUE, enabled |-> req.enabled, name |-> req.name]

\* apiUpdateApiKey copies the entry and lays the request over the copy; what
\* the entry becomes meanwhile is overwritten.
Patch(c) ==
    /\ c \in calls /\ c.req.op = "update"
    /\ IF remote.there
       THEN /\ calls' = (calls \ {c}) \cup
                {[c EXCEPT !.req.op = "overwrite",
                           !.req.enabled = IF @ = "keep" THEN remote.enabled ELSE @,
                           !.req.name = IF @ = "keep" THEN remote.name ELSE @]}
            /\ NoReply
       ELSE /\ calls' = calls \ {c}
            /\ NoReply \/ Reply(c, "gone")
    /\ UNCHANGED <<core, kiro, op, snap, requests, failures>>

\* The change is made and saved.  A removal that finds nothing answers success
\* without a save.
Execute(c) ==
    /\ c \in calls /\ c.req.op # "update"
    /\ calls' = calls \ {c}
    /\ IF Missing(c.req)
       THEN /\ UNCHANGED <<remote, stored>>
            /\ NoReply \/ Reply(c, IF c.req.op = "delete" THEN "ok" ELSE "failed")
       ELSE /\ remote' = Effect(c.req) /\ stored' = remote'
            /\ NoReply \/ Reply(c, "ok")
    /\ UNCHANGED <<core, unsaved, op, snap, requests, failures>>

\* The save fails.  AddApiKey takes the entry out again; the others answer an
\* error with their change made in memory.
ExecuteUnsaved(c) ==
    /\ c \in calls /\ c.req.op # "update" /\ ~ Missing(c.req)
    /\ failures < MaxFailures /\ failures' = failures + 1
    /\ calls' = calls \ {c}
    /\ remote' = IF c.req.op = "create" THEN remote ELSE Effect(c.req)
    /\ unsaved' = (unsaved \/ c.req.op = "delete")
    /\ NoReply \/ Reply(c, "failed")
    /\ UNCHANGED <<core, stored, op, snap, requests>>

\* Any other change that is saved writes the whole configuration: the usage of
\* a key, an account, a setting.
SaveOther ==
    /\ stored # remote
    /\ stored' = remote
    /\ UNCHANGED <<core, remote, unsaved, actors, calls, requests, failures>>

\* Load; the handlers between their two steps are gone.
KiroRestarts ==
    /\ failures < MaxFailures /\ failures' = failures + 1
    /\ remote' = stored
    /\ calls' = {c \in calls : c.req.op # "overwrite"}
    /\ UNCHANGED <<core, stored, unsaved, actors, requests>>

-----------------------------------------------------------------------------

Init ==
    /\ active = TRUE
    /\ row = NoRow
    /\ handed = FALSE
    /\ remote = NoEntry
    /\ stored = NoEntry
    /\ unsaved = FALSE
    /\ at = [a \in Actors |-> "idle"]
    /\ op = [a \in Actors |-> "none"]
    /\ snap = [a \in Actors |-> NoSnap]
    /\ calls = {}
    /\ requests = 0
    /\ failures = 0

Next ==
    \/ \E a \in Handlers :
        \/ CreateKey(a)
        \/ \E o \in Kinds : Load(a, o)
        \/ StoreUpdate(a)
        \/ StoreRevoke(a)
        \/ Suspend(a)
        \/ Reactivate(a)
        \/ ReadForPush(a)
        \/ RequestFails(a)
    \/ Claim
    \/ RetireStaleKey
    \/ \E a \in Actors :
        \/ TimeOut(a)
        \/ MarkSynced(a)
        \/ MarkSyncFailed(a)
        \/ MarkRemoved(a)
        \/ RollBack(a)
        \/ MarkUnusable(a)
    \/ CoreCrashes
    \/ \E c \in calls : LoseCall(c) \/ Patch(c) \/ Execute(c) \/ ExecuteUnsaved(c)
    \/ SaveOther
    \/ KiroRestarts

Spec == Init /\ [][Next]_vars

\* The statements of a handler and of the syncer come to an end and calls time
\* out; the syncer sweeps for ever, each sweep ends with retireStaleKeys, and
\* kiro-go answers it in the end if it keeps asking.  Calls nobody waits for do
\* not stay on their way for ever.
Fairness ==
    /\ \A a \in Handlers :
        WF_vars(StoreUpdate(a) \/ StoreRevoke(a) \/ ReadForPush(a) \/ RequestFails(a))
    /\ \A a \in Actors :
        /\ WF_vars(TimeOut(a))
        /\ WF_vars(MarkSynced(a) \/ MarkSyncFailed(a) \/ MarkRemoved(a)
                       \/ RollBack(a) \/ MarkUnusable(a))
    /\ WF_vars(Claim)
    /\ SF_vars(RetireStaleKey)
    /\ WF_vars(\E c \in calls : c.from = Nobody /\ (LoseCall(c) \/ Patch(c) \/ Execute(c)))
    /\ SF_vars(\E c \in calls : c.from = Syncer /\ Patch(c) /\ (remote.there \/ Reply(c, "gone")))
    /\ SF_vars(\E c \in calls : c.from = Syncer /\ Execute(c) /\ ~ NoReply)

FairSpec == Spec /\ Fairness

-----------------------------------------------------------------------------
(***************************************************************************)
(* Properties.                                                             *)
(***************************************************************************)

\* The variables have their types; a row that is gone leaves no trace, and
\* only revoked keys are never due again.
KeyTypeOK ==
    /\ active \in BOOLEAN /\ handed \in BOOLEAN
    /\ row \in [there : BOOLEAN, enabled : OnOff, revoked : BOOLEAN,
                 state : Unsynced \cup {"synced", "none"}, known : BOOLEAN, parked : BOOLEAN]
    /\ ~ row.there => row = NoRow
    /\ row.parked => row.revoked
    /\ {remote, stored} \subseteq [there : BOOLEAN, enabled : OnOff, name : {"tag", "own"}]
    /\ unsaved \in BOOLEAN
    /\ at \in [Actors -> {"idle", "store", "read", "waiting", "ok", "failed", "gone", "unusable"}]
    /\ op \in [Actors -> Kinds \cup {"none", "create", "push", "remove"}]
    /\ snap \in [Actors -> Seen]
    /\ requests \in 0 .. MaxRequests /\ failures \in 0 .. MaxFailures

\* A key the customer was given is a row of the console for ever, and works in
\* the data plane until it is revoked: no roll-back, stale deletion, late call,
\* failed save or restart takes either away.
HandedKeyKept == handed => row.there /\ (row.revoked \/ (remote.there /\ stored.there))

\* Revocation is final: no handler that loaded the key before it, no syncer and
\* no reactivated account makes the row valid for reservations again.  Only the
\* roll-back of its creation can remove the row of a key revoked meanwhile.
RevokedForGood ==
    [][row.revoked => row'.enabled = "off" /\ (row'.revoked \/ ~ row'.there)]_vars

\* A creation that never reached the data plane does not stay a key of the
\* console that looks valid: it is rolled back or retired.
UnregisteredSettles == (Live /\ ~ row.known) ~> (~ Live \/ row.known)

\* A change the data plane has not confirmed is pushed until it has, or until
\* the key is revoked.
PushSettles ==
    (Live /\ row.state \in {"pending", "failed"}) ~> (~ Live \/ row.state = "synced")

\* A row marked synced has its key in the data plane, enabled like the row:
\* "SyncSynced means kiro-go holds a matching key."  Checked where requests and
\* passes come one at a time and the administrator sets no quota.
SyncedMatches ==
    Live /\ row.state = "synced" => remote.there /\ remote.enabled = row.enabled

\* The repository: "The row stays here until that succeeds, otherwise a revoked
\* key could keep working in the data plane with nothing left to point at it."
\* Refuted: MarkKeySynced of a push that began earlier overwrites delete_pending.
RowWaitsForRemoval ==
    Quiet /\ row.revoked /\ row.state = "synced" => ~ remote.there

\* A revoked key the row can point at is taken out of the data plane, out of
\* its memory and its file and for good, whatever fails of the bookkeeping and
\* of the saves, unless the save that failed was a removal's own: DeleteApiKey
\* has then forgotten the entry, its retry saves nothing, and a restart brings
\* the entry back.
RemovalSettles ==
    (row.revoked /\ row.known /\ row.state = "delete_pending")
        ~> [](unsaved \/ ~ (remote.there \/ stored.there))

\* The syncer leaves nothing undone, whatever fails or is lost meanwhile: a
\* creation that never landed, a change and a removal each come to their end.
ChangesSettle == UnregisteredSettles /\ PushSettles /\ RemovalSettles
=============================================================================
