----------------------------- MODULE AccountPool -----------------------------
(***************************************************************************)
(* The upstream accounts of the data plane (kiro-go): the configuration    *)
(* that owns them (config/config.go), the pool that requests choose from   *)
(* (pool/account.go), the fail-over loop of a request, the refresh of      *)
(* credentials, the background sweep and the administrator's handlers.     *)
(*                                                                         *)
(* An account's credential is a version: every exchange of the refresh     *)
(* token makes the next one, and the provider accepts only the latest.     *)
(* Requests hold a pointer into the pool's slice, which Reload replaces.   *)
(***************************************************************************)
EXTENDS Integers, FiniteSets

CONSTANTS
    Accounts,       \* account ids
    PoolRequests,   \* client requests
    Rank,           \* the order of cfg.Accounts, as [Accounts -> Nat]
    ErrorLimit,     \* consecutive errors that start a cooldown (3 in the code)
    MaxTries,       \* maxAccountRetryAttempts (3 in the code)
    MaxVersion,     \* bound: exchanges and logins per account
    MaxTasks,       \* bound: the administrator's edits and reads, and the sweeps
    MaxMoves,       \* bound: accounts the administrator deletes or adds
    MaxMishaps      \* bound: expired tokens, failed saves, lost answers, crashes

ASSUME PoolAssumption ==
    /\ Accounts # {} /\ Rank \in [Accounts -> Nat]
    /\ {ErrorLimit, MaxTries, MaxVersion} \subseteq Nat \ {0}
    /\ {MaxTasks, MaxMoves, MaxMishaps} \subseteq Nat
    /\ PoolRequests \cap {"operator", "sweeper", "free"} = {}

VARIABLES
    \* config/config.go, under cfgLock
    conf,       \* cfg.Accounts by id
    disk,       \* the same, as last written by Save
    overUse,    \* cfg.AllowOverUsage
    \* pool/account.go, under p.mu
    pool,       \* p.accounts by id (the copies of one weighted account agree)
    cooling,    \* p.cooldowns: no entry, an entry in the past, or in the future
    errors,     \* p.errorCounts
    models,     \* p.modelLists for the one model requests ask for
    \* h.tokenRefreshMu, the provider, time
    lock, upstream, lapsed,
    \* the goroutines
    actor,      \* per goroutine: where it is, its account and its copy of it
    live,       \* the requests whose pointer is into the current slice
    excluded, tries,
    sweep,      \* the accounts a sweep has still to visit, as it read them
    tasks, moves, mishaps,
    reused      \* history: ids given to a new account while the old one refreshed

poolVars == <<conf, disk, overUse, pool, cooling, errors, models, lock,
              upstream, lapsed, actor, live, excluded, tries, sweep, tasks, moves, mishaps, reused>>

bounds == <<tasks, moves, mishaps, reused>>

Actors == PoolRequests \cup {"operator", "sweeper"}

AccountRecord ==
    [present: BOOLEAN, enabled: BOOLEAN, banned: BOOLEAN, over: BOOLEAN,
     overage: BOOLEAN, arn: BOOLEAN, version: 0..MaxVersion, served: Nat]

-----------------------------------------------------------------------------
(* The configuration.  Save writes all accounts; when it fails a handler   *)
(* that restores the previous record passes conf itself as new.            *)

Task == tasks < MaxTasks /\ tasks' = tasks + 1 /\ UNCHANGED <<moves, mishaps, reused>>
Move == moves < MaxMoves /\ moves' = moves + 1 /\ UNCHANGED <<tasks, mishaps>>
Mishap == mishaps < MaxMishaps /\ mishaps' = mishaps + 1 /\ UNCHANGED <<tasks, moves, reused>>

Saved(new) == conf' = new /\ disk' = new /\ UNCHANGED bounds
SaveFails(new) == Mishap /\ conf' = new /\ UNCHANGED disk

With(a, rec) == [conf EXCEPT ![a] = rec]

SetAccountBanStatus(a) == With(a, [conf[a] EXCEPT !.banned = TRUE, !.enabled = FALSE])
ClearAccountBanStatus(a) == With(a, [conf[a] EXCEPT !.banned = FALSE])
UpdateAccountInfo(a, over) == With(a, [conf[a] EXCEPT !.over = over])
UpdateAccountOverageStatus(a, on) == With(a, [conf[a] EXCEPT !.overage = on])
UpdateAccountProfileArn(a) == With(a, [conf[a] EXCEPT !.arn = TRUE])
DeleteAccount(a) == With(a, [conf[a] EXCEPT !.present = FALSE, !.enabled = FALSE])
AddAccount(a, v) ==
    With(a, [present |-> TRUE, enabled |-> TRUE, banned |-> FALSE, over |-> FALSE,
             overage |-> FALSE, arn |-> FALSE, version |-> v, served |-> 0])

(* Mutation: the credential of the caller's snapshot is written back.      *)
UpdateAccountWithCredential(a, rec) == With(a, rec)

(* The record of an edit, with the credential the configuration has now.   *)
UpdateAccount(a, rec) ==
    With(a, [rec EXCEPT !.version = conf[a].version, !.arn = conf[a].arn])

(* Mutation: the new version is published although it was not saved.       *)
UpdateAccountCredentialStateKept(a, v) ==
    [after |-> With(a, [conf[a] EXCEPT !.version = v]),
     undone |-> With(a, [conf[a] EXCEPT !.version = v])]

(* A refresh's result: what is stored, and what remains if Save fails.     *)
UpdateAccountCredentialState(a, v) ==
    [after |-> With(a, [conf[a] EXCEPT !.version = v]), undone |-> conf]

-----------------------------------------------------------------------------
(* The pool.                                                               *)

Near(a, rec) == rec.version <= lapsed[a]   \* ExpiresAt within the skew

QuotaBlocked(rec) == rec.over /\ ~rec.overage /\ ~overUse

(* Reload copies what is enabled and within quota.  A request that holds a *)
(* pointer keeps the copy it had, which nothing updates any more.          *)
Reload ==
    /\ pool' = [a \in Accounts |->
                  IF conf[a].enabled /\ ~QuotaBlocked(conf[a]) THEN conf[a]
                  ELSE [conf[a] EXCEPT !.present = FALSE]]
    /\ live' = {}

(* What the actor sees of its account: the shared entry or its own copy.   *)
View(p) == IF p \in live THEN pool[actor[p].id] ELSE actor[p].snap

(* Reload ends every sharing, so the holders keep what they saw.           *)
Frozen == [p \in Actors |-> [actor[p] EXCEPT !.snap = View(p)]]

Candidates(r) ==
    {a \in Accounts : /\ pool[a].present
                      /\ a \notin excluded[r]
                      /\ models[a] # "without"
                      /\ ~QuotaBlocked(pool[a])}

Ready(r) == {a \in Candidates(r) : cooling[a] # "future" /\ ~Near(a, pool[a])}

First(S) == {a \in S : \A b \in S : Rank[a] <= Rank[b]}

(* Mutation: the fallback takes the first account in the list.             *)
FallbackFirst(r) == First(Candidates(r))

(* The fallback: the first account without a cooldown entry, else the      *)
(* earliest cooldown, where an entry in the past comes before the others.  *)
Fallback(r) ==
    LET C == Candidates(r)
        Free == {a \in C : cooling[a] = "none"}
        Past == {a \in C : cooling[a] = "past"}
    IN IF Free # {} THEN First(Free) ELSE IF Past # {} THEN Past ELSE C

(* The round robin finds some ready account.  Its index is shared, so      *)
(* that two requests choosing together may each step over the ready one    *)
(* and come to the fallback.                                               *)
Choosable(r) ==
    LET Others == {q \in PoolRequests \ {r} : actor[q].at = "choose"}
    IN Ready(r) \cup IF Ready(r) = {} \/ Others # {} THEN Fallback(r) ELSE {}

RecordSuccess(a) ==
    cooling' = [cooling EXCEPT ![a] = "none"] /\ errors' = [errors EXCEPT ![a] = 0]

AtMostLimit(n) == IF n > ErrorLimit THEN ErrorLimit ELSE n

RecordError(a, quota) ==
    LET n == AtMostLimit(errors[a] + 1) IN
    /\ errors' = [errors EXCEPT ![a] = n]
    /\ cooling' = [cooling EXCEPT ![a] = IF quota \/ n = ErrorLimit THEN "future" ELSE @]

NobodyYet == [at |-> "idle", id |-> CHOOSE a \in Accounts : TRUE,
              snap |-> [present |-> FALSE, enabled |-> FALSE, banned |-> FALSE,
                        over |-> FALSE, overage |-> FALSE, arn |-> FALSE,
                        version |-> 0, served |-> 0],
              ret |-> "idle", resume |-> "idle", class |-> "none",
              force |-> FALSE, work |-> 0]

(* Who is done, or waits for its next task, remembers nothing.             *)
Settled(rec) == IF rec.at \in {"idle", "done"} THEN [NobodyYet EXCEPT !.at = rec.at] ELSE rec

Goto(p, label) == actor' = [actor EXCEPT ![p] = Settled([@ EXCEPT !.at = label])]

(* Publish a credential to the shared entry and to the caller's account.   *)
UpdateCredentialState(p, v) ==
    LET a == actor[p].id IN
    /\ pool' = [pool EXCEPT ![a].version = IF pool[a].present THEN v ELSE @]
    /\ actor' = [actor EXCEPT ![p] = Settled([@ EXCEPT !.snap.version = v, !.at = actor[p].ret])]

configVars == <<conf, disk, overUse>>
shared == <<pool, cooling, errors, models, live>>
tokens == <<lock, upstream, lapsed>>
loops == <<excluded, tries, sweep>>

(* An error of a refresh or a call: requests exclude the account and, like *)
(* the sweeper, classify the error; an operator's handler answers it.      *)
Fails(p, class) ==
    /\ actor' = [actor EXCEPT ![p] = Settled(
          [@ EXCEPT !.at = IF p = "operator" THEN actor[p].resume ELSE "failed",
                    !.class = class, !.ret = "idle"])]
    /\ excluded' = IF p \in PoolRequests
                   THEN [excluded EXCEPT ![p] = @ \cup {actor[p].id}] ELSE excluded
    /\ UNCHANGED <<tries, sweep>>

(* Where an actor goes on after a failure, or a reader after its account.  *)
Resume(p) == IF p = "sweeper" THEN "next" ELSE actor[p].resume

-----------------------------------------------------------------------------
(* A request: choose, refresh if needed, call, record.                     *)

BeginRequest(r) ==
    /\ actor[r].at = "idle"
    /\ Goto(r, "choose")
    /\ UNCHANGED <<configVars, shared, tokens, loops, bounds>>

(* GetNextForModelExcluding and the check ensureValidToken begins with.    *)
Choose(r) ==
    /\ actor[r].at = "choose" /\ tries[r] < MaxTries
    /\ \E a \in Choosable(r) :
          /\ actor' = [actor EXCEPT ![r].id = a, ![r].snap = pool[a],
                          ![r].ret = "call", ![r].resume = "choose", ![r].force = FALSE,
                          ![r].at = IF Near(a, pool[a]) THEN "refresh" ELSE "call"]
          /\ tries' = [tries EXCEPT ![r] = @ + 1]
    /\ live' = live \cup {r}
    /\ UNCHANGED <<configVars, pool, cooling, errors, models, tokens, excluded, sweep, bounds>>

(* No account is left, or the attempts are used up.                        *)
GiveUp(r) ==
    /\ actor[r].at = "choose"
    /\ tries[r] = MaxTries \/ Choosable(r) = {}
    /\ Goto(r, "done")
    /\ live' = live \ {r}
    /\ UNCHANGED <<configVars, pool, cooling, errors, models, tokens, loops, bounds>>

(* A call goes out with the profile, or after it was looked for in vain:   *)
(* a request's in any case, a REST call when the lookup does not serve     *)
(* accounts of this kind (isProfileArnResolutionSoftError).                *)
Bare == [call |-> "calling", info |-> "informing", listing |-> "enumerating",
         overage |-> "switching"]
Reading(p, label) == actor[p].at = Bare[label] \/ (actor[p].at = label /\ View(p).arn)

Calling(r) == Reading(r, "call")

CallSucceeds(r) ==
    /\ Calling(r)
    /\ RecordSuccess(actor[r].id)
    /\ Goto(r, "stats")
    /\ UNCHANGED <<configVars, pool, models, live, tokens, loops, bounds>>

(* pool.UpdateStats, which saves while it holds the pool's lock.           *)
UpdateStats(r) ==
    LET a == actor[r].id
        n == pool[a].served + 1
        new == With(a, [conf[a] EXCEPT !.served = n])
    IN
    /\ actor[r].at = "stats"
    /\ IF pool[a].present
       THEN /\ pool' = [pool EXCEPT ![a].served = n]
            /\ IF conf[a].present THEN Saved(new) \/ SaveFails(new)
               ELSE UNCHANGED <<conf, disk, bounds>>
       ELSE UNCHANGED <<pool, conf, disk, bounds>>
    /\ Goto(r, "done")
    /\ live' = live \ {r}
    /\ UNCHANGED <<overUse, cooling, errors, models, tokens, loops>>

Classes == {"overage", "quota", "suspended", "auth", "profile", "other"}

(* A call fails; once output was shown the request is not tried again.     *)
CallFails(r) ==
    /\ Calling(r)
    /\ \E class \in Classes, shown \in BOOLEAN :
          actor' = [actor EXCEPT ![r].at = IF class = "overage" THEN class ELSE "failed",
                                 ![r].class = class,
                                 ![r].resume = IF shown THEN "done" ELSE "choose"]
    /\ excluded' = [excluded EXCEPT ![r] = @ \cup {actor[r].id}]
    /\ UNCHANGED <<configVars, shared, tokens, tries, sweep, bounds>>

-----------------------------------------------------------------------------
(* handleAccountFailure.                                                   *)

Penalise(p) ==
    /\ \/ actor[p].at = "failed" /\ actor[p].class \in {"quota", "profile", "other"}
       \/ actor[p].at = "penalty"
    /\ RecordError(actor[p].id, actor[p].class = "quota")
    /\ Goto(p, Resume(p))
    /\ UNCHANGED <<configVars, pool, models, live, tokens, loops, bounds>>

(* disableAccount: without a save nothing is reloaded.                     *)
DisableAccount(p) ==
    LET a == actor[p].id IN
    /\ actor[p].at = "failed" /\ actor[p].class \in {"suspended", "auth"}
    /\ \/ /\ Saved(IF conf[a].present THEN SetAccountBanStatus(a) ELSE conf)
          /\ actor' = [actor EXCEPT ![p].at = "reload", ![p].ret = Resume(p)]
       \/ /\ conf[a].present /\ SaveFails(conf)
          /\ Goto(p, Resume(p))
    /\ UNCHANGED <<overUse, shared, tokens, loops>>

(* disableAccountOverage, and the administrator's overage handlers: the    *)
(* upstream answers what the switch is, or the handler gives up.           *)
Overage(p) ==
    LET a == actor[p].id
        fails == IF p = "operator" THEN "reload" ELSE "penalty"
    IN
    /\ Reading(p, "overage")
    /\ \/ \E on \in BOOLEAN :
             LET new == IF conf[a].present THEN UpdateAccountOverageStatus(a, on) ELSE conf IN
             \/ /\ Saved(new)
                /\ actor' = [actor EXCEPT ![p].at = "reload",
                                ![p].ret = IF p = "operator" THEN "idle" ELSE "penalty"]
             \/ /\ conf[a].present /\ SaveFails(new)
                /\ actor' = [actor EXCEPT ![p].at = fails, ![p].ret = "idle"]
       \/ /\ UNCHANGED <<conf, disk, bounds>>
          /\ Goto(p, IF p = "operator" THEN "idle" ELSE "penalty")
    /\ UNCHANGED <<overUse, shared, tokens, loops>>

ReloadStep(p) ==
    /\ actor[p].at = "reload"
    /\ Reload
    /\ actor' = [Frozen EXCEPT ![p] = Settled([@ EXCEPT !.at = actor[p].ret])]
    /\ UNCHANGED <<configVars, cooling, errors, models, tokens, loops, bounds>>

-----------------------------------------------------------------------------
(* refreshAccountToken: the configuration's credential is read, exchanged, *)
(* saved and published under one lock; the actor goes on at ret.           *)

RefreshReads(p) ==
    LET a == actor[p].id IN
    /\ actor[p].at = "refresh" /\ lock = "free"
    /\ \/ /\ ~conf[a].present
          /\ Fails(p, "other")
          /\ UNCHANGED <<pool, lock>>
       \/ /\ conf[a].present /\ ~actor[p].force /\ ~Near(a, conf[a])
          /\ UpdateCredentialState(p, conf[a].version)
          /\ UNCHANGED <<lock, loops>>
       \/ /\ conf[a].present
          /\ actor[p].force \/ Near(a, conf[a])
          /\ lock' = p
          /\ actor' = [actor EXCEPT ![p].at = "exchange", ![p].work = conf[a].version]
          /\ UNCHANGED <<pool, loops>>
    /\ UNCHANGED <<configVars, cooling, errors, models, live, upstream, lapsed, bounds>>

(* Mutation: an early return forgets the lock.                             *)
RefreshFailsHoldingLock(p, class) == Fails(p, class) /\ UNCHANGED lock

RefreshFails(p, class) == Fails(p, class) /\ lock' = "free"

(* auth.RefreshToken: the provider answers with the next version, or its   *)
(* answer is lost, or it knows the token no more, or it is out of reach.   *)
Exchange(p) ==
    LET a == actor[p].id
        current == actor[p].work = upstream[a] /\ upstream[a] < MaxVersion
    IN
    /\ actor[p].at = "exchange"
    /\ \/ /\ current
          /\ upstream' = [upstream EXCEPT ![a] = @ + 1]
          /\ actor' = [actor EXCEPT ![p].at = "persist", ![p].work = @ + 1]
          /\ UNCHANGED <<lock, loops, bounds>>
       \/ /\ Mishap
          /\ upstream' = [upstream EXCEPT ![a] = IF current THEN @ + 1 ELSE @]
          /\ RefreshFails(p, "other")
       \/ /\ ~current
          /\ RefreshFails(p, IF actor[p].work = upstream[a] THEN "other" ELSE "auth")
          /\ UNCHANGED <<upstream, bounds>>
    /\ UNCHANGED <<configVars, shared, lapsed>>

Persist(p) ==
    LET a == actor[p].id
        result == UpdateAccountCredentialState(a, actor[p].work)
    IN
    /\ actor[p].at = "persist"
    /\ \/ /\ conf[a].present
          /\ Saved(result.after)
          /\ Goto(p, "publish")
          /\ UNCHANGED <<lock, loops>>
       \/ /\ conf[a].present /\ SaveFails(result.undone)
          /\ RefreshFails(p, "other")
       \/ /\ ~conf[a].present
          /\ RefreshFails(p, "other")
          /\ UNCHANGED <<conf, disk, bounds>>
    /\ UNCHANGED <<overUse, shared, upstream, lapsed>>

Publish(p) ==
    /\ actor[p].at = "publish"
    /\ UpdateCredentialState(p, actor[p].work)
    /\ lock' = "free"
    /\ UNCHANGED <<configVars, cooling, errors, models, live, upstream, lapsed, loops, bounds>>

(* ResolveProfileArn, before a call or a REST request of an account that   *)
(* has no profile: its own exchange is outside the lock, and the rotated   *)
(* token it brings is dropped.  Without a profile a call goes on, a REST   *)
(* request only after a soft error.                                        *)
ResolveProfileArn(p) ==
    LET a == actor[p].id IN
    /\ actor[p].at \in {"call", "overage", "info", "listing"} /\ ~View(p).arn
    /\ \E exchanges \in BOOLEAN :
          /\ exchanges => View(p).version = upstream[a] /\ upstream[a] < MaxVersion
          /\ upstream' = [upstream EXCEPT ![a] = IF exchanges THEN @ + 1 ELSE @]
    /\ \/ /\ IF conf[a].present
             THEN Saved(UpdateAccountProfileArn(a)) \/ SaveFails(conf)
             ELSE UNCHANGED <<conf, disk, bounds>>
          /\ actor' = [actor EXCEPT ![p].snap.arn = TRUE]
          /\ pool' = [pool EXCEPT ![a].arn = @ \/ p \in live]
          /\ UNCHANGED loops
       \/ /\ Goto(p, Bare[actor[p].at])
          /\ UNCHANGED <<conf, disk, bounds, pool, loops>>
       \/ /\ actor[p].at # "call"
          /\ IF actor[p].at = "overage" /\ p # "operator"
             THEN Goto(p, "penalty") /\ UNCHANGED loops
             ELSE IF actor[p].at = "info"
             THEN actor' = [actor EXCEPT ![p] = Settled([@ EXCEPT !.at = Resume(p), !.ret = "idle"])]
                  /\ UNCHANGED loops
             ELSE Fails(p, "profile")
          /\ UNCHANGED <<conf, disk, bounds, pool>>
    /\ UNCHANGED <<overUse, cooling, errors, models, live, lock, lapsed>>

-----------------------------------------------------------------------------
(* RefreshAccountInfo and ListAvailableModels, for the sweep and the       *)
(* administrator.                                                          *)

(* The answer clears a ban, if the reader's copy of the account has one.   *)
InfoArrives(p) ==
    /\ Reading(p, "info")
    /\ IF actor[p].snap.banned /\ conf[actor[p].id].present
       THEN Saved(ClearAccountBanStatus(actor[p].id)) \/ SaveFails(conf)
       ELSE UNCHANGED <<conf, disk, bounds>>
    /\ Goto(p, "store")
    /\ UNCHANGED <<overUse, shared, tokens, loops>>

StoreInfo(p) ==
    LET a == actor[p].id IN
    /\ actor[p].at = "store"
    /\ IF conf[a].present
       THEN \E over \in BOOLEAN :
               Saved(UpdateAccountInfo(a, over)) \/ SaveFails(UpdateAccountInfo(a, over))
       ELSE UNCHANGED <<conf, disk, bounds>>
    /\ actor' = [actor EXCEPT ![p] = Settled([@ EXCEPT !.at = Resume(p), !.ret = "idle"])]
    /\ UNCHANGED <<overUse, shared, tokens, loops>>

(* A refusal bans the account in the configuration; the pool keeps it.     *)
(* apiRefreshAccount refreshes the token and reads again, once.            *)
InfoRefused(p) ==
    LET a == actor[p].id IN
    /\ Reading(p, "info")
    /\ \E class \in {"suspended", "auth", "other"} :
          /\ IF class # "other" /\ conf[a].present
             THEN Saved(SetAccountBanStatus(a)) \/ SaveFails(conf)
             ELSE UNCHANGED <<conf, disk, bounds>>
          /\ IF p = "operator" /\ class = "auth" /\ actor[p].class = "fresh"
             THEN actor' = [actor EXCEPT ![p].at = "refresh", ![p].ret = "info",
                                         ![p].class = "again", ![p].force = TRUE]
             ELSE actor' = [actor EXCEPT ![p] = Settled([@ EXCEPT !.at = Resume(p), !.ret = "idle"])]
    /\ UNCHANGED <<overUse, shared, tokens, loops>>

SetModelList(p) ==
    /\ Reading(p, "listing")
    /\ \/ /\ \E list \in {"with", "without"} :
                models' = [models EXCEPT ![actor[p].id] = list]
          /\ Goto(p, Resume(p))
          /\ UNCHANGED loops
       \/ \E class \in {"auth", "other"} : Fails(p, class) /\ UNCHANGED models
    /\ UNCHANGED <<configVars, pool, cooling, errors, live, tokens, bounds>>

(* refreshAllAccounts and refreshModelsCache walk over a copy of the       *)
(* enabled accounts; the first reloads the pool at its end.                *)
SweepStarts ==
    /\ actor["sweeper"].at = "idle" /\ Task
    /\ \E work \in {"info", "listing"} :
          actor' = [actor EXCEPT !["sweeper"].at = "next", !["sweeper"].resume = work,
                                 !["sweeper"].class = "none", !["sweeper"].force = FALSE]
    /\ sweep' = [a \in Accounts |->
                   [conf[a] EXCEPT !.present = conf[a].present /\ conf[a].enabled]]
    /\ UNCHANGED <<configVars, shared, tokens, excluded, tries>>

SweepNext ==
    LET left == {a \in Accounts : sweep[a].present}
        work == actor["sweeper"].resume
    IN
    /\ actor["sweeper"].at = "next"
    /\ IF left = {}
       THEN /\ actor' = [actor EXCEPT !["sweeper"] =
                   Settled([@ EXCEPT !.at = IF work = "info" THEN "reload" ELSE "idle",
                                     !.ret = "idle"])]
            /\ UNCHANGED sweep
       ELSE \E a \in First(left) :
            /\ actor' = [actor EXCEPT !["sweeper"].id = a, !["sweeper"].snap = sweep[a],
                            !["sweeper"].ret = work,
                            !["sweeper"].at = IF Near(a, sweep[a]) THEN "refresh" ELSE work]
            /\ sweep' = [sweep EXCEPT ![a].present = FALSE]
    /\ UNCHANGED <<configVars, shared, tokens, excluded, tries, bounds>>

-----------------------------------------------------------------------------
(* The administrator.  A handler copies the account first.                 *)

(* The handlers by what follows the copy: the next label, where they end,  *)
(* whether they exchange the token in any case, and what follows that.     *)
Handlers(rec, near) ==
    {[at |-> "edit", resume |-> "idle", force |-> FALSE, ret |-> "idle"],
     [at |-> "batch", resume |-> "idle", force |-> FALSE, ret |-> "idle"],
     [at |-> IF near THEN "refresh" ELSE "info", resume |-> "idle", force |-> TRUE, ret |-> "info"],
     [at |-> "refresh", resume |-> "reload", force |-> TRUE, ret |-> "info"],
     [at |-> "overage", resume |-> "idle", force |-> FALSE, ret |-> "idle"],
     [at |-> IF near THEN "refresh" ELSE "listing", resume |-> "idle", force |-> FALSE,
      ret |-> "listing"],
     [at |-> "listing", resume |-> "idle", force |-> FALSE, ret |-> "idle"]}

OperatorCopies ==
    /\ actor["operator"].at = "idle" /\ Task
    /\ \E a \in Accounts :
          /\ conf[a].present
          /\ \E h \in Handlers(conf[a], Near(a, conf[a])) :
                actor' = [actor EXCEPT !["operator"] =
                            [at |-> h.at, id |-> a, snap |-> conf[a], ret |-> h.ret,
                             resume |-> h.resume, force |-> h.force, work |-> 0,
                             class |-> IF h.resume = "reload" THEN "batch" ELSE "fresh"]]
    /\ UNCHANGED <<configVars, shared, tokens, loops>>

(* The models of an account that was not enabled before are fetched.       *)
ThenModels(rec) ==
    IF rec.enabled /\ ~actor["operator"].snap.enabled
    THEN IF Near(actor["operator"].id, rec) THEN "refresh" ELSE "listing"
    ELSE "idle"

(* apiUpdateAccount writes the whole copy back, with the fields it got.    *)
ApiUpdateAccount ==
    LET o == actor["operator"] IN
    /\ o.at = "edit"
    /\ \E enabled \in BOOLEAN :
          LET rec == [o.snap EXCEPT !.enabled = enabled] IN
          \/ /\ Saved(IF conf[o.id].present THEN UpdateAccount(o.id, rec) ELSE conf)
             /\ actor' = [actor EXCEPT !["operator"].at = "reload",
                             !["operator"].ret = ThenModels(rec), !["operator"].snap = rec]
          \/ /\ SaveFails(conf) /\ Goto("operator", "idle")
    /\ UNCHANGED <<overUse, shared, tokens, loops>>

(* apiBatchAccounts on the copy: enabling also ends a ban, and a failure   *)
(* to save is not looked at.                                               *)
ApiBatchAccounts ==
    LET o == actor["operator"] IN
    /\ o.at = "batch"
    /\ \E enabled \in BOOLEAN :
          LET rec == [o.snap EXCEPT !.enabled = enabled, !.banned = @ /\ ~enabled] IN
          /\ \/ Saved(IF conf[o.id].present THEN UpdateAccount(o.id, rec) ELSE conf)
             \/ SaveFails(conf)
          /\ actor' = [actor EXCEPT !["operator"].at = "reload",
                          !["operator"].ret = ThenModels(rec), !["operator"].snap = rec]
    /\ UNCHANGED <<overUse, shared, tokens, loops>>

ApiDeleteAccount ==
    /\ actor["operator"].at = "idle" /\ Move /\ UNCHANGED reused
    /\ \E a \in Accounts :
          /\ conf[a].present
          /\ conf' = DeleteAccount(a)
          /\ \/ disk' = conf' /\ actor' = [actor EXCEPT !["operator"].at = "reload",
                                                        !["operator"].ret = "idle"]
             \/ UNCHANGED <<disk, actor>>
    /\ UNCHANGED <<overUse, shared, tokens, loops>>

BeingRefreshed(a) ==
    \E p \in Actors : actor[p].at \in {"exchange", "persist", "publish"} /\ actor[p].id = a

(* An id is given to an account with the credential of a later login.      *)
(* Nothing tells a refresh on its way for the account that had it before   *)
(* from one of the account that has it now.                                *)
ApiAddAccount ==
    /\ actor["operator"].at = "idle" /\ Move
    /\ \E a \in Accounts :
          /\ ~conf[a].present /\ upstream[a] < MaxVersion
          /\ upstream' = [upstream EXCEPT ![a] = @ + 1]
          /\ conf' = AddAccount(a, upstream[a] + 1) /\ disk' = conf'
          /\ reused' = {b \in Accounts : b \in reused \/ (b = a /\ BeingRefreshed(a))}
          /\ actor' = [actor EXCEPT !["operator"] =
                         [at |-> "reload", id |-> a, snap |-> conf'[a], ret |-> "listing",
                          resume |-> "idle", force |-> FALSE, work |-> 0, class |-> "fresh"]]
    /\ UNCHANGED <<overUse, shared, lock, lapsed, loops>>

ApiUpdateSettings ==
    /\ actor["operator"].at = "idle" /\ Task
    /\ overUse' = ~overUse
    /\ actor' = [actor EXCEPT !["operator"].at = "reload", !["operator"].ret = "idle"]
    /\ UNCHANGED <<conf, disk, shared, tokens, loops>>

-----------------------------------------------------------------------------
(* Time, and the end of the process.                                       *)

TokenExpires(a) ==
    /\ lapsed[a] < upstream[a] /\ Mishap
    /\ lapsed' = [lapsed EXCEPT ![a] = upstream[a]]
    /\ UNCHANGED <<configVars, shared, lock, upstream, actor, loops>>

CooldownEnds(a) ==
    /\ cooling[a] = "future"
    /\ cooling' = [cooling EXCEPT ![a] = "past"]
    /\ UNCHANGED <<configVars, pool, errors, models, live, tokens, actor, loops, bounds>>

Enabled(c) == [a \in Accounts |->
    IF c[a].enabled /\ ~QuotaBlocked(c[a]) THEN c[a] ELSE [c[a] EXCEPT !.present = FALSE]]

Restart ==
    /\ mishaps < MaxMishaps /\ mishaps' = mishaps + 1 /\ UNCHANGED <<tasks, moves>> /\ reused' = {}
    /\ conf' = disk /\ pool' = Enabled(disk)
    /\ cooling' = [a \in Accounts |-> "none"] /\ errors' = [a \in Accounts |-> 0]
    /\ models' = [a \in Accounts |-> "unknown"]
    /\ lock' = "free" /\ live' = {}
    /\ actor' = [p \in Actors |->
                   IF p \in PoolRequests /\ actor[p].at # "idle"
                   THEN [NobodyYet EXCEPT !.at = "done"] ELSE NobodyYet]
    /\ excluded' = [r \in PoolRequests |-> {}] /\ tries' = [r \in PoolRequests |-> 0]
    /\ sweep' = [a \in Accounts |-> [disk[a] EXCEPT !.present = FALSE]]
    /\ UNCHANGED <<disk, overUse, upstream, lapsed>>

Fresh == [present |-> TRUE, enabled |-> TRUE, banned |-> FALSE, over |-> FALSE,
          overage |-> FALSE, arn |-> TRUE, version |-> 1, served |-> 0]

(* Some accounts are known, of some a later login was made elsewhere, some *)
(* of their access tokens have expired, some rest after a quota error; some *)
(* requests come.                                                          *)
PoolInit ==
    /\ \E known \in SUBSET Accounts :
          conf = [a \in Accounts |-> IF a \in known THEN Fresh
                                     ELSE [Fresh EXCEPT !.present = FALSE, !.enabled = FALSE]]
    /\ disk = conf /\ pool = conf
    /\ overUse = FALSE
    /\ cooling \in [Accounts -> {"none", "future"}]
    /\ errors = [a \in Accounts |-> IF cooling[a] = "none" THEN 0 ELSE 1]
    /\ models = [a \in Accounts |-> "unknown"]
    /\ lock = "free"
    /\ upstream \in [Accounts -> 1..MaxVersion] /\ lapsed \in [Accounts -> 0..1]
    /\ \E waiting \in SUBSET PoolRequests :
          actor = [p \in Actors |-> IF p \in PoolRequests \ waiting
                                    THEN [NobodyYet EXCEPT !.at = "done"] ELSE NobodyYet]
    /\ live = {}
    /\ excluded = [r \in PoolRequests |-> {}] /\ tries = [r \in PoolRequests |-> 0]
    /\ sweep = [a \in Accounts |-> [Fresh EXCEPT !.present = FALSE]]
    /\ tasks \in 0..MaxTasks /\ moves \in 0..MaxMoves /\ mishaps \in 0..MaxMishaps
    /\ reused = {}

(* The steps of a goroutine that is under way.                             *)
Proceeds(p) ==
    \/ Penalise(p) \/ DisableAccount(p) \/ Overage(p) \/ ReloadStep(p)
    \/ RefreshReads(p) \/ Exchange(p) \/ Persist(p) \/ Publish(p) \/ ResolveProfileArn(p)

RequestStep(r) ==
    Choose(r) \/ GiveUp(r) \/ CallSucceeds(r) \/ UpdateStats(r) \/ CallFails(r) \/ Proceeds(r)

ReaderStep(p) ==
    InfoArrives(p) \/ StoreInfo(p) \/ InfoRefused(p) \/ SetModelList(p) \/ Proceeds(p)

Operator ==
    \/ OperatorCopies \/ ApiUpdateAccount \/ ApiBatchAccounts \/ ApiDeleteAccount
    \/ ApiAddAccount \/ ApiUpdateSettings \/ ReaderStep("operator")

PoolNext ==
    \/ \E r \in PoolRequests : BeginRequest(r) \/ RequestStep(r)
    \/ Operator
    \/ SweepStarts \/ SweepNext \/ ReaderStep("sweeper")
    \/ \E a \in Accounts : TokenExpires(a) \/ CooldownEnds(a)
    \/ Restart

-----------------------------------------------------------------------------
PoolTypeOK ==
    /\ {conf, disk, pool, sweep} \subseteq [Accounts -> AccountRecord]
    /\ overUse \in BOOLEAN /\ lock \in Actors \cup {"free"}
    /\ cooling \in [Accounts -> {"none", "past", "future"}]
    /\ errors \in [Accounts -> 0..ErrorLimit]
    /\ models \in [Accounts -> {"unknown", "with", "without"}]
    /\ {upstream, lapsed} \subseteq [Accounts -> 0..MaxVersion]
    /\ live \subseteq PoolRequests
    /\ excluded \in [PoolRequests -> SUBSET Accounts]
    /\ tries \in [PoolRequests -> 0..MaxTries]
    /\ tasks \in 0..MaxTasks /\ moves \in 0..MaxMoves /\ mishaps \in 0..MaxMishaps
    /\ reused \subseteq Accounts

(* refreshAccountToken saves a new credential before it publishes it: what *)
(* the pool or any request, sweep or handler holds is on disk, so that no  *)
(* crash loses a refresh token whose predecessor the provider has already  *)
(* forgotten (UpdateAccountCredentialState restores what was there when    *)
(* the save fails).  The code cannot promise it of an id that was deleted  *)
(* and added again while a refresh of it was on its way: that refresh      *)
(* finds the new account by its id, and may save and publish the earlier   *)
(* account's credential over the one the new login brought.                *)
PublishedIsPersisted ==
    /\ \A a \in Accounts \ reused : pool[a].present => pool[a].version <= disk[a].version
    /\ \A p \in Actors :
          actor[p].id \notin reused => actor[p].snap.version <= disk[actor[p].id].version

(* No write of the configuration brings back an earlier credential: not an *)
(* edit with the copy its handler made before a refresh (UpdateAccount     *)
(* keeps the stored credential), not a refresh that waited for the lock,   *)
(* not a crash, and not a refresh on its way when its account was deleted, *)
(* unless the id was given to a new account meanwhile.                     *)
CredentialsNeverRegress ==
    [][\A a \in Accounts \ reused : conf[a].version <= conf'[a].version]_poolVars

(* GetNextForModelExcluding: a request falls back on an account that cools *)
(* down only when every account it may still use does, whatever reloads,   *)
(* errors and other requests did to the pool since the error.              *)
RestedFirst ==
    [][\A r \in PoolRequests :
         tries'[r] > tries[r] /\ cooling[actor'[r].id] = "future" =>
           \A a \in Candidates(r) : cooling[a] = "future"]_poolVars

(* A goroutine that may proceed does, and a mutex that is released again   *)
(* and again is obtained in the end (sync.Mutex does not starve a waiter). *)
PoolFairness ==
    /\ \A r \in PoolRequests : WF_poolVars(RequestStep(r)) /\ SF_poolVars(RefreshReads(r))
    /\ \A p \in Actors : WF_poolVars(Exchange(p) \/ Persist(p) \/ Publish(p))

(* handleMessages and its fail-over loop: a request that began ends, with  *)
(* an answer or without an account left, although accounts fail, are       *)
(* disabled, deleted or refreshed by others, and saves fail.               *)
RequestsAnswered ==
    \A r \in PoolRequests : actor[r].at = "choose" ~> actor[r].at = "done"

PoolSpec == PoolInit /\ [][PoolNext]_poolVars
FairPoolSpec == PoolSpec /\ PoolFairness
=============================================================================
