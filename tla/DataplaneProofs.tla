--------------------------- MODULE DataplaneProofs ---------------------------
(***************************************************************************)
(* Proofs about the upstream accounts, for any number of accounts and      *)
(* requests, any limits and any number of edits and mishaps: the tables    *)
(* keep their types, a cooling account is the last choice, and credentials *)
(* are on disk before anybody uses them and never go back.  Then about the *)
(* logins and imports that add accounts: a cancelled login adds none, and  *)
(* an exported credential is imported once.                                *)
(***************************************************************************)
EXTENDS MCDataplane, FiniteSetTheorems, SequenceTheorems, TLAPS

Refreshing == {"exchange", "persist", "publish"}

(* Where a goroutine may be sent to: anywhere but into a refresh's middle. *)
Targets == {"idle", "choose", "refresh", "call", "calling", "stats", "failed", "overage",
            "penalty", "reload", "info", "store", "listing", "informing", "enumerating",
            "switching", "next", "edit", "batch", "done"}

ActorRecord ==
    [at: Targets \cup Refreshing, id: Accounts, snap: AccountRecord,
     ret: Targets, resume: Targets, force: BOOLEAN, work: 0..MaxVersion,
     class: Classes \cup {"none", "fresh", "batch", "again"}]

Typed == PoolTypeOK /\ actor \in [Actors -> ActorRecord]

(* The configuration and the disk have the same credentials, none newer    *)
(* than the provider's, and every copy has one at most as new, unless its  *)
(* id was given to a new account while it was refreshed.                   *)
CopiesBehind ==
    \A a \in Accounts :
       /\ conf[a].version = disk[a].version /\ disk[a].version <= upstream[a]
       /\ a \notin reused =>
             pool[a].version <= disk[a].version /\ sweep[a].version <= disk[a].version

(* What a goroutine holds of its account: its copy is no newer than the    *)
(* disk, it refreshes under the lock, and between exchange and save it has *)
(* the newest credential, which the configuration has after the save.      *)
HoldsOK(p) ==
    LET rec == actor[p] IN
    /\ rec.at \in Refreshing => lock = p
    /\ rec.at = "persist" => rec.work <= upstream[rec.id]
    /\ rec.id \notin reused =>
          /\ rec.snap.version <= disk[rec.id].version
          /\ rec.at = "persist" => conf[rec.id].version <= rec.work
          /\ rec.at = "publish" => rec.work <= disk[rec.id].version

VersionsOrdered == CopiesBehind /\ \A p \in Actors : HoldsOK(p)

(* One goroutine moves, and is not in the middle of a refresh afterwards.  *)
Moved(p) ==
    /\ actor' \in [Actors -> ActorRecord]
    /\ \A q \in Actors : q # p => actor'[q] = actor[q]
    /\ actor'[p].at \notin Refreshing

(* It has forgotten its account or has the same copy of it as before.      *)
KeepsCopy(p) ==
    \/ actor'[p].snap.version = 0
    \/ actor'[p].id = actor[p].id /\ actor'[p].snap.version = actor[p].snap.version

(* An edit of the accounts' other fields.                                  *)
KeepsCredentials(new) ==
    /\ new \in [Accounts -> AccountRecord]
    /\ \A a \in Accounts : new[a].version = conf[a].version

(* What was written, if anything, keeps them, in memory and on disk.       *)
ConfigKept ==
    /\ {conf', disk'} \subseteq [Accounts -> AccountRecord]
    /\ tasks' \in 0..MaxTasks /\ moves' \in 0..MaxMoves /\ mishaps' \in 0..MaxMishaps
    /\ reused' = reused
    /\ CopiesBehind => \A a \in Accounts : /\ conf'[a].version = conf[a].version
                                           /\ disk'[a].version = disk[a].version

(* The configuration and the disk keep their credentials, and no copy is   *)
(* newer.                                                                  *)
KeepsOrder ==
    \A a \in Accounts :
       /\ conf'[a].version = conf[a].version /\ disk'[a].version = disk[a].version
       /\ a \notin reused =>
             pool'[a].version <= disk[a].version /\ sweep'[a].version <= disk[a].version

(* What every step shall do.                                               *)
NoneRegresses == \A a \in Accounts \ reused : conf[a].version <= conf'[a].version
Keeps == Typed' /\ (VersionsOrdered => VersionsOrdered' /\ NoneRegresses)

(* What a step does to the tables when it brings no new credential.        *)
Quiet(p) ==
    /\ {conf', disk', pool', sweep'} \subseteq [Accounts -> AccountRecord]
    /\ overUse' \in BOOLEAN /\ lock' \in Actors \cup {"free"}
    /\ cooling' \in [Accounts -> {"none", "past", "future"}]
    /\ errors' \in [Accounts -> 0..ErrorLimit]
    /\ models' \in [Accounts -> {"unknown", "with", "without"}]
    /\ {upstream', lapsed'} \subseteq [Accounts -> 0..MaxVersion]
    /\ \A a \in Accounts : upstream[a] <= upstream'[a]
    /\ live' \subseteq PoolRequests
    /\ excluded' \in [PoolRequests -> SUBSET Accounts]
    /\ tries' \in [PoolRequests -> 0..MaxTries]
    /\ tasks' \in 0..MaxTasks /\ moves' \in 0..MaxMoves /\ mishaps' \in 0..MaxMishaps
    /\ reused' = reused
    /\ VersionsOrdered => KeepsOrder /\ (lock' = lock \/ lock = p)

-----------------------------------------------------------------------------
(* Records of accounts and goroutines.                                     *)

(* An account that is listed or not has the same credential.               *)
LEMMA PresenceEdited ==
    ASSUME NEW rec \in AccountRecord, NEW f \in BOOLEAN
    PROVE  /\ [rec EXCEPT !.present = f] \in AccountRecord
           /\ [rec EXCEPT !.present = f].version = rec.version
BY DEF AccountRecord

(* A goroutine that is done forgets its account (Settled).                 *)
LEMMA NobodyTyped == NobodyYet \in ActorRecord /\ NobodyYet.at = "idle" /\ NobodyYet.snap.version = 0
<1>1. (CHOOSE a \in Accounts : TRUE) \in Accounts BY PoolAssumption
<1> QED BY <1>1, PoolAssumption DEF NobodyYet, ActorRecord, AccountRecord, Targets

(* A record that was settled is typed, at the same place, and forgets its  *)
(* copy or keeps it.                                                       *)
LEMMA SettledTyped ==
    ASSUME NEW rec \in ActorRecord
    PROVE  /\ Settled(rec) \in ActorRecord /\ Settled(rec).at = rec.at
           /\ Settled(rec) = rec \/ Settled(rec).snap.version = 0
<1> DEFINE n == NobodyYet
<1>1. n \in ActorRecord /\ n.snap.version = 0 BY NobodyTyped
<1> HIDE DEF n
<1>2. CASE rec.at \in {"idle", "done"}
  <2>1. Settled(rec) = [n EXCEPT !.at = rec.at] BY <1>2 DEF Settled, n
  <2> QED BY <1>1, <1>2, <2>1 DEF ActorRecord, Targets
<1>3. CASE rec.at \notin {"idle", "done"} BY <1>3 DEF Settled
<1> QED BY <1>2, <1>3

(* A goroutine that goes on with a record of its own (Goto, Fails).        *)
LEMMA Settles ==
    ASSUME Typed, NEW p \in Actors, NEW rec \in ActorRecord, rec.at \notin Refreshing,
           actor' = [actor EXCEPT ![p] = Settled(rec)]
    PROVE  /\ Moved(p)
           /\ rec.id = actor[p].id /\ rec.snap.version = actor[p].snap.version => KeepsCopy(p)
           /\ actor'[p] = rec \/ actor'[p].snap.version = 0
<1> DEFINE s == Settled(rec)
<1>1. s \in ActorRecord /\ s.at = rec.at /\ (s = rec \/ s.snap.version = 0)
  BY SettledTyped
<1> HIDE DEF s
<1>2. actor' = [actor EXCEPT ![p] = s] BY DEF s
<1> QED BY <1>1, <1>2 DEF Typed, Moved, KeepsCopy

(* Goto, to a place outside of a refresh.                                  *)
LEMMA ActorGoes ==
    ASSUME Typed, NEW p \in Actors, NEW label \in Targets, Goto(p, label)
    PROVE  Moved(p) /\ KeepsCopy(p)
<1> DEFINE rec == [actor[p] EXCEPT !.at = label]
<1>1. rec \in ActorRecord /\ rec.at = label /\ rec.id = actor[p].id /\ rec.snap = actor[p].snap
  BY DEF Typed, ActorRecord
<1>2. actor' = [actor EXCEPT ![p] = Settled(rec)] BY DEF Goto
<1>3. rec.at \notin Refreshing BY <1>1 DEF Targets, Refreshing
<1> HIDE DEF rec
<1> QED BY <1>1, <1>2, <1>3, Settles

(* Fails, which only an operator's handler or a request's loop goes on     *)
(* from; the request excludes its account.                                 *)
LEMMA FailsGoes ==
    ASSUME Typed, NEW p \in Actors, NEW class \in Classes, Fails(p, class)
    PROVE  /\ Moved(p) /\ KeepsCopy(p)
           /\ excluded' \in [PoolRequests -> SUBSET Accounts] /\ UNCHANGED <<tries, sweep>>
<1> DEFINE old == actor[p]
           to == IF p = "operator" THEN old.resume ELSE "failed"
           rec == [old EXCEPT !.at = to, !.class = class, !.ret = "idle"]
<1>0. old \in ActorRecord /\ to \in Targets BY DEF Typed, ActorRecord, Targets
<1>1. rec \in ActorRecord /\ rec.at \in Targets /\ rec.id = old.id /\ rec.snap = old.snap
  <2> HIDE DEF old, to
  <2> QED BY <1>0 DEF ActorRecord, Targets
<1>2. actor' = [actor EXCEPT ![p] = Settled(rec)] BY DEF Fails
<1>3. rec.at \notin Refreshing BY <1>1 DEF Targets, Refreshing
<1>4. actor[p].id \in Accounts BY DEF Typed, ActorRecord
<1>5. excluded' \in [PoolRequests -> SUBSET Accounts]
  BY <1>4 DEF Typed, PoolTypeOK, Fails
<1> HIDE DEF rec
<1> QED BY <1>1, <1>2, <1>3, <1>5, Settles DEF Fails

(* Where a failed goroutine goes on is outside of a refresh.               *)
LEMMA Resumes == ASSUME Typed, NEW p \in Actors PROVE Resume(p) \in Targets
BY DEF Typed, ActorRecord, Resume, Targets

-----------------------------------------------------------------------------
(* Writes of the configuration that leave the credentials alone.           *)

(* With replaces the record of one account.                                *)
LEMMA WithTyped ==
    ASSUME Typed, NEW a \in Accounts, NEW rec \in AccountRecord
    PROVE  /\ With(a, rec) \in [Accounts -> AccountRecord]
           /\ With(a, rec)[a] = rec /\ \A b \in Accounts : b # a => With(a, rec)[b] = conf[b]
BY DEF Typed, PoolTypeOK, With

(* An edit of one record that keeps its version keeps all of them.         *)
LEMMA WithKeeps ==
    ASSUME Typed, NEW a \in Accounts, NEW rec \in AccountRecord,
           rec.version = conf[a].version
    PROVE  KeepsCredentials(With(a, rec))
<1>1. ASSUME NEW b \in Accounts PROVE With(a, rec)[b].version = conf[b].version
  <2>1. CASE b = a BY <2>1, WithTyped
  <2>2. CASE b # a BY <2>2, WithTyped
  <2> QED BY <2>1, <2>2
<1> QED BY <1>1, WithTyped DEF KeepsCredentials

(* The edits of config.go, but for the credential's, keep every version.   *)
LEMMA EditsKeep ==
    ASSUME Typed, NEW a \in Accounts, NEW flag \in BOOLEAN
    PROVE  /\ KeepsCredentials(conf)
           /\ KeepsCredentials(SetAccountBanStatus(a))
           /\ KeepsCredentials(ClearAccountBanStatus(a))
           /\ KeepsCredentials(UpdateAccountInfo(a, flag))
           /\ KeepsCredentials(UpdateAccountOverageStatus(a, flag))
           /\ KeepsCredentials(UpdateAccountProfileArn(a))
           /\ KeepsCredentials(DeleteAccount(a))
<1>1. conf[a] \in AccountRecord BY DEF Typed, PoolTypeOK
<1> DEFINE c == conf[a]
           r3 == [c EXCEPT !.banned = TRUE, !.enabled = FALSE]
           r4 == [c EXCEPT !.banned = FALSE]
           r5 == [c EXCEPT !.over = flag]
           r6 == [c EXCEPT !.overage = flag]
           r7 == [c EXCEPT !.arn = TRUE]
           r8 == [c EXCEPT !.present = FALSE, !.enabled = FALSE]
<1>2. \A r \in {r3, r4, r5, r6, r7, r8} : r \in AccountRecord /\ r.version = c.version
  <2> HIDE DEF c
  <2>1. c \in AccountRecord BY <1>1 DEF c
  <2> QED BY <2>1 DEF AccountRecord
<1> HIDE DEF r3, r4, r5, r6, r7, r8
<1>3. \A r \in {r3, r4, r5, r6, r7, r8} : KeepsCredentials(With(a, r)) BY <1>2, WithKeeps
<1>4. KeepsCredentials(conf) BY DEF Typed, PoolTypeOK, KeepsCredentials
<1> QED
  BY <1>3, <1>4
  DEF SetAccountBanStatus, ClearAccountBanStatus, UpdateAccountInfo, UpdateAccountOverageStatus,
      UpdateAccountProfileArn, DeleteAccount, r3, r4, r5, r6, r7, r8

(* The administrator's edit keeps the stored credential.                   *)
LEMMA UpdateKeeps ==
    ASSUME Typed, NEW a \in Accounts, NEW rec \in AccountRecord
    PROVE  KeepsCredentials(UpdateAccount(a, rec))
<1> DEFINE c == conf[a]
           r == [rec EXCEPT !.version = c.version, !.arn = c.arn]
<1>1. c \in AccountRecord BY DEF Typed, PoolTypeOK
<1>2. r \in AccountRecord /\ r.version = conf[a].version
  <2> HIDE DEF c
  <2>1. r \in AccountRecord /\ r.version = c.version BY <1>1 DEF AccountRecord
  <2> QED BY <2>1 DEF c
<1> HIDE DEF r
<1>3. KeepsCredentials(With(a, r)) BY <1>2, WithKeeps
<1> QED BY <1>3 DEF UpdateAccount, r

(* Save writes such an edit, or fails and leaves the old one on disk.      *)
LEMMA Written ==
    ASSUME Typed, NEW new, KeepsCredentials(new), Saved(new) \/ SaveFails(new)
    PROVE  ConfigKept
BY PoolAssumption
DEF Typed, PoolTypeOK, Saved, SaveFails, Mishap, bounds, CopiesBehind, KeepsCredentials,
    ConfigKept

(* A step that does not save at all.                                       *)
LEMMA Unwritten ==
    ASSUME Typed, UNCHANGED <<conf, disk, bounds>>
    PROVE  ConfigKept
BY DEF Typed, PoolTypeOK, ConfigKept, bounds

(* A task of the administrator or a mishap is counted within its bound.    *)
LEMMA Counted ==
    ASSUME Typed, Task \/ (Move /\ UNCHANGED reused) \/ Mishap \/ UNCHANGED bounds
    PROVE  /\ tasks' \in 0..MaxTasks /\ moves' \in 0..MaxMoves /\ mishaps' \in 0..MaxMishaps
           /\ reused' = reused
BY PoolAssumption DEF Typed, PoolTypeOK, Task, Move, Mishap, bounds

(* What the actor sees of its account is a record no newer than the disk.  *)
LEMMA ViewTyped ==
    ASSUME Typed, NEW p \in Actors
    PROVE  /\ View(p) \in AccountRecord
           /\ VersionsOrdered /\ actor[p].id \notin reused =>
                 View(p).version <= disk[actor[p].id].version
<1>1. actor[p].id \in Accounts /\ actor[p].snap \in AccountRecord BY DEF Typed, ActorRecord
<1> QED BY <1>1 DEF Typed, PoolTypeOK, View, VersionsOrdered, CopiesBehind, HoldsOK

(* A step that changes no version keeps them ordered: one goroutine moves, *)
(* with a copy no newer than the disk, and may let go of the lock.         *)
LEMMA QuietStep ==
    ASSUME Typed, Typed', VersionsOrdered, NEW p \in Actors, Moved(p), KeepsOrder,
           actor'[p].id \in reused \/ actor'[p].snap.version <= disk[actor'[p].id].version,
           \A a \in Accounts : upstream[a] <= upstream'[a],
           reused' = reused, lock' = lock \/ lock = p
    PROVE  VersionsOrdered'
<1> USE DEF Refreshing
<1>0. \A a \in Accounts : /\ upstream[a] \in Nat /\ upstream'[a] \in Nat
                          /\ conf[a].version \in Nat /\ disk[a].version \in Nat
  BY PoolAssumption DEF Typed, PoolTypeOK, AccountRecord
<1>1. CopiesBehind' BY <1>0 DEF VersionsOrdered, CopiesBehind, KeepsOrder
<1>2. HoldsOK(p)'
  <2>1. actor'[p].id \in Accounts BY DEF Moved, ActorRecord
  <2> QED BY <2>1 DEF HoldsOK, Moved, KeepsOrder
<1>3. ASSUME NEW q \in Actors, q # p PROVE HoldsOK(q)'
  <2> DEFINE rec == actor[q]
             id == rec.id
  <2>1. rec \in ActorRecord /\ actor'[q] = rec BY <1>3 DEF Typed, Moved
  <2>2. id \in Accounts /\ rec.work \in Nat BY <2>1, PoolAssumption DEF ActorRecord
  <2>3. HoldsOK(q) BY DEF VersionsOrdered
  <2>4. rec.at \in Refreshing => lock' = q BY <1>3, <2>3 DEF HoldsOK
  <2>5. conf'[id].version = conf[id].version /\ disk'[id].version = disk[id].version
    BY <2>2 DEF KeepsOrder
  <2>6. upstream[id] <= upstream'[id] /\ upstream[id] \in Nat /\ upstream'[id] \in Nat
    BY <1>0, <2>2
  <2>7. /\ rec.at = "persist" => rec.work <= upstream[id]
        /\ id \notin reused =>
              /\ rec.snap.version <= disk[id].version
              /\ rec.at = "persist" => conf[id].version <= rec.work
              /\ rec.at = "publish" => rec.work <= disk[id].version
    BY <2>3 DEF HoldsOK
  <2> HIDE DEF rec, id
  <2>8. /\ rec.at = "persist" => rec.work <= upstream'[id]
        /\ id \notin reused' =>
              /\ rec.snap.version <= disk'[id].version
              /\ rec.at = "persist" => conf'[id].version <= rec.work
              /\ rec.at = "publish" => rec.work <= disk'[id].version
    BY <2>2, <2>5, <2>6, <2>7
  <2>9. actor'[q] = rec /\ actor'[q].id = id BY <2>1 DEF id
  <2>10. rec.at \in Refreshing => lock' = q BY <2>4
  <2> QED BY <2>8, <2>9, <2>10 DEF HoldsOK
<1> QED BY <1>1, <1>2, <1>3 DEF VersionsOrdered

(* Such a step by a goroutine that keeps its copy, or takes one that is on *)
(* disk.                                                                   *)
LEMMA QuietMove ==
    ASSUME Typed, NEW p \in Actors, Moved(p), Quiet(p),
           VersionsOrdered =>
              KeepsCopy(p) \/ actor'[p].id \in reused
                 \/ actor'[p].snap.version <= disk[actor'[p].id].version
    PROVE  Keeps
<1>1. Typed' BY DEF Typed, PoolTypeOK, Moved, Quiet
<1>2. ASSUME VersionsOrdered PROVE VersionsOrdered' /\ NoneRegresses
  <2>1. actor'[p].id \in Accounts /\ actor[p].id \in Accounts BY DEF Typed, Moved, ActorRecord
  <2>2. \A a \in Accounts : disk[a].version \in Nat BY DEF Typed, PoolTypeOK, AccountRecord
  <2>3. HoldsOK(p) BY <1>2 DEF VersionsOrdered
  <2>4. actor'[p].id \in reused \/ actor'[p].snap.version <= disk[actor'[p].id].version
    BY <1>2, <2>1, <2>2, <2>3 DEF KeepsCopy, HoldsOK
  <2>5. NoneRegresses
    BY <1>2, PoolAssumption DEF Quiet, KeepsOrder, NoneRegresses, Typed, PoolTypeOK, AccountRecord
  <2> QED BY <1>1, <1>2, <2>4, <2>5, QuietStep DEF Quiet
<1> QED BY <1>1, <1>2 DEF Keeps

(* A step of the table beside the goroutines.                              *)
LEMMA TablesStep ==
    ASSUME Typed, Typed', VersionsOrdered, KeepsOrder, UNCHANGED <<actor, lock, reused>>,
           \A a \in Accounts : upstream[a] <= upstream'[a]
    PROVE  VersionsOrdered' /\ NoneRegresses
<1>0. \A a \in Accounts : /\ upstream[a] \in Nat /\ upstream'[a] \in Nat
                          /\ conf[a].version \in Nat /\ disk[a].version \in Nat
  BY PoolAssumption DEF Typed, PoolTypeOK, AccountRecord
<1>1. CopiesBehind' BY <1>0 DEF VersionsOrdered, CopiesBehind, KeepsOrder
<1>2. NoneRegresses BY <1>0 DEF KeepsOrder, NoneRegresses
<1>3. ASSUME NEW q \in Actors PROVE HoldsOK(q)'
  <2>1. actor[q] \in ActorRecord BY DEF Typed
  <2>2. actor[q].id \in Accounts /\ actor[q].work \in Nat BY <2>1, PoolAssumption DEF ActorRecord
  <2> QED BY <1>0, <2>2 DEF VersionsOrdered, HoldsOK, KeepsOrder
<1> QED BY <1>1, <1>2, <1>3 DEF VersionsOrdered

-----------------------------------------------------------------------------
(* Every action keeps the tables' types, and the order of the versions.    *)

USE DEF configVars, shared, tokens, loops, bounds

(* A goroutine whose record is replaced by another.                        *)
LEMMA Replaces ==
    ASSUME Typed, NEW p \in Actors, NEW rec \in ActorRecord, rec.at \notin Refreshing,
           actor' = [actor EXCEPT ![p] = rec]
    PROVE  /\ Moved(p) /\ actor'[p] = rec
           /\ rec.id = actor[p].id /\ rec.snap.version = actor[p].snap.version => KeepsCopy(p)
BY DEF Typed, Moved, KeepsCopy

(* What RecordSuccess and RecordError write.                               *)
LEMMA RecordsTyped ==
    ASSUME Typed, NEW a \in Accounts, NEW quota \in BOOLEAN,
           RecordSuccess(a) \/ RecordError(a, quota)
    PROVE  /\ cooling' \in [Accounts -> {"none", "past", "future"}]
           /\ errors' \in [Accounts -> 0..ErrorLimit]
<1>1. errors[a] \in 0..ErrorLimit /\ ErrorLimit \in Nat \ {0}
  BY PoolAssumption DEF Typed, PoolTypeOK
<1>2. AtMostLimit(errors[a] + 1) \in 0..ErrorLimit BY <1>1 DEF AtMostLimit
<1> QED BY <1>1, <1>2 DEF Typed, PoolTypeOK, RecordSuccess, RecordError

(* BeginRequest, GiveUp: only where the request is.                        *)
LEMMA StepBeginOrEnd ==
    ASSUME Typed, NEW r \in PoolRequests, BeginRequest(r) \/ GiveUp(r)
    PROVE  Keeps
<1>1. r \in Actors BY DEF Actors
<1>2. Goto(r, "choose") \/ Goto(r, "done") BY DEF BeginRequest, GiveUp
<1>3. Moved(r) /\ KeepsCopy(r) BY <1>1, <1>2, ActorGoes DEF Targets
<1>4. Quiet(r)
  BY PoolAssumption DEF BeginRequest, GiveUp, Quiet, Typed, PoolTypeOK, VersionsOrdered,
     CopiesBehind, KeepsOrder
<1> QED BY <1>1, <1>3, <1>4, QuietMove

(* Choose takes the pool's copy, which is on disk.                         *)
LEMMA StepChoose ==
    ASSUME Typed, NEW r \in PoolRequests, Choose(r)
    PROVE  Keeps
<1>1. r \in Actors BY DEF Actors
<1>2. PICK a \in Choosable(r) :
         actor' = [actor EXCEPT ![r].id = a, ![r].snap = pool[a],
                      ![r].ret = "call", ![r].resume = "choose", ![r].force = FALSE,
                      ![r].at = IF Near(a, pool[a]) THEN "refresh" ELSE "call"]
  BY DEF Choose
<1>3. a \in Accounts BY DEF Choosable, Ready, Fallback, First, Candidates
<1> DEFINE old == actor[r]
           to == IF Near(a, pool[a]) THEN "refresh" ELSE "call"
           rec == [old EXCEPT !.id = a, !.snap = pool[a], !.ret = "call",
                              !.resume = "choose", !.force = FALSE, !.at = to]
<1>4. old \in ActorRecord /\ to \in Targets /\ pool[a] \in AccountRecord
  BY <1>1, <1>3 DEF Typed, PoolTypeOK, Targets
<1>5. actor' = [actor EXCEPT ![r] = rec] BY <1>1, <1>2 DEF Typed
<1> HIDE DEF old, to
<1>6. rec \in ActorRecord /\ rec.at \notin Refreshing /\ rec.id = a /\ rec.snap = pool[a]
  <2>1. rec \in ActorRecord /\ rec.at = to /\ rec.id = a /\ rec.snap = pool[a]
    <3>1. {"call", "choose"} \subseteq Targets BY DEF Targets
    <3> QED BY <1>3, <1>4, <3>1 DEF ActorRecord
  <2>2. to \notin Refreshing BY <1>4 DEF Targets, Refreshing
  <2> QED BY <2>1, <2>2
<1> HIDE DEF rec
<1>7. Moved(r) /\ actor'[r] = rec BY <1>1, <1>5, <1>6, Replaces
<1>8. Quiet(r)
  <2>1. tries[r] \in 0..MaxTries /\ tries[r] < MaxTries /\ MaxTries \in Nat
    BY PoolAssumption DEF Typed, PoolTypeOK, Choose
  <2>2. tries' = [tries EXCEPT ![r] = tries[r] + 1] BY DEF Choose
  <2>3. tries' \in [PoolRequests -> 0..MaxTries] BY <2>1, <2>2 DEF Typed, PoolTypeOK
  <2> QED BY <2>3, PoolAssumption DEF Choose, Quiet, Typed, PoolTypeOK, VersionsOrdered,
     CopiesBehind, KeepsOrder
<1>9. VersionsOrdered =>
          actor'[r].id \in reused \/ actor'[r].snap.version <= disk[actor'[r].id].version
  BY <1>3, <1>6, <1>7 DEF VersionsOrdered, CopiesBehind
<1> QED BY <1>1, <1>7, <1>8, <1>9, QuietMove

(* CallSucceeds, Penalise: the pool's account of errors.                   *)
LEMMA StepRecords ==
    ASSUME Typed, NEW p \in Actors, (CallSucceeds(p) /\ p \in PoolRequests) \/ Penalise(p)
    PROVE  Keeps
<1>1. actor[p].id \in Accounts BY DEF Typed, ActorRecord
<1>2. Resume(p) \in Targets BY Resumes
<1>3. Goto(p, "stats") \/ Goto(p, Resume(p)) BY DEF CallSucceeds, Penalise
<1>4. Moved(p) /\ KeepsCopy(p) BY <1>2, <1>3, ActorGoes DEF Targets
<1>5. \E quota \in BOOLEAN : RecordSuccess(actor[p].id) \/ RecordError(actor[p].id, quota)
  BY DEF CallSucceeds, Penalise
<1>6. /\ cooling' \in [Accounts -> {"none", "past", "future"}]
      /\ errors' \in [Accounts -> 0..ErrorLimit]
  BY <1>1, <1>5, RecordsTyped
<1>7. Quiet(p)
  BY <1>6, PoolAssumption DEF CallSucceeds, Penalise, Quiet, Typed, PoolTypeOK, VersionsOrdered,
     CopiesBehind, KeepsOrder
<1> QED BY <1>4, <1>7, QuietMove

(* UpdateStats saves a count, whether the save succeeds or not.            *)
LEMMA StepUpdateStats ==
    ASSUME Typed, NEW r \in PoolRequests, UpdateStats(r)
    PROVE  Keeps
<1> DEFINE a == actor[r].id
           n == pool[a].served + 1
           rec == [conf[a] EXCEPT !.served = n]
           new == With(a, rec)
<1>1. r \in Actors BY DEF Actors
<1>2. a \in Accounts BY <1>1 DEF Typed, ActorRecord
<1>3. n \in Nat /\ conf[a] \in AccountRecord
  BY <1>2 DEF Typed, PoolTypeOK, AccountRecord
<1>4. KeepsCredentials(new)
  <2>1. rec \in AccountRecord /\ rec.version = conf[a].version
    <3> HIDE DEF n
    <3> QED BY <1>3 DEF AccountRecord
  <2> HIDE DEF rec, a
  <2> QED BY <1>2, <2>1, WithKeeps
<1>5. ConfigKept
  <2>1. Saved(new) \/ SaveFails(new) \/ UNCHANGED <<conf, disk, bounds>>
    BY DEF UpdateStats
  <2> HIDE DEF new
  <2>2. CASE Saved(new) \/ SaveFails(new) BY <1>4, <2>2, Written
  <2>3. CASE UNCHANGED <<conf, disk, bounds>> BY <2>3, Unwritten
  <2> QED BY <2>1, <2>2, <2>3
<1>6. /\ pool' \in [Accounts -> AccountRecord]
      /\ \A b \in Accounts : pool'[b].version = pool[b].version
  <2>1. pool' = pool \/ pool' = [pool EXCEPT ![a] = [@ EXCEPT !.served = n]]
    BY DEF UpdateStats
  <2>2. pool[a] \in AccountRecord /\ pool \in [Accounts -> AccountRecord]
    BY <1>2 DEF Typed, PoolTypeOK
  <2> HIDE DEF n, a
  <2>3. [pool[a] EXCEPT !.served = n] \in AccountRecord
    BY <1>3, <2>2 DEF AccountRecord
  <2> QED BY <1>2, <2>1, <2>2, <2>3 DEF AccountRecord
<1>7. Moved(r) /\ KeepsCopy(r)
  <2>1. Goto(r, "done") BY DEF UpdateStats
  <2> QED BY <1>1, <2>1, ActorGoes DEF Targets
<1>8. Quiet(r)
  <2> HIDE DEF a, n, rec, new
  <2>1. KeepsOrder \/ ~VersionsOrdered
    BY <1>5, <1>6 DEF ConfigKept, KeepsOrder, VersionsOrdered, CopiesBehind, UpdateStats
  <2> QED
    BY <1>5, <1>6, <2>1, PoolAssumption
    DEF ConfigKept, UpdateStats, Quiet, Typed, PoolTypeOK
<1> QED BY <1>1, <1>7, <1>8, QuietMove

(* CallFails: the request excludes the account.                            *)
LEMMA StepCallFails ==
    ASSUME Typed, NEW r \in PoolRequests, CallFails(r)
    PROVE  Keeps
<1>1. r \in Actors BY DEF Actors
<1>2. PICK class \in Classes, shown \in BOOLEAN :
         actor' = [actor EXCEPT ![r].at = IF class = "overage" THEN class ELSE "failed",
                                ![r].class = class,
                                ![r].resume = IF shown THEN "done" ELSE "choose"]
  BY DEF CallFails
<1> DEFINE old == actor[r]
           to == IF class = "overage" THEN class ELSE "failed"
           on == IF shown THEN "done" ELSE "choose"
           rec == [old EXCEPT !.at = to, !.class = class, !.resume = on]
<1>3. old \in ActorRecord /\ to \in Targets /\ on \in Targets
  BY <1>1 DEF Typed, Targets
<1>4. actor' = [actor EXCEPT ![r] = rec] BY <1>1, <1>2 DEF Typed
<1> HIDE DEF old, to, on
<1>5. /\ rec \in ActorRecord /\ rec.at = to
      /\ rec.id = old.id /\ rec.snap = old.snap
  BY <1>3 DEF ActorRecord
<1> USE DEF old
<1> HIDE DEF rec
<1>6. Moved(r) /\ KeepsCopy(r)
  BY <1>1, <1>3, <1>4, <1>5, Replaces DEF Targets, Refreshing
<1>7. actor[r].id \in Accounts BY <1>3 DEF ActorRecord
<1>8. Quiet(r)
  BY <1>7, PoolAssumption DEF CallFails, Quiet, Typed, PoolTypeOK, VersionsOrdered,
     CopiesBehind, KeepsOrder
<1> QED BY <1>1, <1>6, <1>8, QuietMove

(* A goroutine keeps its copy and goes to another place.                   *)
LEMMA ActorTurns ==
    ASSUME Typed, NEW p \in Actors, NEW to \in Targets, NEW ret \in Targets,
           actor' = [actor EXCEPT ![p].at = to, ![p].ret = ret]
    PROVE  Moved(p) /\ KeepsCopy(p)
<1> DEFINE old == actor[p]
           rec == [old EXCEPT !.at = to, !.ret = ret]
<1>1. old \in ActorRecord BY DEF Typed
<1>2. actor' = [actor EXCEPT ![p] = rec] BY DEF Typed
<1> HIDE DEF old
<1>3. rec \in ActorRecord /\ rec.at = to /\ rec.id = old.id /\ rec.snap = old.snap
  BY <1>1 DEF ActorRecord
<1> USE DEF old
<1> QED BY <1>2, <1>3, Replaces DEF Targets, Refreshing

(* An edit that keeps the versions, saved or not, beside which only the    *)
(* goroutine moves.                                                        *)
LEMMA Edits ==
    ASSUME Typed, NEW p \in Actors, NEW new, KeepsCredentials(new),
           Saved(new) \/ SaveFails(new),
           UNCHANGED <<overUse, shared, tokens, loops>>
    PROVE  Quiet(p)
<1>1. ConfigKept
  BY Written
<1>2. VersionsOrdered => KeepsOrder
  BY <1>1 DEF ConfigKept, VersionsOrdered, CopiesBehind, KeepsOrder
<1> QED BY <1>1, <1>2, PoolAssumption DEF ConfigKept, Quiet, Typed, PoolTypeOK

(* Nothing is written.                                                     *)
LEMMA WritesNothing ==
    ASSUME Typed, NEW p \in Actors,
           UNCHANGED <<conf, disk, bounds, overUse, shared, tokens, sweep, tries>>,
           excluded' \in [PoolRequests -> SUBSET Accounts]
    PROVE  Quiet(p)
<1>1. VersionsOrdered => KeepsOrder BY DEF VersionsOrdered, CopiesBehind, KeepsOrder
<1>2. \A a \in Accounts : upstream[a] <= upstream'[a]
  BY PoolAssumption DEF Typed, PoolTypeOK
<1> QED BY <1>1, <1>2 DEF Quiet, Typed, PoolTypeOK

(* disableAccount.                                                         *)
LEMMA StepDisableAccount ==
    ASSUME Typed, NEW p \in Actors, DisableAccount(p)
    PROVE  Keeps
<1> DEFINE a == actor[p].id
           new == IF conf[a].present THEN SetAccountBanStatus(a) ELSE conf
<1>1. a \in Accounts BY DEF Typed, ActorRecord
<1>2. KeepsCredentials(new) /\ KeepsCredentials(conf)
  <2> HIDE DEF a
  <2>1. KeepsCredentials(conf) /\ KeepsCredentials(SetAccountBanStatus(a))
    BY <1>1, EditsKeep
  <2> QED BY <2>1
<1>5. CASE Saved(new) /\ actor' = [actor EXCEPT ![p].at = "reload", ![p].ret = Resume(p)]
  <2>1. Moved(p) /\ KeepsCopy(p) BY <1>5, ActorTurns, Resumes DEF Targets
  <2>2. Quiet(p)
    <3> HIDE DEF new
    <3> QED BY <1>2, <1>5, Edits DEF DisableAccount
  <2> QED BY <2>1, <2>2, QuietMove
<1>6. CASE SaveFails(conf) /\ Goto(p, Resume(p))
  <2>1. Moved(p) /\ KeepsCopy(p) BY <1>6, ActorGoes, Resumes
  <2>2. Quiet(p) BY <1>2, <1>6, Edits DEF DisableAccount
  <2> QED BY <2>1, <2>2, QuietMove
<1> QED BY <1>5, <1>6 DEF DisableAccount

(* disableAccountOverage and the overage handlers.                         *)
LEMMA StepOverage ==
    ASSUME Typed, NEW p \in Actors, Overage(p)
    PROVE  Keeps
<1> DEFINE a == actor[p].id
           new(on) == IF conf[a].present THEN UpdateAccountOverageStatus(a, on) ELSE conf
<1>1. a \in Accounts BY DEF Typed, ActorRecord
<1>2. \A on \in BOOLEAN : KeepsCredentials(new(on))
  <2> HIDE DEF a
  <2> QED BY <1>1, EditsKeep
<1>3. CASE \E on \in BOOLEAN :
              /\ Saved(new(on)) \/ SaveFails(new(on))
              /\ \E to \in Targets, ret \in Targets :
                    actor' = [actor EXCEPT ![p].at = to, ![p].ret = ret]
  <2>1. Moved(p) /\ KeepsCopy(p) BY <1>3, ActorTurns
  <2>2. PICK on \in BOOLEAN : Saved(new(on)) \/ SaveFails(new(on)) BY <1>3
  <2>3. UNCHANGED <<overUse, shared, tokens, loops>> BY DEF Overage
  <2>4. Quiet(p)
    <3> HIDE DEF new
    <3> QED BY <1>2, <2>2, <2>3, Edits
  <2> QED BY <2>1, <2>4, QuietMove
<1>4. CASE UNCHANGED <<conf, disk, bounds>> /\ Goto(p, IF p = "operator" THEN "idle" ELSE "penalty")
  <2>1. Moved(p) /\ KeepsCopy(p) BY <1>4, ActorGoes DEF Targets
  <2>2. Quiet(p)
    BY <1>4, WritesNothing DEF Overage, Typed, PoolTypeOK
  <2> QED BY <2>1, <2>2, QuietMove
<1>5. {"idle", "reload", "penalty"} \subseteq Targets BY DEF Targets
<1> QED BY <1>3, <1>4, <1>5 DEF Overage

(* Publishing a credential that is on disk.                                *)
LEMMA Publishes ==
    ASSUME Typed, NEW p \in Actors, NEW v \in 0..MaxVersion, UpdateCredentialState(p, v),
           UNCHANGED <<configVars, cooling, errors, models, live, upstream, lapsed, loops, bounds>>,
           lock' \in {lock, "free"},
           VersionsOrdered => actor[p].id \in reused \/ v <= disk[actor[p].id].version,
           VersionsOrdered => lock' = lock \/ lock = p
    PROVE  Keeps
<1> DEFINE old == actor[p]
           a == old.id
           snap == [old.snap EXCEPT !.version = v]
           rec == [old EXCEPT !.snap = snap, !.at = old.ret]
<1>1. old \in ActorRecord BY DEF Typed
<1>2. a \in Accounts /\ old.snap \in AccountRecord /\ old.ret \in Targets BY <1>1 DEF ActorRecord
<1>3. snap \in AccountRecord /\ snap.version = v
  <2> HIDE DEF old
  <2> QED BY <1>2 DEF AccountRecord
<1>4. actor' = [actor EXCEPT ![p] = Settled([old EXCEPT !.snap.version = v, !.at = old.ret])]
  BY DEF UpdateCredentialState
<1>5. rec \in ActorRecord /\ rec.at = old.ret /\ rec.id = a /\ rec.snap = snap
  <2> HIDE DEF snap, old
  <2>1. a = old.id OBVIOUS
  <2> QED BY <1>1, <1>2, <1>3 DEF ActorRecord
<1>6. actor' = [actor EXCEPT ![p] = Settled(rec)] BY <1>4
<1>7. rec.at \notin Refreshing BY <1>2, <1>5 DEF Targets, Refreshing
<1> HIDE DEF rec
<1>8. Moved(p) /\ (actor'[p] = rec \/ actor'[p].snap.version = 0)
  BY <1>5, <1>6, <1>7, Settles
<1>9. VersionsOrdered =>
          actor'[p].id \in reused \/ actor'[p].snap.version <= disk[actor'[p].id].version
  <2>1. actor'[p].id \in Accounts BY <1>8 DEF Moved, ActorRecord, Typed
  <2>2. disk[actor'[p].id].version \in Nat BY <2>1 DEF Typed, PoolTypeOK, AccountRecord
  <2>3. VersionsOrdered => a \in reused \/ v <= disk[a].version OBVIOUS
  <2> HIDE DEF a, snap
  <2> QED BY <1>3, <1>5, <1>8, <2>2, <2>3
<1>10. /\ pool' \in [Accounts -> AccountRecord]
       /\ VersionsOrdered => \A b \in Accounts \ reused : pool'[b].version <= disk[b].version
  <2>1. pool' = [pool EXCEPT ![a].version = IF pool[a].present THEN v ELSE pool[a].version]
    BY DEF UpdateCredentialState
  <2>2. VersionsOrdered => a \in reused \/ v <= disk[a].version OBVIOUS
  <2>3. pool \in [Accounts -> AccountRecord] BY DEF Typed, PoolTypeOK
  <2>4. VersionsOrdered => \A b \in Accounts \ reused : pool[b].version <= disk[b].version
    BY DEF VersionsOrdered, CopiesBehind
  <2> DEFINE w == IF pool[a].present THEN v ELSE pool[a].version
             entry == [pool[a] EXCEPT !.version = w]
  <2> HIDE DEF a
  <2>5. w \in 0..MaxVersion /\ (VersionsOrdered => a \in reused \/ w <= disk[a].version)
    BY <1>2, <2>2, <2>3, <2>4 DEF AccountRecord
  <2>6. pool' = [pool EXCEPT ![a] = entry] BY <2>1
  <2> HIDE DEF w
  <2>7. entry \in AccountRecord /\ entry.version = w BY <1>2, <2>3, <2>5 DEF AccountRecord
  <2> HIDE DEF entry
  <2> QED BY <1>2, <2>3, <2>4, <2>5, <2>6, <2>7
<1>11. Quiet(p)
  <2>1. VersionsOrdered => KeepsOrder
    BY <1>10 DEF VersionsOrdered, CopiesBehind, KeepsOrder
  <2>2. \A b \in Accounts : upstream[b] <= upstream'[b]
    BY PoolAssumption DEF Typed, PoolTypeOK
  <2> QED BY <1>10, <2>1, <2>2 DEF Quiet, Typed, PoolTypeOK
<1> QED BY <1>8, <1>9, <1>11, QuietMove

(* Publish: what was saved under the lock is shown, and the lock is free.  *)
LEMMA StepPublish ==
    ASSUME Typed, NEW p \in Actors, Publish(p)
    PROVE  Keeps
<1> DEFINE v == actor[p].work
<1>1. v \in 0..MaxVersion BY DEF Typed, ActorRecord
<1>2. VersionsOrdered => (actor[p].id \in reused \/ v <= disk[actor[p].id].version) /\ lock = p
  BY DEF VersionsOrdered, HoldsOK, Publish, Refreshing
<1>3. UpdateCredentialState(p, v) BY DEF Publish
<1> HIDE DEF v
<1> QED BY <1>1, <1>2, <1>3, Publishes DEF Publish

-----------------------------------------------------------------------------
(* The refresh under the lock.                                             *)

(* While the lock is one's own or free nobody else is in a refresh's       *)
(* middle, so that the others' copies are all that matters of them.        *)
LEMMA LockedStep ==
    ASSUME Typed, Typed', VersionsOrdered, NEW p \in Actors, lock \in {p, "free"},
           \A q \in Actors : q # p => actor'[q] = actor[q],
           \A a \in Accounts \ reused : disk[a].version <= disk'[a].version,
           reused' = reused, CopiesBehind', HoldsOK(p)'
    PROVE  VersionsOrdered'
<1>1. ASSUME NEW q \in Actors, q # p PROVE HoldsOK(q)'
  <2>1. HoldsOK(q) BY DEF VersionsOrdered
  <2>2. q # "free" BY PoolAssumption DEF Actors
  <2>3. actor[q].at \notin Refreshing BY <1>1, <2>1, <2>2 DEF HoldsOK
  <2>4. actor'[q] = actor[q] BY <1>1
  <2>5. actor[q] \in ActorRecord BY DEF Typed
  <2>6. actor[q].id \in Accounts /\ actor[q].snap.version \in Nat
    BY <2>5, PoolAssumption DEF ActorRecord, AccountRecord
  <2>7. /\ disk[actor[q].id].version \in Nat /\ disk'[actor[q].id].version \in Nat
        /\ actor[q].id \in reused \/ disk[actor[q].id].version <= disk'[actor[q].id].version
    BY <2>6, PoolAssumption DEF Typed, PoolTypeOK, AccountRecord
  <2>8. actor[q].id \in reused \/ actor[q].snap.version <= disk'[actor[q].id].version
    BY <2>1, <2>6, <2>7 DEF HoldsOK
  <2> QED BY <2>3, <2>4, <2>8 DEF HoldsOK, Refreshing
<1> QED BY <1>1 DEF VersionsOrdered

(* Another phase of its refresh, with the work it has in hand.             *)
LEMMA Works ==
    ASSUME Typed, NEW p \in Actors, NEW to \in Refreshing, NEW work \in 0..MaxVersion,
           actor' = [actor EXCEPT ![p].at = to, ![p].work = work]
    PROVE  /\ actor' \in [Actors -> ActorRecord]
           /\ \A q \in Actors : q # p => actor'[q] = actor[q]
           /\ actor'[p].at = to /\ actor'[p].work = work
           /\ actor'[p].id = actor[p].id /\ actor'[p].snap = actor[p].snap
<1> DEFINE old == actor[p]
           rec == [old EXCEPT !.at = to, !.work = work]
<1>1. old \in ActorRecord BY DEF Typed
<1>2. actor' = [actor EXCEPT ![p] = rec] BY DEF Typed
<1> HIDE DEF old
<1>3. /\ rec \in ActorRecord /\ rec.at = to /\ rec.work = work
      /\ rec.id = old.id /\ rec.snap = old.snap
  BY <1>1 DEF ActorRecord
<1> HIDE DEF rec
<1> USE DEF old
<1> QED BY <1>2, <1>3 DEF Typed

(* refreshAccountToken reads the configuration's credential: it is gone,   *)
(* or fresh and shown again, or goes to the provider under the lock.       *)
LEMMA StepRefreshReads ==
    ASSUME Typed, NEW p \in Actors, RefreshReads(p)
    PROVE  Keeps
<1> DEFINE a == actor[p].id
           v == conf[a].version
<1>1. a \in Accounts BY DEF Typed, ActorRecord
<1>2. v \in 0..MaxVersion BY <1>1 DEF Typed, PoolTypeOK, AccountRecord
<1>3. VersionsOrdered => v <= disk[a].version
  <2>1. disk[a].version \in 0..MaxVersion BY <1>1 DEF Typed, PoolTypeOK, AccountRecord
  <2> QED BY <1>1, <2>1, PoolAssumption DEF VersionsOrdered, CopiesBehind
<1>4. CASE Fails(p, "other") /\ UNCHANGED <<pool, lock>>
  <2>1. /\ Moved(p) /\ KeepsCopy(p)
        /\ excluded' \in [PoolRequests -> SUBSET Accounts] /\ UNCHANGED <<tries, sweep>>
    BY <1>4, FailsGoes DEF Classes
  <2>2. Quiet(p) BY <1>4, <2>1, WritesNothing DEF RefreshReads
  <2> QED BY <2>1, <2>2, QuietMove
<1>5. CASE UpdateCredentialState(p, v) /\ UNCHANGED <<lock, loops>>
  <2> HIDE DEF v
  <2>1. VersionsOrdered => actor[p].id \in reused \/ v <= disk[actor[p].id].version BY <1>3
  <2> QED BY <1>2, <1>5, <2>1, Publishes DEF RefreshReads
<1>6. CASE /\ lock = "free" /\ lock' = p
           /\ actor' = [actor EXCEPT ![p].at = "exchange", ![p].work = v]
           /\ UNCHANGED <<pool, loops>>
  <2> HIDE DEF v, a
  <2>1. /\ actor' \in [Actors -> ActorRecord]
        /\ \A q \in Actors : q # p => actor'[q] = actor[q]
        /\ actor'[p].at = "exchange"
        /\ actor'[p].id = actor[p].id /\ actor'[p].snap = actor[p].snap
    BY <1>2, <1>6, Works DEF Refreshing
  <2>2. Typed' BY <1>6, <2>1 DEF Typed, PoolTypeOK, RefreshReads
  <2>3. ASSUME VersionsOrdered PROVE VersionsOrdered' /\ NoneRegresses
    <3>0. NoneRegresses
      BY PoolAssumption DEF RefreshReads, NoneRegresses, Typed, PoolTypeOK, AccountRecord
    <3>1. CopiesBehind' BY <1>6, <2>3 DEF VersionsOrdered, CopiesBehind, RefreshReads
    <3>2. HoldsOK(p)'
      BY <1>6, <2>1, <2>3 DEF VersionsOrdered, HoldsOK, RefreshReads
    <3>3. \A b \in Accounts : disk[b].version <= disk'[b].version
      BY PoolAssumption DEF RefreshReads, Typed, PoolTypeOK, AccountRecord
    <3>4. reused' = reused BY DEF RefreshReads
    <3> QED BY <1>6, <2>1, <2>2, <2>3, <3>0, <3>1, <3>2, <3>3, <3>4, LockedStep
  <2> QED BY <2>2, <2>3 DEF Keeps
<1> QED BY <1>4, <1>5, <1>6 DEF RefreshReads

(* auth.RefreshToken: what comes of the newest credential is the newest.   *)
LEMMA StepExchange ==
    ASSUME Typed, NEW p \in Actors, Exchange(p)
    PROVE  Keeps
<1> DEFINE a == actor[p].id
           w == actor[p].work
<1>1. a \in Accounts /\ w \in 0..MaxVersion BY DEF Typed, ActorRecord
<1>2. MaxVersion \in Nat /\ upstream[a] \in 0..MaxVersion
  BY <1>1, PoolAssumption DEF Typed, PoolTypeOK
<1>3. VersionsOrdered => lock = p
  BY DEF VersionsOrdered, HoldsOK, Exchange, Refreshing
<1>4. CASE /\ w = upstream[a] /\ upstream[a] < MaxVersion
           /\ upstream' = [upstream EXCEPT ![a] = @ + 1]
           /\ actor' = [actor EXCEPT ![p].at = "persist", ![p].work = @ + 1]
           /\ UNCHANGED <<lock, loops, bounds>>
  <2>1. actor' = [actor EXCEPT ![p].at = "persist", ![p].work = w + 1] BY <1>4 DEF Typed
  <2>2. w + 1 \in 0..MaxVersion BY <1>1, <1>2, <1>4
  <2>3. /\ upstream' \in [Accounts -> 0..MaxVersion] /\ upstream'[a] = w + 1
        /\ \A b \in Accounts : upstream[b] <= upstream'[b]
    <3>1. upstream' = [upstream EXCEPT ![a] = w + 1] BY <1>4
    <3> HIDE DEF w, a
    <3> QED BY <1>1, <1>2, <1>4, <2>2, <3>1 DEF Typed, PoolTypeOK
  <2> HIDE DEF w
  <2>4. /\ actor' \in [Actors -> ActorRecord]
        /\ \A q \in Actors : q # p => actor'[q] = actor[q]
        /\ actor'[p].at = "persist" /\ actor'[p].work = w + 1
        /\ actor'[p].id = a /\ actor'[p].snap = actor[p].snap
    BY <2>1, <2>2, Works DEF Refreshing
  <2>5. Typed' BY <1>4, <2>3, <2>4 DEF Typed, PoolTypeOK, Exchange
  <2>6. ASSUME VersionsOrdered PROVE VersionsOrdered' /\ NoneRegresses
    <3>0. \A b \in Accounts : /\ upstream[b] \in Nat /\ upstream'[b] \in Nat
                              /\ disk[b].version \in Nat /\ conf[b].version \in Nat
      BY <2>3, PoolAssumption DEF Typed, PoolTypeOK, AccountRecord
    <3>1. CopiesBehind' BY <1>4, <2>3, <2>6, <3>0 DEF VersionsOrdered, CopiesBehind, Exchange
    <3>2. HoldsOK(p)'
      <4>1. UNCHANGED <<conf, disk, lock, reused>> BY <1>4 DEF Exchange
      <4>2. a \in reused \/ actor[p].snap.version <= disk[a].version BY <2>6 DEF VersionsOrdered, HoldsOK
      <4>3. conf[a].version <= upstream[a] BY <1>1, <2>6 DEF VersionsOrdered, CopiesBehind
      <4>4. conf[a].version <= w + 1 /\ w + 1 <= upstream'[a]
        BY <1>1, <1>2, <1>4, <2>3, <3>0, <4>3
      <4> HIDE DEF a
      <4> QED BY <1>3, <2>4, <2>6, <4>1, <4>2, <4>4 DEF HoldsOK
    <3>3. \A b \in Accounts : disk[b].version <= disk'[b].version
      BY <3>0 DEF Exchange
    <3>4. NoneRegresses BY <3>0 DEF Exchange, NoneRegresses
    <3>5. reused' = reused BY <1>4
    <3> QED BY <1>3, <2>4, <2>5, <2>6, <3>1, <3>2, <3>3, <3>4, <3>5, LockedStep
  <2> QED BY <2>5, <2>6 DEF Keeps
<1>5. CASE /\ Mishap \/ UNCHANGED bounds
           /\ \/ UNCHANGED upstream
              \/ upstream[a] < MaxVersion /\ upstream' = [upstream EXCEPT ![a] = @ + 1]
           /\ \E class \in Classes : RefreshFails(p, class)
  <2>1. /\ upstream' \in [Accounts -> 0..MaxVersion]
        /\ \A b \in Accounts : upstream[b] <= upstream'[b]
    BY <1>1, <1>2, <1>5, PoolAssumption DEF Typed, PoolTypeOK
  <2>2. PICK class \in Classes : RefreshFails(p, class) BY <1>5
  <2>3. /\ Moved(p) /\ KeepsCopy(p)
        /\ excluded' \in [PoolRequests -> SUBSET Accounts] /\ UNCHANGED <<tries, sweep>>
    BY <2>2, FailsGoes DEF RefreshFails
  <2>4. tasks' \in 0..MaxTasks /\ moves' \in 0..MaxMoves /\ mishaps' \in 0..MaxMishaps /\ reused' = reused
    BY <1>5, Counted
  <2>5. VersionsOrdered => KeepsOrder
    BY <2>3 DEF VersionsOrdered, CopiesBehind, KeepsOrder, Exchange
  <2>6. Quiet(p)
    BY <1>3, <2>1, <2>2, <2>3, <2>4, <2>5
    DEF Exchange, RefreshFails, Quiet, Typed, PoolTypeOK
  <2> QED BY <2>3, <2>6, QuietMove
<1>6. CASE /\ Mishap /\ RefreshFails(p, "other")
           /\ upstream' = [upstream EXCEPT ![a] =
                             IF w = upstream[a] /\ upstream[a] < MaxVersion THEN @ + 1 ELSE @]
  <2>1. \/ UNCHANGED upstream
        \/ upstream[a] < MaxVersion /\ upstream' = [upstream EXCEPT ![a] = @ + 1]
    <3> HIDE DEF a, w
    <3> QED BY <1>1, <1>6 DEF Typed, PoolTypeOK
  <2> QED BY <1>5, <1>6, <2>1 DEF Classes
<1>7. CASE /\ \E class \in {"other", "auth"} : RefreshFails(p, class)
           /\ UNCHANGED <<upstream, bounds>>
  BY <1>5, <1>7 DEF Classes
<1> QED BY <1>4, <1>6, <1>7 DEF Exchange

(* UpdateAccountCredentialState: the newest credential is saved, or the    *)
(* old one stays.                                                          *)
LEMMA StepPersist ==
    ASSUME Typed, NEW p \in Actors, Persist(p)
    PROVE  Keeps
<1> DEFINE a == actor[p].id
           w == actor[p].work
<1>1. a \in Accounts /\ w \in 0..MaxVersion BY DEF Typed, ActorRecord
<1>2. VersionsOrdered =>
         /\ lock = p /\ w <= upstream[a]
         /\ a \in reused \/ (conf[a].version <= w /\ actor[p].snap.version <= disk[a].version)
  BY DEF VersionsOrdered, HoldsOK, Persist, Refreshing
<1>3. CASE /\ Saved(With(a, [conf[a] EXCEPT !.version = w]))
           /\ Goto(p, "publish") /\ UNCHANGED <<lock, loops>>
  <2> DEFINE entry == [conf[a] EXCEPT !.version = w]
             new == With(a, entry)
  <2> HIDE DEF w
  <2>0. conf[a] \in AccountRecord BY <1>1 DEF Typed, PoolTypeOK
  <2>1. entry \in AccountRecord /\ entry.version = w
    <3> HIDE DEF a
    <3> QED BY <1>1, <2>0 DEF AccountRecord
  <2> HIDE DEF entry, a
  <2>2. /\ new \in [Accounts -> AccountRecord] /\ new[a] = entry
        /\ \A b \in Accounts : b # a => new[b] = conf[b]
    BY <1>1, <2>1, WithTyped
  <2>3. conf' = new /\ disk' = new /\ UNCHANGED bounds
    BY <1>3 DEF Saved, entry
  <2> HIDE DEF new
  <2>4. actor' = [actor EXCEPT ![p].at = "publish", ![p].work = w]
    <3> DEFINE old == actor[p]
               rec == [old EXCEPT !.at = "publish"]
    <3>1. old \in ActorRecord BY DEF Typed
    <3>2. actor' = [actor EXCEPT ![p] = Settled(rec)] BY <1>3 DEF Goto
    <3>3. rec = [old EXCEPT !.at = "publish", !.work = w]
      <4>1. w = old.work BY DEF w
      <4> HIDE DEF old
      <4> QED BY <3>1, <4>1 DEF ActorRecord
    <3>4. rec.at = "publish" BY <3>1 DEF ActorRecord
    <3>5. Settled(rec) = rec BY <3>4 DEF Settled
    <3>6. actor' = [actor EXCEPT ![p] = [old EXCEPT !.at = "publish", !.work = w]]
      BY <3>2, <3>3, <3>5
    <3> QED BY <3>6 DEF Typed
  <2>5. /\ actor' \in [Actors -> ActorRecord]
        /\ \A q \in Actors : q # p => actor'[q] = actor[q]
        /\ actor'[p].at = "publish" /\ actor'[p].work = w
        /\ actor'[p].id = a /\ actor'[p].snap = actor[p].snap
    <3>1. actor'[p].id = actor[p].id BY <1>1, <2>4, Works DEF Refreshing
    <3> QED BY <1>1, <2>4, <3>1, Works DEF Refreshing, a
  <2>6. Typed' BY <1>3, <2>2, <2>3, <2>5 DEF Typed, PoolTypeOK, Persist
  <2>7. ASSUME VersionsOrdered PROVE VersionsOrdered' /\ NoneRegresses
    <3>0. \A b \in Accounts : /\ upstream[b] \in Nat /\ pool[b].version \in Nat
                              /\ disk[b].version \in Nat /\ conf[b].version \in Nat
                              /\ sweep[b].version \in Nat
      BY PoolAssumption DEF Typed, PoolTypeOK, AccountRecord
    <3>1. \A b \in Accounts :
             /\ b \in reused \/ disk[b].version <= disk'[b].version
             /\ disk'[b].version <= upstream[b]
      BY <1>1, <1>2, <2>1, <2>2, <2>3, <2>7, <3>0 DEF VersionsOrdered, CopiesBehind
    <3>2. \A b \in Accounts : disk'[b].version \in Nat
      BY <2>2, <2>3, PoolAssumption DEF AccountRecord
    <3>3. UNCHANGED <<pool, sweep, upstream>> BY <1>3 DEF Persist
    <3>4. CopiesBehind'
      BY <2>3, <2>7, <3>0, <3>1, <3>2, <3>3 DEF VersionsOrdered, CopiesBehind
    <3>5. HoldsOK(p)'
      <4>1. disk'[a].version = w BY <1>1, <2>1, <2>2, <2>3
      <4>2. a \in reused \/ actor[p].snap.version <= w
        <5>1. actor[p].snap.version \in Nat
          BY PoolAssumption DEF Typed, ActorRecord, AccountRecord
        <5>2. w \in Nat /\ disk[a].version \in Nat BY <1>1, <3>0, PoolAssumption
        <5>3. a \in reused \/ disk[a].version <= w BY <1>1, <3>1, <4>1
        <5>4. a \in reused \/ actor[p].snap.version <= disk[a].version BY <1>2, <2>7
        <5> QED BY <5>1, <5>2, <5>3, <5>4
      <4>3. w <= w BY <1>1
      <4>4. reused' = reused BY <2>3
      <4>5. lock' = p BY <1>2, <1>3, <2>7
      <4> QED BY <2>5, <4>1, <4>2, <4>3, <4>4, <4>5 DEF HoldsOK
    <3>6. NoneRegresses
      BY <1>1, <1>2, <2>1, <2>2, <2>3, <2>7, <3>0 DEF NoneRegresses
    <3>7. reused' = reused BY <2>3
    <3> QED BY <1>2, <2>5, <2>6, <2>7, <3>1, <3>4, <3>5, <3>6, <3>7, LockedStep
  <2> QED BY <2>6, <2>7 DEF Keeps
<1>4. CASE SaveFails(conf) /\ RefreshFails(p, "other")
  <2>1. /\ Moved(p) /\ KeepsCopy(p)
        /\ excluded' \in [PoolRequests -> SUBSET Accounts] /\ UNCHANGED <<tries, sweep>>
    BY <1>4, FailsGoes DEF RefreshFails, Classes
  <2>2. KeepsCredentials(conf) BY <1>1, EditsKeep
  <2>3. ConfigKept
    BY <1>4, <2>2, Written
  <2>4. VersionsOrdered => KeepsOrder
    BY <2>1, <2>3 DEF ConfigKept, VersionsOrdered, CopiesBehind, KeepsOrder, Persist
  <2>5. Quiet(p)
    BY <1>2, <1>4, <2>1, <2>3, <2>4, PoolAssumption
    DEF ConfigKept, Persist, RefreshFails, Quiet, Typed, PoolTypeOK
  <2> QED BY <2>1, <2>5, QuietMove
<1>5. CASE RefreshFails(p, "other") /\ UNCHANGED <<conf, disk, bounds>>
  <2>1. /\ Moved(p) /\ KeepsCopy(p)
        /\ excluded' \in [PoolRequests -> SUBSET Accounts] /\ UNCHANGED <<tries, sweep>>
    BY <1>5, FailsGoes DEF RefreshFails, Classes
  <2>2. VersionsOrdered => KeepsOrder
    BY <1>5, <2>1 DEF VersionsOrdered, CopiesBehind, KeepsOrder, Persist
  <2>3. Quiet(p)
    BY <1>2, <1>5, <2>1, <2>2, PoolAssumption
    DEF Persist, RefreshFails, Quiet, Typed, PoolTypeOK
  <2> QED BY <2>1, <2>3, QuietMove
<1> QED BY <1>3, <1>4, <1>5 DEF Persist, UpdateAccountCredentialState

-----------------------------------------------------------------------------
(* The reads of the sweep and the administrator, and their edits.          *)

(* A goroutine goes on from a read, with nothing to come back to.          *)
LEMMA Leaves ==
    ASSUME Typed, NEW p \in Actors, NEW to \in Targets,
           actor' = [actor EXCEPT ![p] = Settled([@ EXCEPT !.at = to, !.ret = "idle"])]
    PROVE  Moved(p) /\ KeepsCopy(p)
<1> DEFINE old == actor[p]
           rec == [old EXCEPT !.at = to, !.ret = "idle"]
<1>1. old \in ActorRecord BY DEF Typed
<1>2. actor' = [actor EXCEPT ![p] = Settled(rec)] OBVIOUS
<1> HIDE DEF old
<1>3. rec \in ActorRecord /\ rec.at = to /\ rec.id = old.id /\ rec.snap = old.snap
  BY <1>1 DEF ActorRecord, Targets
<1> HIDE DEF rec
<1> USE DEF old
<1> QED BY <1>2, <1>3, Settles DEF Targets, Refreshing

(* ResolveProfileArn brings a profile to the caller's copy, to the entry   *)
(* it shares and to the configuration; a credential it rotated is dropped. *)
LEMMA StepResolveProfileArn ==
    ASSUME Typed, NEW p \in Actors, ResolveProfileArn(p)
    PROVE  Keeps
<1> DEFINE a == actor[p].id
           old == actor[p]
<1>1. old \in ActorRecord BY DEF Typed
<1>2. a \in Accounts /\ old.snap \in AccountRecord BY <1>1 DEF ActorRecord
<1>3. /\ upstream' \in [Accounts -> 0..MaxVersion]
      /\ \A b \in Accounts : upstream[b] <= upstream'[b]
  <2>1. PICK exchanges \in BOOLEAN :
           /\ exchanges => View(p).version = upstream[a] /\ upstream[a] < MaxVersion
           /\ upstream' = [upstream EXCEPT ![a] = IF exchanges THEN @ + 1 ELSE @]
    BY DEF ResolveProfileArn
  <2>2. upstream \in [Accounts -> 0..MaxVersion] /\ MaxVersion \in Nat
    BY PoolAssumption DEF Typed, PoolTypeOK
  <2> HIDE DEF a
  <2>3. CASE exchanges BY <1>2, <2>1, <2>2, <2>3
  <2>4. CASE ~exchanges BY <1>2, <2>1, <2>2, <2>4
  <2> QED BY <2>3, <2>4
<1>4. UNCHANGED <<overUse, cooling, errors, models, live, lock, lapsed>>
  BY DEF ResolveProfileArn
<1>5. CASE /\ IF conf[a].present
              THEN Saved(UpdateAccountProfileArn(a)) \/ SaveFails(conf)
              ELSE UNCHANGED <<conf, disk, bounds>>
           /\ actor' = [actor EXCEPT ![p].snap.arn = TRUE]
           /\ pool' = [pool EXCEPT ![a].arn = @ \/ p \in live]
           /\ UNCHANGED loops
  <2>1. KeepsCredentials(conf) /\ KeepsCredentials(UpdateAccountProfileArn(a))
    <3> HIDE DEF a
    <3> QED BY <1>2, EditsKeep
  <2>2. ConfigKept
    <3> HIDE DEF a
    <3> QED BY <1>5, <2>1, Written, Unwritten
  <2>3. /\ pool' \in [Accounts -> AccountRecord]
        /\ \A b \in Accounts : pool'[b].version = pool[b].version
    <3> DEFINE f == pool[a].arn \/ p \in live
               entry == [pool[a] EXCEPT !.arn = f]
    <3>1. pool' = [pool EXCEPT ![a] = entry] BY <1>5
    <3>2. pool \in [Accounts -> AccountRecord] BY DEF Typed, PoolTypeOK
    <3> HIDE DEF a
    <3>3. pool[a] \in AccountRecord BY <1>2, <3>2
    <3>4. f \in BOOLEAN BY <3>3 DEF AccountRecord
    <3> HIDE DEF f
    <3>5. entry \in AccountRecord /\ entry.version = pool[a].version
      BY <3>3, <3>4 DEF AccountRecord
    <3> HIDE DEF entry
    <3> QED BY <1>2, <3>1, <3>2, <3>5
  <2>4. Moved(p) /\ KeepsCopy(p)
    <3> DEFINE snap == [old.snap EXCEPT !.arn = TRUE]
               rec == [old EXCEPT !.snap = snap]
    <3>1. snap \in AccountRecord /\ snap.version = old.snap.version
      <4> HIDE DEF old
      <4> QED BY <1>2 DEF AccountRecord
    <3>2. actor' = [actor EXCEPT ![p] = rec] BY <1>5 DEF Typed
    <3>3. old.at \notin Refreshing BY DEF ResolveProfileArn, Refreshing
    <3> HIDE DEF snap, old
    <3>4. /\ rec \in ActorRecord /\ rec.at = old.at /\ rec.id = old.id /\ rec.snap = snap
      BY <1>1, <3>1 DEF ActorRecord
    <3> HIDE DEF rec
    <3> USE DEF old
    <3> QED BY <3>1, <3>2, <3>3, <3>4, Replaces
  <2>5. VersionsOrdered => KeepsOrder
    BY <1>5, <2>2, <2>3 DEF ConfigKept, VersionsOrdered, CopiesBehind, KeepsOrder
  <2>6. Quiet(p)
    BY <1>3, <1>4, <1>5, <2>2, <2>3, <2>5 DEF ConfigKept, Quiet, Typed, PoolTypeOK
  <2> QED BY <2>4, <2>6, QuietMove
<1>6. CASE /\ UNCHANGED <<conf, disk, bounds, pool>>
           /\ \/ /\ \E to \in Targets : Goto(p, to)
                 /\ UNCHANGED loops
              \/ /\ actor' = [actor EXCEPT ![p] =
                                Settled([@ EXCEPT !.at = Resume(p), !.ret = "idle"])]
                 /\ UNCHANGED loops
              \/ Fails(p, "profile")
  <2>1. /\ Moved(p) /\ KeepsCopy(p)
        /\ excluded' \in [PoolRequests -> SUBSET Accounts] /\ UNCHANGED <<tries, sweep>>
    <3>1. excluded \in [PoolRequests -> SUBSET Accounts] BY DEF Typed, PoolTypeOK
    <3> QED BY <1>6, <3>1, ActorGoes, Leaves, Resumes, FailsGoes DEF Classes
  <2>2. VersionsOrdered => KeepsOrder
    BY <1>6, <2>1 DEF VersionsOrdered, CopiesBehind, KeepsOrder
  <2>3. Quiet(p)
    BY <1>3, <1>4, <1>6, <2>1, <2>2 DEF Quiet, Typed, PoolTypeOK
  <2> QED BY <2>1, <2>3, QuietMove
<1>7. {"calling", "informing", "enumerating", "switching", "penalty"} \subseteq Targets BY DEF Targets
<1>8. \A at \in {"call", "info", "listing", "overage"} : Bare[at] \in Targets BY <1>7 DEF Bare
<1> QED BY <1>5, <1>6, <1>7, <1>8 DEF ResolveProfileArn

(* InfoArrives, StoreInfo: one edit, and on.                               *)
LEMMA StepInfo ==
    ASSUME Typed, NEW p \in Actors, InfoArrives(p) \/ StoreInfo(p)
    PROVE  Keeps
<1> DEFINE a == actor[p].id
<1>1. a \in Accounts BY DEF Typed, ActorRecord
<1>2. /\ KeepsCredentials(conf) /\ KeepsCredentials(ClearAccountBanStatus(a))
      /\ \A over \in BOOLEAN : KeepsCredentials(UpdateAccountInfo(a, over))
  <2> HIDE DEF a
  <2> QED BY <1>1, EditsKeep
<1>3. Moved(p) /\ KeepsCopy(p)
  <2>1. \/ Goto(p, "store")
        \/ actor' = [actor EXCEPT ![p] = Settled([@ EXCEPT !.at = Resume(p), !.ret = "idle"])]
    BY DEF InfoArrives, StoreInfo
  <2> QED BY <2>1, ActorGoes, Leaves, Resumes DEF Targets
<1>4. UNCHANGED <<overUse, shared, tokens, loops>> BY DEF InfoArrives, StoreInfo
<1>5. \/ \E new : KeepsCredentials(new) /\ (Saved(new) \/ SaveFails(new))
      \/ UNCHANGED <<conf, disk, bounds>>
  BY <1>2 DEF InfoArrives, StoreInfo
<1>6. Quiet(p)
  <2>1. excluded \in [PoolRequests -> SUBSET Accounts] BY DEF Typed, PoolTypeOK
  <2> QED BY <1>4, <1>5, <2>1, Edits, WritesNothing
<1> QED BY <1>3, <1>6, QuietMove

(* InfoRefused: one edit, and on or once more through the refresh.         *)
LEMMA StepInfoRefused ==
    ASSUME Typed, NEW p \in Actors, InfoRefused(p)
    PROVE  Keeps
<1> DEFINE a == actor[p].id
<1>1. a \in Accounts BY DEF Typed, ActorRecord
<1>2. KeepsCredentials(conf) /\ KeepsCredentials(SetAccountBanStatus(a))
  <2> HIDE DEF a
  <2> QED BY <1>1, EditsKeep
<1>3. Moved(p) /\ KeepsCopy(p)
  <2>1. CASE actor' = [actor EXCEPT ![p].at = "refresh", ![p].ret = "info",
                                    ![p].class = "again", ![p].force = TRUE]
    <3> DEFINE old == actor[p]
               rec == [old EXCEPT !.at = "refresh", !.ret = "info", !.class = "again",
                                  !.force = TRUE]
    <3>1. old \in ActorRecord BY DEF Typed
    <3>2. actor' = [actor EXCEPT ![p] = rec] BY <2>1 DEF Typed
    <3> HIDE DEF old
    <3>3. /\ rec \in ActorRecord /\ rec.at = "refresh"
          /\ rec.id = old.id /\ rec.snap = old.snap
      BY <3>1 DEF ActorRecord, Targets
    <3> HIDE DEF rec
    <3> USE DEF old
    <3> QED BY <3>2, <3>3, Replaces DEF Targets, Refreshing
  <2>2. CASE actor' = [actor EXCEPT ![p] = Settled([@ EXCEPT !.at = Resume(p), !.ret = "idle"])]
    BY <2>2, Leaves, Resumes
  <2> QED BY <2>1, <2>2 DEF InfoRefused
<1>4. UNCHANGED <<overUse, shared, tokens, loops>> BY DEF InfoRefused
<1>5. \/ \E new : KeepsCredentials(new) /\ (Saved(new) \/ SaveFails(new))
      \/ UNCHANGED <<conf, disk, bounds>>
  BY <1>2 DEF InfoRefused
<1>6. Quiet(p)
  <2>1. excluded \in [PoolRequests -> SUBSET Accounts] BY DEF Typed, PoolTypeOK
  <2> QED BY <1>4, <1>5, <2>1, Edits, WritesNothing
<1> QED BY <1>3, <1>6, QuietMove

(* SetModelList writes no account.                                         *)
LEMMA StepSetModelList ==
    ASSUME Typed, NEW p \in Actors, SetModelList(p)
    PROVE  Keeps
<1>1. actor[p].id \in Accounts BY DEF Typed, ActorRecord
<1>2. /\ Moved(p) /\ KeepsCopy(p)
      /\ excluded' \in [PoolRequests -> SUBSET Accounts] /\ UNCHANGED <<tries, sweep>>
  <2>1. CASE Goto(p, Resume(p)) /\ UNCHANGED loops
    BY <2>1, ActorGoes, Resumes DEF Typed, PoolTypeOK
  <2>2. CASE \E class \in {"auth", "other"} : Fails(p, class)
    BY <2>2, FailsGoes DEF Classes
  <2> QED BY <2>1, <2>2 DEF SetModelList
<1>3. models' \in [Accounts -> {"unknown", "with", "without"}]
  BY <1>1 DEF SetModelList, Typed, PoolTypeOK
<1>4. VersionsOrdered => KeepsOrder
  BY <1>2 DEF VersionsOrdered, CopiesBehind, KeepsOrder, SetModelList
<1>5. Quiet(p)
  BY <1>2, <1>3, <1>4, PoolAssumption DEF SetModelList, Quiet, Typed, PoolTypeOK
<1> QED BY <1>2, <1>5, QuietMove

(* Reload copies the configuration, and every holder of a pointer keeps    *)
(* what it saw.                                                            *)
LEMMA StepReload ==
    ASSUME Typed, NEW p \in Actors, ReloadStep(p)
    PROVE  Keeps
<1> DEFINE kept(q) == [actor[q] EXCEPT !.snap = View(q)]
           last == [kept(p) EXCEPT !.at = actor[p].ret]
<1>1. ASSUME NEW q \in Actors
      PROVE  /\ kept(q) \in ActorRecord /\ kept(q).snap = View(q)
             /\ kept(q).id = actor[q].id /\ kept(q).at = actor[q].at
             /\ kept(q).work = actor[q].work /\ kept(q).ret = actor[q].ret
  <2> DEFINE o == actor[q]
             v == View(q)
  <2>1. o \in ActorRecord /\ v \in AccountRecord BY ViewTyped DEF Typed
  <2> HIDE DEF o, v
  <2>2. LET k == [o EXCEPT !.snap = v]
        IN  /\ k \in ActorRecord /\ k.snap = v
            /\ k.id = o.id /\ k.at = o.at /\ k.work = o.work /\ k.ret = o.ret
    BY <2>1 DEF ActorRecord
  <2> QED BY <2>2 DEF o, v
<1>2. actor' = [q \in Actors |-> IF q = p THEN Settled(last) ELSE kept(q)]
  BY DEF ReloadStep, Frozen
<1>3. actor[p].ret \in Targets BY DEF Typed, ActorRecord
<1>4. /\ last \in ActorRecord /\ last.at \in Targets
      /\ last.id = actor[p].id /\ last.snap = View(p)
  <2> DEFINE k == kept(p)
             r == actor[p].ret
  <2>1. k \in ActorRecord /\ k.snap = View(p) /\ k.id = actor[p].id BY <1>1
  <2> HIDE DEF k, r
  <2>2. LET l == [k EXCEPT !.at = r]
        IN  l \in ActorRecord /\ l.at = r /\ l.id = k.id /\ l.snap = k.snap
    BY <1>3, <2>1 DEF ActorRecord, r
  <2> QED BY <1>3, <2>1, <2>2 DEF k, r
<1> HIDE DEF last
<1>5. /\ actor'[p] \in ActorRecord /\ actor'[p].at \notin Refreshing
      /\ actor'[p] = last \/ actor'[p].snap.version = 0
  BY <1>2, <1>4, SettledTyped DEF Targets, Refreshing
<1>6. \A q \in Actors : q # p => actor'[q] = kept(q) BY <1>2
<1> HIDE DEF kept
<1>7. actor' \in [Actors -> ActorRecord] BY <1>1, <1>2, <1>5
<1>8. pool' \in [Accounts -> AccountRecord] /\ \A a \in Accounts : pool'[a].version = conf[a].version
  <2>1. \A a \in Accounts : /\ conf[a] \in AccountRecord
                            /\ [conf[a] EXCEPT !.present = FALSE] \in AccountRecord
                            /\ [conf[a] EXCEPT !.present = FALSE].version = conf[a].version
    BY PresenceEdited DEF Typed, PoolTypeOK
  <2>2. \A a \in Accounts : \/ pool'[a] = conf[a]
                            \/ pool'[a] = [conf[a] EXCEPT !.present = FALSE]
    BY DEF ReloadStep, Reload
  <2>3. pool' = [a \in Accounts |-> pool'[a]] BY DEF ReloadStep, Reload
  <2> QED BY <2>1, <2>2, <2>3
<1>9. live' = {} BY DEF ReloadStep, Reload
<1>10. Typed' BY <1>7, <1>8, <1>9 DEF Typed, PoolTypeOK, ReloadStep
<1>11. ASSUME VersionsOrdered PROVE VersionsOrdered' /\ NoneRegresses
  <2>1. CopiesBehind'
    <3>1. \A a \in Accounts : disk[a].version \in Nat
      BY PoolAssumption DEF Typed, PoolTypeOK, AccountRecord
    <3> QED BY <1>8, <1>11, <3>1 DEF VersionsOrdered, CopiesBehind, ReloadStep
  <2>2. ASSUME NEW q \in Actors PROVE HoldsOK(q)'
    <3>1. /\ actor[q].id \in Accounts /\ reused' = reused
          /\ actor[q].id \in reused \/ View(q).version <= disk[actor[q].id].version
      BY <1>11, ViewTyped DEF Typed, ActorRecord, ReloadStep
    <3>2. CASE q # p
      <4>1. HoldsOK(q) BY <1>11 DEF VersionsOrdered
      <4>2. /\ actor'[q].snap = View(q) /\ actor'[q].id = actor[q].id
            /\ actor'[q].at = actor[q].at /\ actor'[q].work = actor[q].work
        BY <1>1, <1>6, <3>2
      <4> QED BY <3>1, <4>1, <4>2 DEF HoldsOK, ReloadStep
    <3>3. CASE q = p
      <4>1. actor'[p].id \in Accounts BY <1>5 DEF ActorRecord
      <4>2. disk[actor'[p].id].version \in Nat
        BY <4>1, PoolAssumption DEF Typed, PoolTypeOK, AccountRecord
      <4>3. actor'[p].id \in reused \/ actor'[p].snap.version <= disk[actor'[p].id].version
        BY <1>4, <1>5, <3>1, <3>3, <4>2
      <4> QED BY <1>5, <3>3, <4>3 DEF HoldsOK, Refreshing, ReloadStep
    <3> QED BY <3>2, <3>3
  <2>3. NoneRegresses
    BY PoolAssumption DEF ReloadStep, NoneRegresses, Typed, PoolTypeOK, AccountRecord
  <2> QED BY <2>1, <2>2, <2>3 DEF VersionsOrdered
<1> QED BY <1>10, <1>11 DEF Keeps

(* The sweep reads the configuration, and visits what it read.             *)
LEMMA StepSweepStarts ==
    ASSUME Typed, SweepStarts
    PROVE  Keeps
<1> DEFINE p == "sweeper"
           old == actor[p]
<1>1. p \in Actors /\ old \in ActorRecord BY DEF Actors, Typed
<1>2. Moved(p) /\ KeepsCopy(p)
  <2>1. PICK work \in {"info", "listing"} :
           actor' = [actor EXCEPT ![p].at = "next", ![p].resume = work,
                                  ![p].class = "none", ![p].force = FALSE]
    BY DEF SweepStarts
  <2> DEFINE rec == [old EXCEPT !.at = "next", !.resume = work, !.class = "none",
                                !.force = FALSE]
  <2>2. actor' = [actor EXCEPT ![p] = rec] BY <1>1, <2>1 DEF Typed
  <2> HIDE DEF old
  <2>3. rec \in ActorRecord /\ rec.at = "next" /\ rec.id = old.id /\ rec.snap = old.snap
    BY <1>1 DEF ActorRecord, Targets
  <2> HIDE DEF rec
  <2> USE DEF old
  <2> QED BY <1>1, <2>2, <2>3, Replaces DEF Targets, Refreshing
<1>3. /\ sweep' \in [Accounts -> AccountRecord]
      /\ \A a \in Accounts : sweep'[a].version = conf[a].version
  <2>1. \A a \in Accounts : \A f \in BOOLEAN :
           /\ [conf[a] EXCEPT !.present = f] \in AccountRecord
           /\ [conf[a] EXCEPT !.present = f].version = conf[a].version
    BY PresenceEdited DEF Typed, PoolTypeOK
  <2>2. \A a \in Accounts : (conf[a].present /\ conf[a].enabled) \in BOOLEAN OBVIOUS
  <2> QED BY <2>1, <2>2 DEF SweepStarts
<1>4. Quiet(p)
  <2>1. tasks' \in 0..MaxTasks /\ moves' \in 0..MaxMoves /\ mishaps' \in 0..MaxMishaps /\ reused' = reused
    BY Counted DEF SweepStarts
  <2>2. VersionsOrdered => KeepsOrder
    <3>1. \A a \in Accounts : disk[a].version \in Nat
      BY PoolAssumption DEF Typed, PoolTypeOK, AccountRecord
    <3> QED BY <1>3, <3>1 DEF VersionsOrdered, CopiesBehind, KeepsOrder, SweepStarts
  <2> QED BY <1>3, <2>1, <2>2, PoolAssumption DEF SweepStarts, Quiet, Typed, PoolTypeOK
<1> QED BY <1>1, <1>2, <1>4, QuietMove

(* SweepNext: the next account, with the copy made at the start.           *)
LEMMA StepSweepNext ==
    ASSUME Typed, SweepNext
    PROVE  Keeps
<1> DEFINE p == "sweeper"
           old == actor[p]
           work == old.resume
           left == {a \in Accounts : sweep[a].present}
<1>1. p \in Actors /\ old \in ActorRecord BY DEF Actors, Typed
<1>2. work \in Targets BY <1>1 DEF ActorRecord
<1>3. UNCHANGED <<configVars, shared, tokens, excluded, tries, bounds>> BY DEF SweepNext
<1>4. CASE left = {}
  <2>1. actor' = [actor EXCEPT ![p] =
                   Settled([@ EXCEPT !.at = IF work = "info" THEN "reload" ELSE "idle",
                                     !.ret = "idle"])]
    BY <1>4 DEF SweepNext
  <2>2. (IF work = "info" THEN "reload" ELSE "idle") \in Targets BY DEF Targets
  <2>3. Moved(p) /\ KeepsCopy(p) BY <1>1, <2>1, <2>2, Leaves
  <2>4. excluded \in [PoolRequests -> SUBSET Accounts] BY DEF Typed, PoolTypeOK
  <2>5. UNCHANGED sweep BY <1>4 DEF SweepNext
  <2>6. Quiet(p) BY <1>1, <1>3, <2>4, <2>5, WritesNothing
  <2> QED BY <1>1, <2>3, <2>6, QuietMove
<1>5. CASE left # {}
  <2>1. PICK a \in First(left) :
           /\ actor' = [actor EXCEPT ![p].id = a, ![p].snap = sweep[a], ![p].ret = work,
                           ![p].at = IF Near(a, sweep[a]) THEN "refresh" ELSE work]
           /\ sweep' = [sweep EXCEPT ![a].present = FALSE]
    BY <1>5 DEF SweepNext
  <2>2. a \in Accounts /\ sweep[a] \in AccountRecord
    BY DEF First, Typed, PoolTypeOK
  <2> DEFINE to == IF Near(a, sweep[a]) THEN "refresh" ELSE work
             rec == [old EXCEPT !.id = a, !.snap = sweep[a], !.ret = work, !.at = to]
  <2>3. actor' = [actor EXCEPT ![p] = rec] BY <1>1, <2>1 DEF Typed
  <2>4. to \in Targets BY <1>2 DEF Targets
  <2> HIDE DEF old, work, to
  <2>5. rec \in ActorRecord /\ rec.at = to /\ rec.id = a /\ rec.snap = sweep[a]
    BY <1>1, <1>2, <2>2, <2>4 DEF ActorRecord
  <2> HIDE DEF rec
  <2>6. Moved(p) /\ actor'[p] = rec
    BY <1>1, <2>3, <2>4, <2>5, Replaces DEF Targets, Refreshing
  <2>7. VersionsOrdered =>
          actor'[p].id \in reused \/ actor'[p].snap.version <= disk[actor'[p].id].version
    BY <2>2, <2>5, <2>6 DEF VersionsOrdered, CopiesBehind
  <2>8. /\ sweep' \in [Accounts -> AccountRecord]
        /\ \A b \in Accounts : sweep'[b].version = sweep[b].version
    <3> DEFINE entry == [sweep[a] EXCEPT !.present = FALSE]
    <3>1. entry \in AccountRecord /\ entry.version = sweep[a].version
      BY <2>2 DEF AccountRecord
    <3>2. sweep' = [sweep EXCEPT ![a] = entry] BY <2>1
    <3> HIDE DEF entry
    <3> QED BY <2>2, <3>1, <3>2 DEF Typed, PoolTypeOK
  <2>9. VersionsOrdered => KeepsOrder
    BY <1>3, <2>8 DEF VersionsOrdered, CopiesBehind, KeepsOrder
  <2>10. Quiet(p)
    BY <1>3, <2>8, <2>9, PoolAssumption DEF Quiet, Typed, PoolTypeOK
  <2> QED BY <1>1, <2>6, <2>7, <2>10, QuietMove
<1> QED BY <1>4, <1>5

(* Where the administrator's handlers go.                                  *)
LEMMA HandlersTyped ==
    ASSUME NEW rec, NEW near, NEW h \in Handlers(rec, near)
    PROVE  h.at \in Targets /\ h.ret \in Targets /\ h.resume \in Targets /\ h.force \in BOOLEAN
<1> DEFINE info == IF near THEN "refresh" ELSE "info"
           listing == IF near THEN "refresh" ELSE "listing"
           yes == TRUE
           no == FALSE
<1>1. info \in Targets /\ listing \in Targets BY DEF Targets
<1>2. h \in {[at |-> "edit", resume |-> "idle", force |-> no, ret |-> "idle"],
             [at |-> "batch", resume |-> "idle", force |-> no, ret |-> "idle"],
             [at |-> info, resume |-> "idle", force |-> yes, ret |-> "info"],
             [at |-> "refresh", resume |-> "reload", force |-> yes, ret |-> "info"],
             [at |-> "overage", resume |-> "idle", force |-> no, ret |-> "idle"],
             [at |-> listing, resume |-> "idle", force |-> no, ret |-> "listing"],
             [at |-> "listing", resume |-> "idle", force |-> no, ret |-> "idle"]}
  BY DEF Handlers
<1>3. yes \in BOOLEAN /\ no \in BOOLEAN OBVIOUS
<1> HIDE DEF info, listing, yes, no
<1>4. /\ h.at \in {"edit", "batch", "refresh", "overage", "listing", info, listing}
      /\ h.resume \in {"idle", "reload"} /\ h.ret \in {"idle", "info", "listing"}
  BY <1>2
<1>5. h.force \in {yes, no} BY <1>2
<1> QED BY <1>1, <1>4, <1>5, <1>3 DEF Targets

(* A handler of the administrator begins with a copy of the account.       *)
LEMMA StepOperatorCopies ==
    ASSUME Typed, OperatorCopies
    PROVE  Keeps
<1> DEFINE p == "operator"
<1>1. p \in Actors BY DEF Actors
<1>0. PICK a \in Accounts : \E h \in Handlers(conf[a], Near(a, conf[a])) :
         actor' = [actor EXCEPT ![p] =
                     [at |-> h.at, id |-> a, snap |-> conf[a], ret |-> h.ret,
                      resume |-> h.resume, force |-> h.force, work |-> 0,
                      class |-> IF h.resume = "reload" THEN "batch" ELSE "fresh"]]
  BY DEF OperatorCopies
<1>2. PICK h \in Handlers(conf[a], Near(a, conf[a])) :
         actor' = [actor EXCEPT ![p] =
                     [at |-> h.at, id |-> a, snap |-> conf[a], ret |-> h.ret,
                      resume |-> h.resume, force |-> h.force, work |-> 0,
                      class |-> IF h.resume = "reload" THEN "batch" ELSE "fresh"]]
  BY <1>0
<1> DEFINE class == IF h.resume = "reload" THEN "batch" ELSE "fresh"
           rec == [at |-> h.at, id |-> a, snap |-> conf[a], ret |-> h.ret,
                   resume |-> h.resume, force |-> h.force, work |-> 0, class |-> class]
<1>3. h.at \in Targets /\ h.ret \in Targets /\ h.resume \in Targets /\ h.force \in BOOLEAN
  BY HandlersTyped
<1>4. actor' = [actor EXCEPT ![p] = rec] BY <1>2
<1>5. conf[a] \in AccountRecord /\ class \in {"batch", "fresh"} BY DEF Typed, PoolTypeOK
<1> HIDE DEF class
<1>6. rec \in ActorRecord /\ rec.at = h.at /\ rec.id = a /\ rec.snap = conf[a]
  BY <1>3, <1>5, PoolAssumption DEF ActorRecord
<1> HIDE DEF rec
<1>7. Moved(p) /\ actor'[p] = rec
  BY <1>1, <1>3, <1>4, <1>6, Replaces DEF Targets, Refreshing
<1>8. VersionsOrdered =>
          actor'[p].id \in reused \/ actor'[p].snap.version <= disk[actor'[p].id].version
  <2>1. conf[a].version \in Nat BY <1>5, PoolAssumption DEF AccountRecord
  <2> QED BY <1>6, <1>7, <2>1 DEF VersionsOrdered, CopiesBehind
<1>9. Quiet(p)
  <2>1. tasks' \in 0..MaxTasks /\ moves' \in 0..MaxMoves /\ mishaps' \in 0..MaxMishaps /\ reused' = reused
    BY Counted DEF OperatorCopies
  <2>2. VersionsOrdered => KeepsOrder
    BY DEF VersionsOrdered, CopiesBehind, KeepsOrder, OperatorCopies
  <2> QED BY <2>1, <2>2, PoolAssumption DEF OperatorCopies, Quiet, Typed, PoolTypeOK
<1> QED BY <1>1, <1>7, <1>8, <1>9, QuietMove

(* apiUpdateAccount and apiBatchAccounts: the copy is written back but for *)
(* its credential, and the pool reloaded.                                  *)
LEMMA StepEdit ==
    ASSUME Typed, ApiUpdateAccount \/ ApiBatchAccounts
    PROVE  Keeps
<1> DEFINE p == "operator"
           o == actor[p]
<1>1. p \in Actors /\ o \in ActorRecord BY DEF Actors, Typed
<1>2. o.id \in Accounts /\ o.snap \in AccountRecord BY <1>1 DEF ActorRecord
<1>3. UNCHANGED <<overUse, shared, tokens, loops>> BY DEF ApiUpdateAccount, ApiBatchAccounts
<1>4. CASE SaveFails(conf) /\ Goto(p, "idle")
  <2>1. Moved(p) /\ KeepsCopy(p) BY <1>1, <1>4, ActorGoes DEF Targets
  <2>2. KeepsCredentials(conf)
    <3> HIDE DEF o
    <3> QED BY <1>2, EditsKeep
  <2>3. Quiet(p) BY <1>1, <1>3, <1>4, <2>2, Edits
  <2> QED BY <1>1, <2>1, <2>3, QuietMove
<1>5. CASE \E enabled \in BOOLEAN :
              \E rec \in {[o.snap EXCEPT !.enabled = enabled],
                          [o.snap EXCEPT !.enabled = enabled, !.banned = @ /\ ~enabled]} :
                 /\ \/ Saved(IF conf[o.id].present THEN UpdateAccount(o.id, rec) ELSE conf)
                    \/ SaveFails(conf)
                 /\ actor' = [actor EXCEPT ![p].at = "reload",
                                 ![p].ret = ThenModels(rec), ![p].snap = rec]
  <2>0. PICK enabled \in BOOLEAN :
              \E rec \in {[o.snap EXCEPT !.enabled = enabled],
                          [o.snap EXCEPT !.enabled = enabled, !.banned = @ /\ ~enabled]} :
                 /\ \/ Saved(IF conf[o.id].present THEN UpdateAccount(o.id, rec) ELSE conf)
                    \/ SaveFails(conf)
                 /\ actor' = [actor EXCEPT ![p].at = "reload",
                                 ![p].ret = ThenModels(rec), ![p].snap = rec]
    BY <1>5
  <2>1. PICK rec \in {[o.snap EXCEPT !.enabled = enabled],
                      [o.snap EXCEPT !.enabled = enabled, !.banned = @ /\ ~enabled]} :
                 /\ \/ Saved(IF conf[o.id].present THEN UpdateAccount(o.id, rec) ELSE conf)
                    \/ SaveFails(conf)
                 /\ actor' = [actor EXCEPT ![p].at = "reload",
                                 ![p].ret = ThenModels(rec), ![p].snap = rec]
    BY <2>0
  <2>2. rec \in AccountRecord /\ rec.version = o.snap.version
    <3> DEFINE snap == o.snap
    <3>1. snap \in AccountRecord BY <1>2
    <3>2. rec \in {[snap EXCEPT !.enabled = enabled],
                   [snap EXCEPT !.enabled = enabled, !.banned = @ /\ ~enabled]}
      BY <2>1
    <3> HIDE DEF snap
    <3>3. CASE rec = [snap EXCEPT !.enabled = enabled] BY <3>1, <3>3 DEF AccountRecord, snap
    <3>4. CASE rec = [snap EXCEPT !.enabled = enabled, !.banned = @ /\ ~enabled]
      <4> DEFINE b == snap.banned /\ ~enabled
      <4>1. rec = [snap EXCEPT !.enabled = enabled, !.banned = b] BY <3>4
      <4>2. b \in BOOLEAN OBVIOUS
      <4> HIDE DEF b
      <4>3. rec \in AccountRecord /\ rec.version = snap.version
        BY <3>1, <4>1, <4>2 DEF AccountRecord
      <4> QED BY <4>3 DEF snap
    <3> QED BY <3>2, <3>3, <3>4
  <2> DEFINE a == o.id
             ret == ThenModels(rec)
             next == [o EXCEPT !.at = "reload", !.ret = ret, !.snap = rec]
  <2>3. ret \in Targets BY DEF ThenModels, Targets
  <2>4. actor' = [actor EXCEPT ![p] = next] BY <1>1, <2>1 DEF Typed
  <2> HIDE DEF o, ret
  <2>5. next \in ActorRecord /\ next.at = "reload" /\ next.id = o.id /\ next.snap = rec
    BY <1>1, <2>2, <2>3 DEF ActorRecord, Targets
  <2> HIDE DEF next
  <2> USE DEF o
  <2>6. Moved(p) /\ KeepsCopy(p)
    BY <1>1, <2>2, <2>4, <2>5, Replaces DEF Targets, Refreshing
  <2>7. KeepsCredentials(conf) /\ KeepsCredentials(UpdateAccount(a, rec))
    <3>1. a \in Accounts BY <1>2
    <3> HIDE DEF a
    <3> QED BY <2>2, <3>1, EditsKeep, UpdateKeeps
  <2>8. \E new : KeepsCredentials(new) /\ (Saved(new) \/ SaveFails(new))
    BY <2>1, <2>7
  <2>9. Quiet(p) BY <1>1, <1>3, <2>8, Edits
  <2> QED BY <1>1, <2>6, <2>9, QuietMove
<1> QED BY <1>4, <1>5 DEF ApiUpdateAccount, ApiBatchAccounts

(* apiDeleteAccount leaves the credential where it was, also on disk.      *)
LEMMA StepDelete ==
    ASSUME Typed, ApiDeleteAccount
    PROVE  Keeps
<1> DEFINE p == "operator"
<1>1. p \in Actors BY DEF Actors
<1>2. PICK a \in Accounts :
         /\ conf' = DeleteAccount(a)
         /\ \/ disk' = conf' /\ actor' = [actor EXCEPT ![p].at = "reload", ![p].ret = "idle"]
            \/ UNCHANGED <<disk, actor>>
  BY DEF ApiDeleteAccount
<1>3. KeepsCredentials(conf') BY <1>2, EditsKeep
<1>4. tasks' \in 0..MaxTasks /\ moves' \in 0..MaxMoves /\ mishaps' \in 0..MaxMishaps /\ reused' = reused
    BY Counted DEF ApiDeleteAccount
<1>5. disk' = conf' \/ disk' = disk BY <1>2
<1>6. UNCHANGED <<overUse, shared, tokens, loops>> BY DEF ApiDeleteAccount
<1>7. VersionsOrdered => KeepsOrder
  <2>1. \A b \in Accounts : conf'[b].version = conf[b].version BY <1>3 DEF KeepsCredentials
  <2> QED BY <1>5, <1>6, <2>1 DEF VersionsOrdered, CopiesBehind, KeepsOrder
<1>8. Quiet(p)
  BY <1>3, <1>4, <1>5, <1>6, <1>7, PoolAssumption DEF KeepsCredentials, Quiet, Typed, PoolTypeOK
<1>9. CASE actor' = [actor EXCEPT ![p].at = "reload", ![p].ret = "idle"]
  <2>1. Moved(p) /\ KeepsCopy(p) BY <1>1, <1>9, ActorTurns DEF Targets
  <2> QED BY <1>1, <1>8, <2>1, QuietMove
<1>10. CASE UNCHANGED actor
  <2>1. Typed' BY <1>8, <1>10 DEF Typed, PoolTypeOK, Quiet
  <2>2. \A b \in Accounts : upstream[b] <= upstream'[b] BY <1>8 DEF Quiet
  <2>3. UNCHANGED <<actor, lock, reused>> BY <1>4, <1>6, <1>10
  <2> QED BY <1>7, <2>1, <2>2, <2>3, TablesStep DEF Keeps
<1> QED BY <1>2, <1>9, <1>10

(* An account is added with a later login's credential; when a refresh of  *)
(* the account that had its id before is on its way, the id is remembered. *)
LEMMA StepAdd ==
    ASSUME Typed, ApiAddAccount
    PROVE  Keeps
<1> DEFINE p == "operator"
           old == actor[p]
<1>1. p \in Actors /\ old \in ActorRecord BY DEF Actors, Typed
<1>2. PICK a \in Accounts :
         /\ upstream[a] < MaxVersion /\ upstream' = [upstream EXCEPT ![a] = @ + 1]
         /\ conf' = AddAccount(a, upstream[a] + 1) /\ disk' = conf'
         /\ reused' = {b \in Accounts : b \in reused \/ (b = a /\ BeingRefreshed(a))}
         /\ actor' = [actor EXCEPT ![p] =
                        [at |-> "reload", id |-> a, snap |-> conf'[a], ret |-> "listing",
                         resume |-> "idle", force |-> FALSE, work |-> 0, class |-> "fresh"]]
  BY DEF ApiAddAccount
<1> DEFINE v == upstream[a] + 1
           entry == [present |-> TRUE, enabled |-> TRUE, banned |-> FALSE, over |-> FALSE,
                     overage |-> FALSE, arn |-> FALSE, version |-> v, served |-> 0]
           rec == [at |-> "reload", id |-> a, snap |-> entry, ret |-> "listing",
                   resume |-> "idle", force |-> FALSE, work |-> 0, class |-> "fresh"]
<1>0. \A b \in Accounts : /\ upstream[b] \in Nat /\ disk[b].version \in Nat
                          /\ conf[b].version \in Nat /\ pool[b].version \in Nat
                          /\ sweep[b].version \in Nat
  BY PoolAssumption DEF Typed, PoolTypeOK, AccountRecord
<1>3. /\ v \in 0..MaxVersion /\ upstream' \in [Accounts -> 0..MaxVersion] /\ upstream'[a] = v
      /\ \A b \in Accounts : upstream[b] <= upstream'[b] /\ upstream'[b] \in Nat
  BY <1>0, <1>2, PoolAssumption DEF Typed, PoolTypeOK
<1>4. entry \in AccountRecord /\ entry.version = v /\ entry.present
  <2> HIDE DEF v
  <2> QED BY <1>3 DEF AccountRecord
<1>5. /\ conf' \in [Accounts -> AccountRecord] /\ conf'[a] = entry
      /\ \A b \in Accounts : b # a => conf'[b] = conf[b]
  <2>1. conf' = With(a, entry) BY <1>2 DEF AddAccount
  <2> HIDE DEF entry
  <2> QED BY <1>4, <2>1, WithTyped
<1>6. actor' = [actor EXCEPT ![p] = rec] BY <1>2, <1>5
<1> HIDE DEF entry, v
<1>7. rec \in ActorRecord /\ rec.at = "reload" /\ rec.id = a /\ rec.snap = entry
  BY <1>4, PoolAssumption DEF ActorRecord, Targets
<1> HIDE DEF rec
<1>8. Moved(p) /\ actor'[p] = rec
  BY <1>1, <1>6, <1>7, Replaces DEF Targets, Refreshing
<1>9. tasks' \in 0..MaxTasks /\ moves' \in 0..MaxMoves /\ mishaps' \in 0..MaxMishaps
  BY PoolAssumption DEF ApiAddAccount, Move, Typed, PoolTypeOK
<1>10. UNCHANGED <<overUse, shared, lock, lapsed, loops>> /\ disk' = conf'
  BY <1>2 DEF ApiAddAccount
<1>11. Typed' /\ reused \subseteq reused'
  <2>1. reused' \subseteq Accounts /\ reused \subseteq reused' BY <1>2 DEF Typed, PoolTypeOK
  <2> QED BY <1>3, <1>5, <1>8, <1>9, <1>10, <2>1, PoolAssumption DEF Typed, PoolTypeOK, Moved
<1>12. ASSUME VersionsOrdered PROVE VersionsOrdered' /\ NoneRegresses
  <2>1. disk'[a].version = v /\ disk[a].version <= v
    BY <1>0, <1>4, <1>5, <1>10, <1>12 DEF VersionsOrdered, CopiesBehind, v
  <2>2. \A b \in Accounts : b # a => disk'[b].version = disk[b].version
    BY <1>5, <1>10, <1>12 DEF VersionsOrdered, CopiesBehind
  <2>3. \A b \in Accounts : /\ conf'[b].version = disk'[b].version
                            /\ disk[b].version <= disk'[b].version
                            /\ disk'[b].version <= upstream'[b] /\ disk'[b].version \in Nat
    <3>1. CASE v \in Nat
      BY <1>0, <1>3, <1>10, <1>12, <2>1, <2>2, <3>1 DEF VersionsOrdered, CopiesBehind
    <3> QED BY <1>3, <3>1, PoolAssumption
  <2>4. CopiesBehind'
    BY <1>0, <1>10, <1>11, <1>12, <2>3 DEF VersionsOrdered, CopiesBehind
  <2>5. HoldsOK(p)'
    BY <1>4, <1>7, <1>8, <2>1, <2>3 DEF HoldsOK, Refreshing
  <2>6. ASSUME NEW q \in Actors, q # p PROVE HoldsOK(q)'
    <3> DEFINE o == actor[q]
    <3>1. actor'[q] = o /\ HoldsOK(q) BY <1>8, <1>12, <2>6 DEF Moved, VersionsOrdered
    <3>2. o \in ActorRecord BY DEF Typed
    <3>3. o.id \in Accounts /\ o.snap.version \in Nat /\ o.work \in Nat
      BY <3>2, PoolAssumption DEF ActorRecord, AccountRecord
    <3>4. /\ o.at \in Refreshing => lock' = q
          /\ o.at = "persist" => o.work <= upstream'[o.id]
      BY <1>0, <1>3, <1>10, <3>1, <3>3 DEF HoldsOK
    <3>5. o.id \in reused' \/ o.snap.version <= disk'[o.id].version
      BY <1>0, <1>11, <2>3, <3>1, <3>3 DEF HoldsOK
    <3>6. ASSUME o.at \in Refreshing, o.id \notin reused'
          PROVE  /\ o.at = "persist" => conf'[o.id].version <= o.work
                 /\ o.at = "publish" => o.work <= disk'[o.id].version
      <4>1. o.id # a BY <1>2, <3>6 DEF BeingRefreshed, Refreshing
      <4>2. conf'[o.id] = conf[o.id] /\ disk'[o.id].version = disk[o.id].version
        BY <1>5, <2>2, <3>3, <4>1
      <4> QED BY <1>11, <3>1, <3>6, <4>2 DEF HoldsOK
    <3> HIDE DEF o
    <3> QED BY <3>1, <3>4, <3>5, <3>6 DEF HoldsOK, Refreshing
  <2>7. NoneRegresses
    <3>1. \A b \in Accounts : conf[b].version = disk[b].version
      BY <1>12 DEF VersionsOrdered, CopiesBehind
    <3> QED BY <2>3, <3>1 DEF NoneRegresses
  <2> QED BY <2>4, <2>5, <2>6, <2>7 DEF VersionsOrdered
<1> QED BY <1>11, <1>12 DEF Keeps

(* apiUpdateSettings.                                                      *)
LEMMA StepSettings ==
    ASSUME Typed, ApiUpdateSettings
    PROVE  Keeps
<1> DEFINE p == "operator"
<1>1. p \in Actors BY DEF Actors
<1>2. Moved(p) /\ KeepsCopy(p) BY <1>1, ActorTurns DEF ApiUpdateSettings, Targets
<1>3. tasks' \in 0..MaxTasks /\ moves' \in 0..MaxMoves /\ mishaps' \in 0..MaxMishaps /\ reused' = reused
    BY Counted DEF ApiUpdateSettings
<1>4. VersionsOrdered => KeepsOrder
  BY DEF VersionsOrdered, CopiesBehind, KeepsOrder, ApiUpdateSettings
<1>5. Quiet(p)
  BY <1>3, <1>4, PoolAssumption DEF ApiUpdateSettings, Quiet, Typed, PoolTypeOK
<1> QED BY <1>1, <1>2, <1>5, QuietMove

-----------------------------------------------------------------------------
(* Time, the end of the process, and the start.                            *)

(* Tokens expire and cooldowns end.                                        *)
LEMMA StepTime ==
    ASSUME Typed, NEW a \in Accounts, TokenExpires(a) \/ CooldownEnds(a)
    PROVE  Keeps
<1>1. Typed'
  <2>1. CASE TokenExpires(a)
    <3>1. tasks' \in 0..MaxTasks /\ moves' \in 0..MaxMoves /\ mishaps' \in 0..MaxMishaps /\ reused' = reused
      BY <2>1, Counted DEF TokenExpires
    <3> QED BY <2>1, <3>1 DEF TokenExpires, Typed, PoolTypeOK
  <2>2. CASE CooldownEnds(a) BY <2>2 DEF CooldownEnds, Typed, PoolTypeOK
  <2> QED BY <2>1, <2>2
<1>2. UNCHANGED <<conf, disk, pool, sweep, upstream, actor, lock, reused>>
  BY DEF TokenExpires, CooldownEnds, Mishap
<1>3. \A b \in Accounts : upstream[b] <= upstream'[b]
  BY <1>2, PoolAssumption DEF Typed, PoolTypeOK
<1>4. VersionsOrdered => KeepsOrder
  BY <1>2 DEF VersionsOrdered, CopiesBehind, KeepsOrder
<1> QED BY <1>1, <1>2, <1>3, <1>4, TablesStep DEF Keeps

(* After a restart the configuration and the pool are what is on disk.     *)
LEMMA StepRestart ==
    ASSUME Typed, Restart
    PROVE  Keeps
<1> DEFINE n == NobodyYet
           done == [n EXCEPT !.at = "done"]
<1>1. n \in ActorRecord /\ n.at = "idle" /\ n.snap.version = 0 BY NobodyTyped
<1>2. actor' = [p \in Actors |-> IF p \in PoolRequests /\ actor[p].at # "idle" THEN done ELSE n]
  BY DEF Restart
<1> HIDE DEF n
<1>3. done \in ActorRecord /\ done.at = "done" /\ done.snap.version = 0
  BY <1>1 DEF ActorRecord, Targets
<1> HIDE DEF done
<1>4. /\ actor' \in [Actors -> ActorRecord]
      /\ \A p \in Actors : actor'[p].at \notin Refreshing /\ actor'[p].snap.version = 0
  BY <1>1, <1>2, <1>3 DEF Refreshing
<1>5. \A a \in Accounts : disk[a] \in AccountRecord /\ disk[a].version \in Nat
  BY PoolAssumption DEF Typed, PoolTypeOK, AccountRecord
<1>6. /\ {pool', sweep'} \subseteq [Accounts -> AccountRecord]
      /\ \A a \in Accounts : pool'[a].version = disk[a].version /\ sweep'[a].version = disk[a].version
  <2>1. \A a \in Accounts : /\ [disk[a] EXCEPT !.present = FALSE] \in AccountRecord
                            /\ [disk[a] EXCEPT !.present = FALSE].version = disk[a].version
    BY <1>5, PresenceEdited
  <2>2. /\ pool' = [a \in Accounts |-> pool'[a]]
        /\ \A a \in Accounts : \/ pool'[a] = disk[a]
                               \/ pool'[a] = [disk[a] EXCEPT !.present = FALSE]
    BY DEF Restart, Enabled
  <2>3. sweep' = [a \in Accounts |-> [disk[a] EXCEPT !.present = FALSE]] BY DEF Restart
  <2> QED BY <1>5, <2>1, <2>2, <2>3
<1>7. Typed'
  <2>1. tasks' \in 0..MaxTasks /\ moves' \in 0..MaxMoves /\ mishaps' \in 0..MaxMishaps /\ reused' = {}
    BY PoolAssumption DEF Typed, PoolTypeOK, Restart
  <2>2. conf' \in [Accounts -> AccountRecord] /\ disk' \in [Accounts -> AccountRecord]
    BY DEF Restart, Typed, PoolTypeOK
  <2>3. /\ cooling' \in [Accounts -> {"none", "past", "future"}]
        /\ models' \in [Accounts -> {"unknown", "with", "without"}]
        /\ errors' \in [Accounts -> 0..ErrorLimit] /\ tries' \in [PoolRequests -> 0..MaxTries]
    BY PoolAssumption DEF Restart
  <2>4. /\ live' \subseteq PoolRequests /\ excluded' \in [PoolRequests -> SUBSET Accounts]
        /\ lock' \in Actors \cup {"free"} /\ overUse' \in BOOLEAN
    BY DEF Restart, Typed, PoolTypeOK
  <2>5. {upstream', lapsed'} \subseteq [Accounts -> 0..MaxVersion]
    BY DEF Restart, Typed, PoolTypeOK
  <2>6. PoolTypeOK' BY <1>6, <2>1, <2>2, <2>3, <2>4, <2>5 DEF PoolTypeOK
  <2> QED BY <1>4, <2>6 DEF Typed
<1>8. ASSUME VersionsOrdered PROVE VersionsOrdered' /\ NoneRegresses
  <2>1. conf' = disk /\ disk' = disk /\ upstream' = upstream BY DEF Restart
  <2>2. \A a \in Accounts : conf[a].version = disk[a].version /\ disk[a].version <= upstream[a]
    BY <1>8 DEF VersionsOrdered, CopiesBehind
  <2>3. CopiesBehind' BY <1>5, <1>6, <2>1, <2>2 DEF CopiesBehind
  <2>4. ASSUME NEW p \in Actors PROVE HoldsOK(p)'
    <3>1. actor'[p].id \in Accounts BY <1>4 DEF ActorRecord
    <3> QED BY <1>4, <1>5, <2>1, <3>1 DEF HoldsOK, Refreshing
  <2>5. NoneRegresses BY <1>5, <2>1, <2>2 DEF NoneRegresses
  <2> QED BY <2>3, <2>4, <2>5 DEF VersionsOrdered
<1> QED BY <1>7, <1>8 DEF Keeps

(* Who is there at the start has what the provider knows.                  *)
LEMMA PoolStarts ==
    ASSUME PoolInit
    PROVE  Typed /\ VersionsOrdered
<1> DEFINE n == NobodyYet
           done == [n EXCEPT !.at = "done"]
           gone == [Fresh EXCEPT !.present = FALSE]
           unknown == [Fresh EXCEPT !.present = FALSE, !.enabled = FALSE]
<1>1. n \in ActorRecord /\ n.at = "idle" /\ n.snap.version = 0 BY NobodyTyped
<1>2. \E waiting \in SUBSET PoolRequests :
         actor = [p \in Actors |-> IF p \in PoolRequests \ waiting THEN done ELSE n]
  BY DEF PoolInit
<1> HIDE DEF n
<1>3. done \in ActorRecord /\ done.at = "done" /\ done.snap.version = 0
  BY <1>1 DEF ActorRecord, Targets
<1> HIDE DEF done
<1>4. /\ actor \in [Actors -> ActorRecord]
      /\ \A p \in Actors : actor[p].at \notin Refreshing /\ actor[p].snap.version = 0
  BY <1>1, <1>2, <1>3 DEF Refreshing
<1>5. \A r \in {Fresh, gone, unknown} : r \in AccountRecord /\ r.version = 1
  <2> DEFINE f == Fresh
  <2>1. f \in AccountRecord /\ f.version = 1
    <3> DEFINE yes == TRUE
               no == FALSE
    <3>1. f = [present |-> yes, enabled |-> yes, banned |-> no, over |-> no,
               overage |-> no, arn |-> yes, version |-> 1, served |-> 0]
      BY DEF Fresh
    <3>2. yes \in BOOLEAN /\ no \in BOOLEAN /\ 1 \in 0..MaxVersion BY PoolAssumption
    <3> HIDE DEF f, yes, no
    <3> QED BY <3>1, <3>2 DEF AccountRecord
  <2>2. gone = [f EXCEPT !.present = FALSE]
        /\ unknown = [f EXCEPT !.present = FALSE, !.enabled = FALSE]
    OBVIOUS
  <2> HIDE DEF f, gone, unknown
  <2>3. gone \in AccountRecord /\ gone.version = 1 BY <2>1, <2>2, PresenceEdited
  <2>4. unknown \in AccountRecord /\ unknown.version = 1 BY <2>1, <2>2 DEF AccountRecord
  <2> QED BY <2>1, <2>3, <2>4 DEF f
<1>6. PICK known \in SUBSET Accounts :
         conf = [a \in Accounts |-> IF a \in known THEN Fresh ELSE unknown]
  BY DEF PoolInit
<1>7. sweep = [a \in Accounts |-> gone] BY DEF PoolInit
<1> HIDE DEF gone, unknown
<1>8. /\ {conf, disk, pool, sweep} \subseteq [Accounts -> AccountRecord]
      /\ \A a \in Accounts : /\ conf[a].version = 1 /\ disk[a].version = 1
                             /\ pool[a].version = 1 /\ sweep[a].version = 1
  <2>1. disk = conf /\ pool = conf BY DEF PoolInit
  <2> QED BY <1>5, <1>6, <1>7, <2>1
<1>9. upstream \in [Accounts -> 1..MaxVersion] /\ lapsed \in [Accounts -> 0..1] BY DEF PoolInit
<1>10. PoolTypeOK
  <2>1. {upstream, lapsed} \subseteq [Accounts -> 0..MaxVersion] BY <1>9, PoolAssumption
  <2>2. /\ errors \in [Accounts -> 0..ErrorLimit]
        /\ cooling \in [Accounts -> {"none", "past", "future"}]
    BY PoolAssumption DEF PoolInit
  <2>3. tries \in [PoolRequests -> 0..MaxTries] BY PoolAssumption DEF PoolInit
  <2> QED BY <1>8, <2>1, <2>2, <2>3 DEF PoolInit, PoolTypeOK
<1>11. CopiesBehind BY <1>8, <1>9 DEF CopiesBehind
<1>12. ASSUME NEW p \in Actors PROVE HoldsOK(p)
  <2>1. actor[p].id \in Accounts BY <1>4 DEF ActorRecord
  <2> QED BY <1>4, <1>8, <2>1 DEF HoldsOK, Refreshing
<1> QED BY <1>4, <1>10, <1>11, <1>12 DEF Typed, VersionsOrdered

-----------------------------------------------------------------------------
(* The steps together.                                                     *)

(* A goroutine under way keeps the tables' types and the versions' order.  *)
LEMMA StepProceeds ==
    ASSUME Typed, NEW p \in Actors, Proceeds(p)
    PROVE  Keeps
BY StepRecords, StepDisableAccount, StepOverage, StepReload, StepRefreshReads, StepExchange,
   StepPersist, StepPublish, StepResolveProfileArn
DEF Proceeds

(* The sweep and the administrator on their way.                          *)
LEMMA StepReader ==
    ASSUME Typed, NEW p \in Actors, ReaderStep(p)
    PROVE  Keeps
BY StepInfo, StepInfoRefused, StepSetModelList, StepProceeds DEF ReaderStep

(* A request on its way.                                                   *)
LEMMA StepRequest ==
    ASSUME Typed, NEW r \in PoolRequests, BeginRequest(r) \/ RequestStep(r)
    PROVE  Keeps
<1>1. r \in Actors BY DEF Actors
<1> QED
  BY <1>1, StepBeginOrEnd, StepChoose, StepRecords, StepUpdateStats, StepCallFails, StepProceeds
  DEF RequestStep

(* Every step.                                                             *)
LEMMA StepPool ==
    ASSUME Typed, PoolNext
    PROVE  Keeps
<1>1. "operator" \in Actors /\ "sweeper" \in Actors BY DEF Actors
<1>2. CASE Operator
  BY <1>1, <1>2, StepOperatorCopies, StepEdit, StepDelete, StepAdd, StepSettings, StepReader
  DEF Operator
<1>3. CASE SweepStarts \/ SweepNext \/ ReaderStep("sweeper")
  BY <1>1, <1>3, StepSweepStarts, StepSweepNext, StepReader
<1> QED BY <1>2, <1>3, StepRequest, StepTime, StepRestart DEF PoolNext

(* Nothing happens.                                                        *)
LEMMA StepNothing ==
    ASSUME Typed, UNCHANGED poolVars
    PROVE  Keeps
<1>1. Typed' BY DEF Typed, PoolTypeOK, poolVars
<1>2. VersionsOrdered => VersionsOrdered'
  BY DEF VersionsOrdered, CopiesBehind, HoldsOK, poolVars
<1>3. NoneRegresses BY PoolAssumption DEF NoneRegresses, Typed, PoolTypeOK, AccountRecord, poolVars
<1> QED BY <1>1, <1>2, <1>3 DEF Keeps

(* Both together.                                                          *)
LEMMA StepKeeps ==
    ASSUME Typed, [PoolNext]_poolVars
    PROVE  Keeps
BY StepPool, StepNothing

(* Only Choose uses up one of a request's attempts.                        *)
LEMMA OnlyChoosingTries ==
    ASSUME Typed, [PoolNext]_poolVars, NEW r \in PoolRequests, tries'[r] > tries[r]
    PROVE  Choose(r)
<1>1. tries[r] \in Nat /\ tries \in [PoolRequests -> 0..MaxTries]
  BY PoolAssumption DEF Typed, PoolTypeOK
<1>2. ~UNCHANGED tries BY <1>1
<1>3. ASSUME NEW p \in Actors, Proceeds(p) PROVE UNCHANGED tries
  <2>1. CASE Penalise(p) \/ DisableAccount(p) \/ Overage(p) \/ ReloadStep(p)
    BY <2>1 DEF Penalise, DisableAccount, Overage, ReloadStep
  <2>2. CASE RefreshReads(p) BY <2>2 DEF RefreshReads, Fails
  <2>3. CASE Exchange(p) BY <2>3 DEF Exchange, RefreshFails, Fails
  <2>4. CASE Persist(p) BY <2>4 DEF Persist, RefreshFails, Fails
  <2>5. CASE Publish(p) BY <2>5 DEF Publish
  <2>6. CASE ResolveProfileArn(p) BY <2>6 DEF ResolveProfileArn, Fails
  <2> QED BY <1>3, <2>1, <2>2, <2>3, <2>4, <2>5, <2>6 DEF Proceeds
<1>4. ASSUME NEW p \in Actors, ReaderStep(p) PROVE UNCHANGED tries
  <2>1. CASE InfoArrives(p) \/ StoreInfo(p) \/ InfoRefused(p)
    BY <2>1 DEF InfoArrives, StoreInfo, InfoRefused
  <2>2. CASE SetModelList(p) BY <2>2 DEF SetModelList, Fails
  <2> QED BY <1>3, <1>4, <2>1, <2>2 DEF ReaderStep
<1>5. ASSUME NEW q \in PoolRequests, BeginRequest(q) \/ RequestStep(q) PROVE Choose(r)
  <2>1. q \in Actors BY DEF Actors
  <2>2. CASE BeginRequest(q) BY <1>2, <2>2 DEF BeginRequest
  <2>3. CASE GiveUp(q) BY <1>2, <2>3 DEF GiveUp
  <2>4. CASE CallSucceeds(q) BY <1>2, <2>4 DEF CallSucceeds
  <2>5. CASE UpdateStats(q) BY <1>2, <2>5 DEF UpdateStats
  <2>6. CASE CallFails(q) BY <1>2, <2>6 DEF CallFails
  <2>7. CASE Proceeds(q) BY <1>2, <1>3, <2>1, <2>7
  <2>8. CASE Choose(q)
    <3>1. CASE q = r BY <2>8, <3>1
    <3>2. CASE q # r
      <4>1. tries' = [tries EXCEPT ![q] = @ + 1] BY <2>8 DEF Choose
      <4>2. tries'[r] = tries[r] BY <1>1, <3>2, <4>1
      <4> QED BY <1>1, <4>2
    <3> QED BY <3>1, <3>2
  <2> QED BY <1>5, <2>2, <2>3, <2>4, <2>5, <2>6, <2>7, <2>8 DEF RequestStep
<1>6. ~Operator
  <2>1. "operator" \in Actors BY DEF Actors
  <2>2. ~ReaderStep("operator") BY <1>2, <1>4, <2>1
  <2> QED BY <1>2, <2>2 DEF Operator, OperatorCopies, ApiUpdateAccount, ApiBatchAccounts,
                             ApiDeleteAccount, ApiAddAccount, ApiUpdateSettings
<1>7. ~(SweepStarts \/ SweepNext \/ ReaderStep("sweeper"))
  <2>1. "sweeper" \in Actors BY DEF Actors
  <2> QED BY <1>2, <1>4, <2>1 DEF SweepStarts, SweepNext
<1>8. ~Restart
  <2>1. Restart => tries'[r] = 0 BY DEF Restart
  <2> QED BY <1>1, <2>1
<1>9. \A a \in Accounts : ~TokenExpires(a) /\ ~CooldownEnds(a)
  BY <1>2 DEF TokenExpires, CooldownEnds
<1> QED BY <1>2, <1>5, <1>6, <1>7, <1>8, <1>9 DEF PoolNext, poolVars

(* A choice that cools down is a fallback, and the fallback prefers those  *)
(* that do not.                                                            *)
LEMMA ChoiceIsRested ==
    ASSUME Typed, NEW r \in PoolRequests, Choose(r), cooling[actor'[r].id] = "future",
           NEW a \in Candidates(r)
    PROVE  cooling[a] = "future"
<1> DEFINE C == Candidates(r)
           Free == {b \in C : cooling[b] = "none"}
           Past == {b \in C : cooling[b] = "past"}
<1>1. r \in Actors BY DEF Actors
<1>2. PICK b \in Choosable(r) : actor'[r].id = b
  <2>1. PICK b \in Choosable(r) :
           actor' = [actor EXCEPT ![r].id = b, ![r].snap = pool[b],
                        ![r].ret = "call", ![r].resume = "choose", ![r].force = FALSE,
                        ![r].at = IF Near(b, pool[b]) THEN "refresh" ELSE "call"]
    BY DEF Choose
  <2>2. actor'[r].id = b BY <1>1, <2>1 DEF Typed, ActorRecord
  <2> QED BY <2>2
<1>3. b \in Fallback(r) BY <1>2 DEF Choosable, Ready
<1>4. Free = {} /\ Past = {}
  <2>1. CASE Free # {}
    <3>1. b \in First(Free) BY <1>3, <2>1 DEF Fallback
    <3> QED BY <1>2, <3>1 DEF First
  <2>2. CASE Free = {} /\ Past # {}
    <3>1. b \in Past BY <1>3, <2>2 DEF Fallback
    <3> QED BY <1>2, <3>1
  <2> QED BY <2>1, <2>2
<1>5. a \in Accounts BY DEF Candidates
<1>6. cooling[a] \in {"none", "past", "future"} BY <1>5 DEF Typed, PoolTypeOK
<1> QED BY <1>4, <1>6

-----------------------------------------------------------------------------
(* The results.                                                            *)

(* The tables of the data plane keep their types and their limits, for any *)
(* number of accounts, requests, edits and mishaps (config.go, account.go).*)
THEOREM PoolTypes == PoolSpec => []PoolTypeOK
<1>1. PoolInit => Typed BY PoolStarts
<1>2. Typed /\ [PoolNext]_poolVars => Typed' BY StepKeeps DEF Keeps
<1>3. Typed => PoolTypeOK BY DEF Typed
<1> QED BY <1>1, <1>2, <1>3, PTL DEF PoolSpec

(* GetNextForModelExcluding: a request falls back on an account that cools *)
(* down only when every account it may still use does.                     *)
THEOREM RestedAreFirst == PoolSpec => RestedFirst
<1>1. PoolInit => Typed BY PoolStarts
<1>2. Typed /\ [PoolNext]_poolVars => Typed' BY StepKeeps DEF Keeps
<1>3. Typed /\ [PoolNext]_poolVars =>
        [\A r \in PoolRequests :
           tries'[r] > tries[r] /\ cooling[actor'[r].id] = "future" =>
             \A a \in Candidates(r) : cooling[a] = "future"]_poolVars
  BY OnlyChoosingTries, ChoiceIsRested
<1> QED BY <1>1, <1>2, <1>3, PTL DEF PoolSpec, RestedFirst

(* refreshAccountToken and config.Save: what the pool or anybody holds of  *)
(* a credential is on disk, but for an id that was given to a new account  *)
(* during a refresh of the old one.                                        *)
THEOREM CredentialsAreOnDisk == PoolSpec => []PublishedIsPersisted
<1>1. PoolInit => Typed /\ VersionsOrdered BY PoolStarts
<1>2. Typed /\ VersionsOrdered /\ [PoolNext]_poolVars => Typed' /\ VersionsOrdered'
  BY StepKeeps DEF Keeps
<1>3. Typed /\ VersionsOrdered => PublishedIsPersisted
  BY DEF Typed, ActorRecord, VersionsOrdered, CopiesBehind, HoldsOK, PublishedIsPersisted
<1> QED BY <1>1, <1>2, <1>3, PTL DEF PoolSpec

(* No edit with an old copy, no late refresh, no crash brings an earlier   *)
(* credential back into the configuration, with the same exception.        *)
THEOREM CredentialsAreKept == PoolSpec => CredentialsNeverRegress
<1>1. PoolInit => Typed /\ VersionsOrdered BY PoolStarts
<1>2. Typed /\ VersionsOrdered /\ [PoolNext]_poolVars => Typed' /\ VersionsOrdered'
  BY StepKeeps DEF Keeps
<1>3. Typed /\ VersionsOrdered /\ [PoolNext]_poolVars
        => [\A a \in Accounts \ reused : conf[a].version <= conf'[a].version]_poolVars
  BY StepKeeps DEF Keeps, NoneRegresses
<1> QED BY <1>1, <1>2, <1>3, PTL DEF PoolSpec, CredentialsNeverRegress

-----------------------------------------------------------------------------
(***************************************************************************)
(* Enrolment.  A login that was cancelled is in no table, and until its    *)
(* mark goes no call but a cancellation is about it, so that nothing is    *)
(* left that could add its account.                                        *)
(***************************************************************************)
(* Where a call of the administration interface may be.                    *)
Labels == {"idle", "enter", "discover", "exchange", "url", "result", "leave", "unlock",
           "begin", "profiles", "one", "many", "timeout", "pick", "chosen", "discard",
           "detach", "done"}

(* The shapes of calls, sessions and selections.                           *)
LoginCall == [at : Labels, of : Logins, then : {"done", "url", "result"}]
LoginSession == [stage : {"none", "portal", "provider"}, canceled : BOOLEAN, secret : BOOLEAN]
LoginChoice == [kept : BOOLEAN, canceled : BOOLEAN]

(* The session table keeps to its limit.                                   *)
SessionsShape ==
    /\ table \subseteq Logins /\ IsFiniteSet(table) /\ Cardinality(table) <= MaxSessions
    /\ session \in [Logins -> LoginSession]
    /\ holder \in [Logins -> Calls \cup {"free"}]

(* So do the selections.                                                   *)
SelectionsShape ==
    /\ selections \subseteq Logins /\ IsFiniteSet(selections)
    /\ Cardinality(selections) <= MaxSelections
    /\ selection \in [Logins -> LoginChoice]
    /\ chooser \in [Logins -> Calls \cup {"free"}]

(* One mark for each login, and as many as there may be.                   *)
MarksShape ==
    /\ tombstones \in Seq(Logins) /\ IsInjective(tombstones) /\ Len(tombstones) <= MaxTombstones

(* What the flow lock guards, and the history.                             *)
FlowShape ==
    /\ MarksShape
    /\ discovery \in [Logins -> Calls \cup {"none", "ended"}]
    /\ joined \subseteq Logins /\ evicted \subseteq Logins /\ stopped \subseteq Logins

(* The calls.                                                              *)
CallsShape == call \in [Calls -> LoginCall]

(* The shape of all of it, an invariant whatever happens.                  *)
EnrolInv == SessionsShape /\ SelectionsShape /\ FlowShape /\ CallsShape

-----------------------------------------------------------------------------
(* Sequences without repetitions.                                          *)

(* What is in a sequence.                                                  *)
LEMMA InSequence ==
    ASSUME NEW S, NEW q \in Seq(S), NEW x
    PROVE  /\ Contains(q, x) <=> \E i \in 1..Len(q) : q[i] = x
           /\ DOMAIN q = 1..Len(q) /\ Len(q) \in Nat
           /\ IsInjective(q) <=> \A i, j \in 1..Len(q) : q[i] = q[j] => i = j
BY LenProperties DEF Contains, IsInjective

(* Unmarked removes one login and nothing else.                            *)
LEMMA UnmarkedSequence ==
    ASSUME NEW S, NEW q \in Seq(S), IsInjective(q), NEW s
    PROVE  /\ Unmarked(q, s) \in Seq(S) /\ IsInjective(Unmarked(q, s))
           /\ Len(Unmarked(q, s)) <= Len(q)
           /\ \A t : Contains(Unmarked(q, s), t) <=> Contains(q, t) /\ t # s
<1>0. Len(q) \in Nat /\ DOMAIN q = 1..Len(q)
  BY LenProperties
<1>1. CASE ~Contains(q, s)
  BY <1>0, <1>1 DEF Unmarked
<1>2. CASE Contains(q, s)
  <2> DEFINE n == Len(q)
             k == CHOOSE i \in DOMAIN q : q[i] = s
             a == SubSeq(q, 1, k - 1)
             b == SubSeq(q, k + 1, n)
             u == Unmarked(q, s)
  <2>1. k \in 1..n /\ q[k] = s
    BY <1>0, <1>2, InSequence
  <2>2. u = a \o b
    BY <1>2 DEF Unmarked, RemoveAt
  <2> HIDE DEF k
  <2>3. a \in Seq(S) /\ Len(a) = k - 1 /\ \A i \in 1..k - 1 : a[i] = q[i]
    BY <1>0, <2>1, SubSeqProperties
  <2>4. b \in Seq(S) /\ Len(b) = n - k /\ \A i \in 1..n - k : b[i] = q[k + i]
    <3>1. k + 1 \in 1..n + 1 /\ n \in (k + 1) - 1..n
      BY <1>0, <2>1
    <3>2. /\ b \in Seq(S)
          /\ Len(b) = IF k + 1 <= n THEN n - (k + 1) + 1 ELSE 0
          /\ \A i \in 1..n - (k + 1) + 1 : b[i] = q[(k + 1) + i - 1]
      BY <3>1, SubSeqProperties
    <3> HIDE DEF b
    <3>3. Len(b) = n - k
      <4>1. Len(b) = IF k + 1 <= n THEN n - (k + 1) + 1 ELSE 0
        BY <3>2
      <4>2. k \in Nat /\ n \in Nat /\ k <= n
        BY <1>0, <2>1
      <4> HIDE DEF n
      <4> QED
        BY <4>1, <4>2
    <3>4. ASSUME NEW i \in 1..n - k
          PROVE  b[i] = q[k + i]
      <4>1. i \in 1..n - (k + 1) + 1 /\ (k + 1) + i - 1 = k + i
        BY <1>0, <2>1
      <4> QED
        BY <3>2, <4>1
    <3> QED
      BY <3>2, <3>3, <3>4
  <2> HIDE DEF a, b
  <2>5. /\ u \in Seq(S) /\ Len(u) = n - 1
        /\ \A i \in 1..n - 1 : u[i] = IF i < k THEN q[i] ELSE q[i + 1]
    <3>1. a \o b \in Seq(S) /\ Len(a \o b) = Len(a) + Len(b)
      BY <2>3, <2>4, ConcatProperties
    <3>2. ASSUME NEW i \in 1..n - 1
          PROVE  (a \o b)[i] = IF i < k THEN q[i] ELSE q[i + 1]
      <4>1. (a \o b)[i] = IF i <= Len(a) THEN a[i] ELSE b[i - Len(a)]
        BY <1>0, <2>1, <2>3, <2>4, ConcatProperties
      <4>2. CASE i < k
        BY <1>0, <2>1, <2>3, <4>1, <4>2
      <4>3. CASE ~(i < k)
        <5>1. i - (k - 1) \in 1..n - k /\ k + (i - (k - 1)) = i + 1
          BY <1>0, <2>1, <4>3
        <5>2. b[i - (k - 1)] = q[i + 1]
          BY <2>4, <5>1
        <5> QED
          BY <1>0, <2>1, <2>3, <4>1, <4>3, <5>2
      <4> QED
        BY <4>2, <4>3
    <3> QED
      BY <1>0, <2>1, <2>2, <2>3, <2>4, <3>1, <3>2
  <2> HIDE DEF u
  <2>6. \A i, j \in 1..n : q[i] = q[j] => i = j
    BY <1>0, InSequence
  <2>7. IsInjective(u)
    <3>1. ASSUME NEW i \in 1..n - 1, NEW j \in 1..n - 1, u[i] = u[j]
          PROVE  i = j
      <4>1. /\ u[i] = IF i < k THEN q[i] ELSE q[i + 1]
            /\ u[j] = IF j < k THEN q[j] ELSE q[j + 1]
        BY <2>5
      <4> DEFINE x == IF i < k THEN i ELSE i + 1
                 y == IF j < k THEN j ELSE j + 1
      <4>2. x \in 1..n /\ y \in 1..n /\ (x = y => i = j)
        BY <1>0, <2>1
      <4>3. q[x] = q[y]
        BY <3>1, <4>1
      <4> HIDE DEF x, y
      <4> QED
        BY <2>6, <4>2, <4>3
    <3> QED
      BY <1>0, <2>5, <3>1, InSequence
  <2>8. ASSUME NEW t
        PROVE  Contains(u, t) <=> Contains(q, t) /\ t # s
    <3>1. ASSUME NEW i \in 1..n - 1, u[i] = t
          PROVE  Contains(q, t) /\ t # s
      <4>1. CASE i < k
        BY <1>0, <2>1, <2>5, <2>6, <3>1, <4>1, InSequence
      <4>2. CASE ~(i < k)
        <5>1. i + 1 \in 1..n /\ i + 1 # k /\ q[i + 1] = t
          BY <1>0, <2>1, <2>5, <3>1, <4>2
        <5> QED
          BY <2>1, <2>6, <5>1, InSequence
      <4> QED
        BY <4>1, <4>2
    <3>2. ASSUME NEW i \in 1..n, q[i] = t, t # s
          PROVE  Contains(u, t)
      <4>1. CASE i < k
        <5>1. i \in 1..n - 1 /\ u[i] = t
          BY <1>0, <2>1, <2>5, <3>2, <4>1
        <5> QED
          BY <2>5, <5>1, InSequence
      <4>2. CASE ~(i < k)
        <5>1. i - 1 \in 1..n - 1 /\ ~(i - 1 < k) /\ (i - 1) + 1 = i
          BY <1>0, <2>1, <3>2, <4>2
        <5>2. u[i - 1] = t
          BY <2>5, <3>2, <5>1
        <5> QED
          BY <2>5, <5>1, <5>2, InSequence
      <4> QED
        BY <4>1, <4>2
    <3> QED
      BY <2>5, <3>1, <3>2, InSequence
  <2> QED
    BY <1>0, <2>5, <2>7, <2>8 DEF u
<1> QED
  BY <1>1, <1>2

(* The oldest mark goes, the others stay.                                  *)
LEMMA TailSequence ==
    ASSUME NEW S, NEW q \in Seq(S), IsInjective(q), q # <<>>
    PROVE  /\ Tail(q) \in Seq(S) /\ IsInjective(Tail(q)) /\ Len(Tail(q)) = Len(q) - 1
           /\ \A t : t # Head(q) /\ Contains(q, t) => Contains(Tail(q), t)
<1>1. /\ Tail(q) \in Seq(S) /\ Len(Tail(q)) = Len(q) - 1 /\ Head(q) = q[1]
      /\ \A i \in 1..Len(Tail(q)) : Tail(q)[i] = q[i + 1]
      /\ Len(q) \in Nat \ {0}
  BY HeadTailProperties, LenProperties, EmptySeq
<1>2. \A i, j \in 1..Len(q) : q[i] = q[j] => i = j
  BY InSequence
<1>3. \A i, j \in 1..Len(Tail(q)) : Tail(q)[i] = Tail(q)[j] => i = j
  <2> SUFFICES ASSUME NEW i \in 1..Len(Tail(q)), NEW j \in 1..Len(Tail(q)),
                      Tail(q)[i] = Tail(q)[j]
               PROVE  i = j
    OBVIOUS
  <2>1. q[i + 1] = q[j + 1] /\ i + 1 \in 1..Len(q) /\ j + 1 \in 1..Len(q)
    BY <1>1
  <2> QED
    BY <1>2, <2>1
<1>4. ASSUME NEW t, t # Head(q), NEW i \in 1..Len(q), q[i] = t
      PROVE  Contains(Tail(q), t)
  <2>1. i - 1 \in 1..Len(Tail(q)) /\ (i - 1) + 1 = i
    BY <1>1, <1>4
  <2>2. Tail(q)[i - 1] = t
    BY <1>1, <1>4, <2>1
  <2> QED
    BY <1>1, <2>1, <2>2, InSequence
<1>5. IsInjective(Tail(q))
  BY <1>1, <1>3, InSequence
<1>6. ASSUME NEW t, t # Head(q), Contains(q, t)
      PROVE  Contains(Tail(q), t)
  <2>1. \E i \in 1..Len(q) : q[i] = t
    BY <1>6, InSequence
  <2> QED
    BY <1>4, <1>6, <2>1
<1> QED
  BY <1>1, <1>5, <1>6

(* A mark that was not there is added to the others.                       *)
LEMMA AppendSequence ==
    ASSUME NEW S, NEW q \in Seq(S), IsInjective(q), NEW s \in S, ~Contains(q, s)
    PROVE  /\ Append(q, s) \in Seq(S) /\ IsInjective(Append(q, s))
           /\ Len(Append(q, s)) = Len(q) + 1
           /\ Contains(Append(q, s), s)
           /\ \A t : Contains(q, t) => Contains(Append(q, s), t)
<1> DEFINE w == Append(q, s)
<1>1. /\ w \in Seq(S) /\ Len(w) = Len(q) + 1 /\ w[Len(q) + 1] = s
      /\ \A i \in 1..Len(q) : w[i] = q[i]
      /\ Len(q) \in Nat
  BY AppendProperties, LenProperties
<1>2. /\ \A i, j \in 1..Len(q) : q[i] = q[j] => i = j
      /\ \A i \in 1..Len(q) : q[i] # s
  BY InSequence
<1> HIDE DEF w
<1>3. \A i, j \in 1..Len(w) : w[i] = w[j] => i = j
  <2> SUFFICES ASSUME NEW i \in 1..Len(w), NEW j \in 1..Len(w), w[i] = w[j]
               PROVE  i = j
    OBVIOUS
  <2>1. (i \in 1..Len(q) \/ i = Len(q) + 1) /\ (j \in 1..Len(q) \/ j = Len(q) + 1)
    BY <1>1
  <2> QED
    BY <1>1, <1>2, <2>1
<1>4. Contains(w, s)
  BY <1>1, InSequence
<1>5. ASSUME NEW t, NEW i \in 1..Len(q), q[i] = t
      PROVE  Contains(w, t)
  <2>1. i \in 1..Len(w) /\ w[i] = t
    BY <1>1, <1>5
  <2> QED
    BY <1>1, <2>1, InSequence
<1> QED
  BY <1>1, <1>3, <1>4, <1>5, InSequence DEF w

-----------------------------------------------------------------------------
(* What the steps are made of keeps the shape of the tables.               *)

(* A call that is over.                                                    *)
LEMMA RestingShape == Resting \in LoginCall
<1>1. (CHOOSE s \in Logins : TRUE) \in Logins
  BY EnrolmentAssumption
<1> QED
  BY <1>1 DEF Resting, LoginCall, Labels

(* A call goes to its next statement.                                      *)
LEMMA GoesShape ==
    ASSUME CallsShape, NEW c \in Calls, NEW label \in Labels, Goes(c, label)
    PROVE  CallsShape'
<1>1. [call[c] EXCEPT !.at = label] \in LoginCall
  BY DEF CallsShape, LoginCall
<1> QED
  BY <1>1, RestingShape DEF Goes, CallsShape

(* A call leaves its session.                                              *)
LEMMA LeavingShape ==
    ASSUME CallsShape, NEW c \in Calls, NEW then \in {"done", "url", "result"}, Leaving(c, then)
    PROVE  CallsShape'
<1>1. [[call[c] EXCEPT !.at = "leave"] EXCEPT !.then = then] \in LoginCall
  BY DEF CallsShape, LoginCall, Labels
<1>2. call' = [call EXCEPT ![c] = [[call[c] EXCEPT !.at = "leave"] EXCEPT !.then = then]]
  BY DEF Leaving, CallsShape
<1> QED
  BY <1>1, <1>2 DEF CallsShape

(* A call begins.                                                          *)
LEMMA BeginShape ==
    ASSUME CallsShape, NEW c \in Calls, NEW label \in Labels, NEW s \in Logins,
           call' = [call EXCEPT ![c].at = label, ![c].of = s]
    PROVE  CallsShape'
<1>1. [[call[c] EXCEPT !.at = label] EXCEPT !.of = s] \in LoginCall
  BY DEF CallsShape, LoginCall
<1>2. call' = [call EXCEPT ![c] = [[call[c] EXCEPT !.at = label] EXCEPT !.of = s]]
  BY DEF CallsShape
<1> QED
  BY <1>1, <1>2 DEF CallsShape

(* Fewer keep to the limit.                                                *)
LEMMA FewerRemain ==
    ASSUME NEW T, IsFiniteSet(T), NEW n \in Nat, Cardinality(T) <= n, NEW S
    PROVE  IsFiniteSet(T \ S) /\ Cardinality(T \ S) <= n
<1>1. T \ S \in SUBSET T
  OBVIOUS
<1>2. IsFiniteSet(T \ S) /\ Cardinality(T \ S) <= Cardinality(T)
  BY <1>1, FS_Subset
<1>3. Cardinality(T \ S) \in Nat /\ Cardinality(T) \in Nat
  BY <1>2, FS_CardinalityType
<1> QED
  BY <1>2, <1>3

(* Where the limit is not reached, there is room for one.                  *)
LEMMA OneMore ==
    ASSUME NEW T, IsFiniteSet(T), NEW n \in Nat, NEW s, ~(Cardinality(T) >= n)
    PROVE  IsFiniteSet(T \cup {s}) /\ Cardinality(T \cup {s}) <= n
<1>1. Cardinality(T) \in Nat
  BY FS_CardinalityType
<1>2. /\ IsFiniteSet(T \cup {s})
      /\ Cardinality(T \cup {s}) = IF s \in T THEN Cardinality(T) ELSE Cardinality(T) + 1
  BY FS_AddElement
<1> QED
  BY <1>1, <1>2

(* The limits are numbers.                                                 *)
LEMMA MaximaAreNatural == MaxSessions \in Nat /\ MaxSelections \in Nat /\ MaxTombstones \in Nat \ {0}
BY EnrolmentAssumption

(* A session that is cancelled or wiped is where it was.                   *)
LEMMA SessionMarked ==
    ASSUME NEW x \in LoginSession
    PROVE  /\ [x EXCEPT !.canceled = TRUE] \in LoginSession
           /\ Cleared(x) \in LoginSession /\ Cleared(x).stage = x.stage
           /\ Cleared([x EXCEPT !.canceled = TRUE]) \in LoginSession
           /\ [x EXCEPT !.canceled = TRUE].stage = x.stage
           /\ Cleared([x EXCEPT !.canceled = TRUE]).stage = x.stage
BY DEF LoginSession, Cleared

(* The sessions that are left, in the stage they were in.                  *)
LEMMA DiscardShape ==
    ASSUME SessionsShape, NEW S, Discard(S), holder' = holder
    PROVE  /\ SessionsShape' /\ table' = table \ S
           /\ \A s \in Logins : session'[s].stage = session[s].stage
<1>1. /\ table' \subseteq Logins /\ IsFiniteSet(table') /\ Cardinality(table') <= MaxSessions
      /\ table' = table \ S
  BY FewerRemain, MaximaAreNatural DEF Discard, SessionsShape
<1>2. \A s \in Logins : /\ session'[s] \in LoginSession
                        /\ session'[s].stage = session[s].stage
  BY SessionMarked DEF Discard, SessionsShape
<1>3. session' = [s \in Logins |-> session'[s]]
  BY DEF Discard
<1>4. session' \in [Logins -> LoginSession]
  BY <1>2, <1>3
<1> QED
  BY <1>1, <1>2, <1>4 DEF SessionsShape

(* A session retired from inside.                                          *)
LEMMA RetireShape ==
    ASSUME SessionsShape, NEW c \in Calls, Of(c) \in Logins, Retire(c),
           holder' \in [Logins -> Calls \cup {"free"}]
    PROVE  /\ SessionsShape' /\ table' \subseteq table
           /\ \A s \in Logins : session'[s].stage = session[s].stage
<1>1. /\ table' \subseteq table /\ IsFiniteSet(table') /\ Cardinality(table') <= MaxSessions
  BY FewerRemain, MaximaAreNatural DEF Retire, SessionsShape
<1>2. session' = [session EXCEPT ![Of(c)] = Cleared([session[Of(c)] EXCEPT !.canceled = TRUE])]
  BY DEF Retire
<1>3. session' \in [Logins -> LoginSession]
  BY <1>2, SessionMarked DEF SessionsShape
<1>4. \A s \in Logins : session'[s].stage = session[s].stage
  BY <1>2, SessionMarked DEF SessionsShape
<1> QED
  BY <1>1, <1>3, <1>4 DEF SessionsShape

(* Selections that are detached.                                           *)
LEMMA DetachShape ==
    ASSUME SelectionsShape, NEW S, Detach(S), chooser' = chooser
    PROVE  SelectionsShape'
<1>1. selections' \subseteq Logins /\ IsFiniteSet(selections') /\ Cardinality(selections') <= MaxSelections
  BY FewerRemain, MaximaAreNatural DEF Detach, SelectionsShape
<1>2. \A x \in LoginChoice : [x EXCEPT !.canceled = TRUE] \in LoginChoice
  BY DEF LoginChoice
<1>3. selection' \in [Logins -> LoginChoice]
  BY <1>2 DEF Detach, SelectionsShape
<1> QED
  BY <1>1, <1>3 DEF SelectionsShape

(* A selection that is stored, if there is room.                           *)
LEMMA StoreShape ==
    ASSUME SelectionsShape, NEW s \in Logins, StoreSelection(s), chooser' = chooser
    PROVE  SelectionsShape' /\ selections' \subseteq selections \cup {s}
<1> DEFINE expired == {t \in selections : "selection" \in overdue[t]}
           marked == [t \in Logins |-> IF t \in expired
                     THEN [kept |-> selection[t].kept, canceled |-> TRUE] ELSE selection[t]]
<1>1. marked \in [Logins -> LoginChoice]
  <2>1. \A t \in Logins : [kept |-> selection[t].kept, canceled |-> TRUE] \in LoginChoice
    BY DEF SelectionsShape, LoginChoice
  <2> HIDE DEF expired
  <2> QED
    BY <2>1 DEF SelectionsShape
<1>2. IsFiniteSet(selections \ expired) /\ Cardinality(selections \ expired) <= MaxSelections
  BY FewerRemain, MaximaAreNatural DEF SelectionsShape
<1>3. CASE Cardinality(selections \ expired) >= MaxSelections
  <2>1. selections' = selections \ expired /\ selection' = marked
    BY <1>3 DEF StoreSelection
  <2> HIDE DEF expired, marked
  <2> QED
    BY <1>1, <1>2, <2>1 DEF SelectionsShape
<1>4. CASE ~(Cardinality(selections \ expired) >= MaxSelections)
  <2>1. /\ selections' = (selections \ expired) \cup {s}
        /\ selection' = [marked EXCEPT ![s] = [kept |-> TRUE, canceled |-> FALSE]]
    BY <1>4 DEF StoreSelection
  <2> HIDE DEF expired, marked
  <2>2. IsFiniteSet(selections') /\ Cardinality(selections') <= MaxSelections
    BY <1>2, <1>4, <2>1, OneMore, MaximaAreNatural
  <2>3. [kept |-> TRUE, canceled |-> FALSE] \in LoginChoice
    BY DEF LoginChoice
  <2> QED
    BY <1>1, <2>1, <2>2, <2>3 DEF SelectionsShape
<1> QED
  BY <1>3, <1>4

(* An account that is added; its mark goes.                                *)
LEMMA JoinShape ==
    ASSUME MarksShape, joined \subseteq Logins, NEW s \in Logins, JoinAccount(s)
    PROVE  /\ MarksShape' /\ joined' = joined \cup {s} /\ joined' \subseteq Logins
           /\ \A t : Contains(tombstones', t) <=> Contains(tombstones, t) /\ t # s
<1>1. tombstones \in Seq(Logins) /\ IsInjective(tombstones) /\ Len(tombstones) <= MaxTombstones
  BY DEF MarksShape
<1>2. /\ Unmarked(tombstones, s) \in Seq(Logins) /\ IsInjective(Unmarked(tombstones, s))
      /\ Len(Unmarked(tombstones, s)) <= Len(tombstones)
      /\ \A t : Contains(Unmarked(tombstones, s), t) <=> Contains(tombstones, t) /\ t # s
  BY <1>1, UnmarkedSequence
<1>3. Len(Unmarked(tombstones, s)) \in Nat /\ Len(tombstones) \in Nat
  BY <1>1, <1>2, LenProperties
<1> QED
  BY <1>1, <1>2, <1>3, MaximaAreNatural DEF JoinAccount, MarksShape


-----------------------------------------------------------------------------
(* A call that goes on, or ends.                                           *)
GoesOn(c) ==
    /\ \A d \in Calls \ {c} : call'[d] = call[d]
    /\ \/ call'[c].at = "idle"
       \/ /\ call[c].at # "idle" /\ call'[c].of = call[c].of
          /\ call'[c].at \notin {"discard", "detach"}

(* No login is forgotten to have begun.                                    *)
StagesStay == \A s \in Logins : session[s].stage # "none" => session'[s].stage # "none"

(* What a step leaves to the cancelled.                                    *)
KeepsOut ==
    /\ table' \subseteq table /\ selections' \subseteq selections
    /\ StagesStay
    /\ stopped' = stopped /\ evicted' = evicted /\ joined' = joined
    /\ \A t : Contains(tombstones, t) => Contains(tombstones', t)

LEMMA GoesGoesOn ==
    ASSUME CallsShape, NEW c \in Calls, NEW label \in Labels, Goes(c, label),
           call[c].at # "idle" \/ label = "done", label \notin {"discard", "detach"}
    PROVE  GoesOn(c)
<1>1. CASE label = "done"
  BY <1>1 DEF Goes, GoesOn, CallsShape, Resting
<1>2. CASE label # "done"
  <2>1. call[c] \in LoginCall /\ call' = [call EXCEPT ![c] = [call[c] EXCEPT !.at = label]]
    BY <1>2 DEF Goes, CallsShape
  <2>2. call'[c] = [call[c] EXCEPT !.at = label] /\ \A d \in Calls \ {c} : call'[d] = call[d]
    BY <2>1 DEF CallsShape
  <2>3. call'[c].at = label /\ call'[c].of = call[c].of
    BY <2>1, <2>2 DEF LoginCall
  <2> QED
    BY <1>2, <2>2, <2>3 DEF GoesOn
<1> QED
  BY <1>1, <1>2

LEMMA LeavingGoesOn ==
    ASSUME CallsShape, NEW c \in Calls, NEW then, Leaving(c, then), call[c].at # "idle"
    PROVE  GoesOn(c)
<1>1. call[c] \in LoginCall
  BY DEF CallsShape
<1>2. /\ call'[c] = [[call[c] EXCEPT !.at = "leave"] EXCEPT !.then = then]
      /\ \A d \in Calls \ {c} : call'[d] = call[d]
  BY DEF Leaving, CallsShape
<1>3. call'[c].at = "leave" /\ call'[c].of = call[c].of
  BY <1>1, <1>2 DEF LoginCall
<1> QED
  BY <1>2, <1>3 DEF GoesOn

(* A call is about a login.                                                *)
LEMMA OfIsLogin == ASSUME CallsShape, NEW c \in Calls PROVE Of(c) \in Logins /\ call[c] \in LoginCall
BY DEF CallsShape, LoginCall, Of

(* Steps that leave a part alone.                                          *)
LEMMA SessionsUnchanged ==
    ASSUME SessionsShape, UNCHANGED sessionVars
    PROVE  SessionsShape' /\ table' = table /\ session' = session
BY DEF sessionVars, SessionsShape

LEMMA SelectionsUnchanged ==
    ASSUME SelectionsShape, UNCHANGED selectionVars
    PROVE  SelectionsShape' /\ selections' = selections
BY DEF selectionVars, SelectionsShape

LEMMA FlowUnchanged ==
    ASSUME FlowShape, UNCHANGED flowVars, UNCHANGED stopped
    PROVE  FlowShape' /\ joined' = joined /\ tombstones' = tombstones /\ evicted' = evicted
BY DEF flowVars, FlowShape, MarksShape

(* The steps of a call that concern its session alone.                     *)
LEMMA SessionStep ==
    ASSUME SelectionsShape, FlowShape, UNCHANGED <<selectionVars, flowVars, stopped>>,
           SessionsShape', CallsShape', table' \subseteq table,
           StagesStay
    PROVE  EnrolInv' /\ KeepsOut
BY SelectionsUnchanged, FlowUnchanged DEF EnrolInv, KeepsOut

LEMMA StepCompleteEnters ==
    ASSUME EnrolInv, NEW c \in Calls, CompleteEnters(c)
    PROVE  EnrolInv' /\ KeepsOut /\ GoesOn(c)
<1>0. /\ SessionsShape /\ SelectionsShape /\ FlowShape /\ CallsShape
      /\ call[c].at # "idle" /\ Of(c) \in Logins
      /\ UNCHANGED <<selectionVars, flowVars, stopped>>
  BY OfIsLogin DEF EnrolInv, CompleteEnters, At
<1>1. holder' \in [Logins -> Calls \cup {"free"}]
  BY <1>0 DEF CompleteEnters, SessionsShape
<1>2. \/ UNCHANGED <<table, session>> /\ (Leaving(c, "done") \/ Goes(c, "discover") \/ Goes(c, "exchange"))
      \/ Retire(c) /\ Leaving(c, "done")
  BY DEF CompleteEnters
<1>3. CallsShape' /\ GoesOn(c)
  BY <1>0, <1>2, GoesShape, LeavingShape, GoesGoesOn, LeavingGoesOn DEF Labels
<1>4. SessionsShape' /\ table' \subseteq table /\ StagesStay
  BY <1>0, <1>1, <1>2, RetireShape DEF SessionsShape, StagesStay
<1> QED
  BY <1>0, <1>3, <1>4, SessionStep

LEMMA StepDiscoverAnswers ==
    ASSUME EnrolInv, NEW c \in Calls, DiscoverAnswers(c)
    PROVE  EnrolInv' /\ KeepsOut /\ GoesOn(c)
<1>0. /\ SessionsShape /\ SelectionsShape /\ FlowShape /\ CallsShape
      /\ call[c].at # "idle" /\ Of(c) \in Logins
      /\ UNCHANGED <<holder, selectionVars, flowVars, stopped>>
  BY OfIsLogin DEF EnrolInv, DiscoverAnswers, At
<1>2. Leaving(c, "done") \/ Leaving(c, "url")
  BY DEF DiscoverAnswers
<1>3. CallsShape' /\ GoesOn(c)
  BY <1>0, <1>2, LeavingShape, LeavingGoesOn
<1>4. SessionsShape' /\ table' \subseteq table /\ StagesStay
  <2>1. CASE UNCHANGED <<table, session>>
    BY <1>0, <2>1 DEF SessionsShape, StagesStay
  <2>2. CASE Retire(c)
    BY <1>0, <2>2, RetireShape DEF SessionsShape, StagesStay
  <2>3. CASE session' = [session EXCEPT ![Of(c)].stage = "provider"] /\ UNCHANGED table
    <3>1. session' = [session EXCEPT ![Of(c)] = [session[Of(c)] EXCEPT !.stage = "provider"]]
      BY <2>3
    <3>2. \A x \in LoginSession : /\ [x EXCEPT !.stage = "provider"] \in LoginSession
                                  /\ [x EXCEPT !.stage = "provider"].stage # "none"
      BY DEF LoginSession
    <3> QED
      BY <1>0, <2>3, <3>1, <3>2 DEF SessionsShape, StagesStay
  <2> QED
    BY <2>1, <2>2, <2>3 DEF DiscoverAnswers
<1> QED
  BY <1>0, <1>3, <1>4, SessionStep

LEMMA StepExchangeAnswers ==
    ASSUME EnrolInv, NEW c \in Calls, ExchangeAnswers(c)
    PROVE  EnrolInv' /\ KeepsOut /\ GoesOn(c)
<1>0. /\ SessionsShape /\ SelectionsShape /\ FlowShape /\ CallsShape
      /\ call[c].at # "idle" /\ Of(c) \in Logins
      /\ UNCHANGED <<holder, selectionVars, flowVars, stopped>>
  BY OfIsLogin DEF EnrolInv, ExchangeAnswers, At
<1>1. Retire(c) /\ (Leaving(c, "done") \/ Leaving(c, "result"))
  BY DEF ExchangeAnswers
<1>2. CallsShape' /\ GoesOn(c)
  BY <1>0, <1>1, LeavingShape, LeavingGoesOn
<1>3. SessionsShape' /\ table' \subseteq table /\ StagesStay
  BY <1>0, <1>1, RetireShape DEF SessionsShape, StagesStay
<1> QED
  BY <1>0, <1>2, <1>3, SessionStep

LEMMA StepLeaveWipes ==
    ASSUME EnrolInv, NEW c \in Calls, LeaveWipes(c)
    PROVE  EnrolInv' /\ KeepsOut /\ GoesOn(c)
<1>0. /\ SessionsShape /\ SelectionsShape /\ FlowShape /\ CallsShape
      /\ call[c].at # "idle" /\ Of(c) \in Logins
      /\ UNCHANGED <<table, holder, selectionVars, flowVars, stopped>>
  BY OfIsLogin DEF EnrolInv, LeaveWipes, At
<1>1. CallsShape' /\ GoesOn(c)
  BY <1>0, GoesShape, GoesGoesOn DEF LeaveWipes, Labels
<1>2. SessionsShape' /\ StagesStay
  <2>1. session' = session \/ session' = [session EXCEPT ![Of(c)] = Cleared(session[Of(c)])]
    BY DEF LeaveWipes
  <2>2. /\ Cleared(session[Of(c)]) \in LoginSession
        /\ Cleared(session[Of(c)]).stage = session[Of(c)].stage
    BY <1>0, SessionMarked DEF SessionsShape
  <2>3. session' \in [Logins -> LoginSession]
    BY <1>0, <2>1, <2>2 DEF SessionsShape
  <2>4. StagesStay
    BY <1>0, <2>1, <2>2 DEF SessionsShape, StagesStay
  <2> QED
    BY <1>0, <2>3, <2>4 DEF SessionsShape
<1> QED
  BY <1>0, <1>1, <1>2, SessionStep

LEMMA StepLeaveUnlocks ==
    ASSUME EnrolInv, NEW c \in Calls, LeaveUnlocks(c)
    PROVE  EnrolInv' /\ KeepsOut /\ GoesOn(c)
<1>0. /\ SessionsShape /\ SelectionsShape /\ FlowShape /\ CallsShape
      /\ call[c].at # "idle" /\ Of(c) \in Logins /\ call[c].then \in {"done", "url", "result"}
      /\ UNCHANGED <<table, session, selectionVars, flowVars, stopped>>
  BY OfIsLogin DEF EnrolInv, LeaveUnlocks, At, LoginCall
<1>1. CallsShape' /\ GoesOn(c)
  BY <1>0, GoesShape, GoesGoesOn DEF LeaveUnlocks, Labels
<1>2. SessionsShape' /\ StagesStay
  BY <1>0 DEF LeaveUnlocks, SessionsShape, StagesStay
<1> QED
  BY <1>0, <1>1, <1>2, SessionStep

LEMMA StepCompleteChecks ==
    ASSUME EnrolInv, NEW c \in Calls, CompleteChecks(c)
    PROVE  EnrolInv' /\ KeepsOut /\ GoesOn(c)
<1>0. /\ SessionsShape /\ SelectionsShape /\ FlowShape /\ CallsShape
      /\ call[c].at # "idle" /\ Of(c) \in Logins
      /\ UNCHANGED <<holder, selectionVars, flowVars, stopped>>
  BY OfIsLogin DEF EnrolInv, CompleteChecks
<1>1. /\ Goes(c, "done") \/ Goes(c, "begin")
      /\ Discard({Of(c)}) \/ UNCHANGED <<table, session>>
  BY DEF CompleteChecks
<1>2. CallsShape' /\ GoesOn(c)
  BY <1>0, <1>1, GoesShape, GoesGoesOn DEF Labels
<1>3. SessionsShape' /\ table' \subseteq table /\ StagesStay
  BY <1>0, <1>1, DiscardShape DEF SessionsShape, StagesStay
<1> QED
  BY <1>0, <1>2, <1>3, SessionStep

(* Steps about the profiles.                                               *)
LEMMA DiscoveryStep ==
    ASSUME SessionsShape, SelectionsShape, FlowShape,
           UNCHANGED <<sessionVars, selectionVars, tombstones, joined, evicted, stopped>>,
           discovery' \in [Logins -> Calls \cup {"none", "ended"}], CallsShape'
    PROVE  EnrolInv' /\ KeepsOut
<1>1. FlowShape'
  BY DEF FlowShape, MarksShape
<1> QED
  BY <1>1, SessionsUnchanged, SelectionsUnchanged DEF EnrolInv, KeepsOut, StagesStay

LEMMA StepBeginDiscovery ==
    ASSUME EnrolInv, NEW c \in Calls, BeginDiscovery(c)
    PROVE  EnrolInv' /\ KeepsOut /\ GoesOn(c)
<1>0. /\ SessionsShape /\ SelectionsShape /\ FlowShape /\ CallsShape
      /\ call[c].at # "idle" /\ Of(c) \in Logins
      /\ UNCHANGED <<sessionVars, selectionVars, tombstones, joined, evicted, stopped>>
  BY OfIsLogin DEF EnrolInv, BeginDiscovery, At
<1>1. Goes(c, "done") \/ Goes(c, "profiles")
  BY DEF BeginDiscovery
<1>2. CallsShape' /\ GoesOn(c)
  BY <1>0, <1>1, GoesShape, GoesGoesOn DEF Labels
<1>3. discovery' \in [Logins -> Calls \cup {"none", "ended"}]
  BY <1>0 DEF BeginDiscovery, FlowShape
<1> QED
  BY <1>0, <1>2, <1>3, DiscoveryStep

LEMMA StepEndDiscovery ==
    ASSUME EnrolInv, NEW c \in Calls, EndDiscovery(c)
    PROVE  EnrolInv' /\ KeepsOut /\ GoesOn(c)
<1>0. /\ SessionsShape /\ SelectionsShape /\ FlowShape /\ CallsShape
      /\ call[c].at # "idle" /\ Of(c) \in Logins
      /\ UNCHANGED <<sessionVars, selectionVars, tombstones, joined, evicted, stopped>>
  BY OfIsLogin DEF EnrolInv, EndDiscovery, At
<1>1. \E found \in {"one", "many", "timeout"} : Goes(c, found)
  BY DEF EndDiscovery
<1>2. CallsShape' /\ GoesOn(c)
  BY <1>0, <1>1, GoesShape, GoesGoesOn DEF Labels
<1>3. discovery' \in [Logins -> Calls \cup {"none", "ended"}]
  BY <1>0 DEF EndDiscovery, FlowShape
<1> QED
  BY <1>0, <1>2, <1>3, DiscoveryStep

(* Steps about the selections.                                             *)
LEMMA SelectionStep ==
    ASSUME SessionsShape, FlowShape, UNCHANGED <<sessionVars, flowVars, stopped>>,
           SelectionsShape', selections' \subseteq selections, CallsShape'
    PROVE  EnrolInv' /\ KeepsOut
BY SessionsUnchanged, FlowUnchanged DEF EnrolInv, KeepsOut, StagesStay

LEMMA StepSelectLocks ==
    ASSUME EnrolInv, NEW c \in Calls, SelectLocks(c)
    PROVE  EnrolInv' /\ KeepsOut /\ GoesOn(c)
<1>0. /\ SessionsShape /\ SelectionsShape /\ FlowShape /\ CallsShape
      /\ call[c].at # "idle" /\ Of(c) \in Logins
      /\ UNCHANGED <<sessionVars, flowVars, stopped>>
  BY OfIsLogin DEF EnrolInv, SelectLocks, At
<1>1. /\ Goes(c, "done") \/ Goes(c, "chosen")
      /\ \/ Detach({Of(c)}) /\ UNCHANGED chooser
         \/ /\ chooser' = [chooser EXCEPT ![Of(c)] = c] \/ UNCHANGED chooser
            /\ UNCHANGED <<selections, selection>>
  BY DEF SelectLocks
<1>2. CallsShape' /\ GoesOn(c)
  BY <1>0, <1>1, GoesShape, GoesGoesOn DEF Labels
<1>3. SelectionsShape' /\ selections' \subseteq selections
  <2>1. CASE Detach({Of(c)}) /\ UNCHANGED chooser
    BY <1>0, <2>1, DetachShape DEF Detach
  <2>2. CASE /\ chooser' = [chooser EXCEPT ![Of(c)] = c] \/ UNCHANGED chooser
             /\ UNCHANGED <<selections, selection>>
    BY <1>0, <2>2 DEF SelectionsShape
  <2> QED
    BY <1>1, <2>1, <2>2
<1> QED
  BY <1>0, <1>2, <1>3, SelectionStep

(* The timers, which belong to no call.                                    *)
LEMMA StepTimers ==
    ASSUME EnrolInv, NEW s \in Logins,
           SessionTimer(s) \/ SelectionTimer(s) \/ WipeSelection(s) \/ TimeRunsOut(s)
    PROVE  EnrolInv' /\ KeepsOut /\ call' = call
<1>0. SessionsShape /\ SelectionsShape /\ FlowShape /\ CallsShape
  BY DEF EnrolInv
<1>1. CASE SessionTimer(s)
  <2>1. /\ Discard({s})
        /\ UNCHANGED <<holder, selectionVars, flowVars, stopped, call>>
    BY <1>1 DEF SessionTimer
  <2>2. SessionsShape' /\ table' \subseteq table /\ StagesStay
    BY <1>0, <2>1, DiscardShape DEF StagesStay
  <2> QED
    BY <1>0, <2>1, <2>2, SessionStep DEF CallsShape
<1>2. CASE SelectionTimer(s)
  <2>1. /\ Detach({s}) /\ UNCHANGED <<sessionVars, chooser, flowVars, stopped, call>>
    BY <1>2 DEF SelectionTimer
  <2>2. SelectionsShape' /\ selections' \subseteq selections
    BY <1>0, <2>1, DetachShape DEF Detach
  <2> QED
    BY <1>0, <2>1, <2>2, SelectionStep DEF CallsShape
<1>3. CASE WipeSelection(s)
  <2>1. UNCHANGED <<sessionVars, selections, chooser, flowVars, stopped, call>>
    BY <1>3 DEF WipeSelection
  <2>2. selection' = [selection EXCEPT ![s] = [selection[s] EXCEPT !.kept = FALSE]]
    BY <1>3 DEF WipeSelection
  <2>3. \A x \in LoginChoice : [x EXCEPT !.kept = FALSE] \in LoginChoice
    BY DEF LoginChoice
  <2>4. SelectionsShape' /\ selections' \subseteq selections
    BY <1>0, <2>1, <2>2, <2>3 DEF SelectionsShape
  <2> QED
    BY <1>0, <2>1, <2>4, SelectionStep DEF CallsShape
<1>4. CASE TimeRunsOut(s)
  <2>1. UNCHANGED <<sessionVars, selectionVars, flowVars, stopped, call>>
    BY <1>4 DEF TimeRunsOut
  <2>2. SessionsShape' /\ table' \subseteq table /\ StagesStay
    BY <1>0, <2>1, SessionsUnchanged DEF StagesStay
  <2> QED
    BY <1>0, <2>1, <2>2, SessionStep DEF CallsShape
<1> QED
  BY <1>1, <1>2, <1>3, <1>4

-----------------------------------------------------------------------------
(* A login that was cancelled, and whose mark was not evicted, is in no    *)
(* table, and until its mark goes no call but a cancellation is about it.  *)
Withdrawn(s) == s \notin table /\ s \notin selections /\ session[s].stage # "none"

(* What the marks and the cancellations under way have reached.            *)
NoneLeft ==
    /\ \A c \in Calls : call[c].at \in {"discard", "detach"} =>
          (Contains(tombstones, call[c].of) \/ call[c].of \in evicted)
          /\ session[call[c].of].stage # "none"
    /\ \A c \in Calls : call[c].at = "detach" => call[c].of \notin table
    /\ \A s \in stopped \ evicted :
          /\ Withdrawn(s)
          /\ Contains(tombstones, s) \/ \A c \in Calls : call[c].at = "idle" \/ call[c].of # s

(* A step that only goes on with a call leaves the cancelled alone.        *)
LEMMA NoneLeftStays ==
    ASSUME EnrolInv, NoneLeft, KeepsOut, call' = call \/ \E c \in Calls : GoesOn(c)
    PROVE  NoneLeft'
<1>1. ASSUME NEW c \in Calls, call'[c].at # "idle"
      PROVE  /\ call[c].at # "idle" /\ call'[c].of = call[c].of /\ call[c].of \in Logins
             /\ call'[c].at \in {"discard", "detach"} => call'[c] = call[c]
  <2>1. call[c].of \in Logins
    BY DEF EnrolInv, CallsShape, LoginCall
  <2>2. CASE call' = call
    BY <1>1, <2>1, <2>2
  <2>3. ASSUME NEW d \in Calls, GoesOn(d)
        PROVE  /\ call[c].at # "idle" /\ call'[c].of = call[c].of
               /\ call'[c].at \in {"discard", "detach"} => call'[c] = call[c]
    BY <1>1, <2>3 DEF GoesOn
  <2> QED
    BY <2>1, <2>2, <2>3
<1>2. ASSUME NEW c \in Calls, call'[c].at \in {"discard", "detach"}
      PROVE  /\ (Contains(tombstones', call'[c].of) \/ call'[c].of \in evicted')
             /\ session'[call'[c].of].stage # "none"
             /\ call'[c].at = "detach" => call'[c].of \notin table'
  <2>1. call'[c] = call[c] /\ call[c].of \in Logins
    BY <1>1, <1>2
  <2> QED
    BY <1>2, <2>1 DEF NoneLeft, KeepsOut, StagesStay
<1>3. ASSUME NEW s \in stopped \ evicted'
      PROVE  /\ s \notin table' /\ s \notin selections' /\ session'[s].stage # "none"
             /\ Contains(tombstones', s) \/ \A c \in Calls : call'[c].at = "idle" \/ call'[c].of # s
  <2>1. s \in Logins /\ Withdrawn(s) /\ s \in stopped \ evicted
    BY DEF EnrolInv, FlowShape, NoneLeft, KeepsOut
  <2>2. s \notin table' /\ s \notin selections' /\ session'[s].stage # "none"
    BY <2>1 DEF KeepsOut, StagesStay, Withdrawn
  <2>3. CASE Contains(tombstones, s)
    BY <2>2, <2>3 DEF KeepsOut
  <2>4. CASE \A c \in Calls : call[c].at = "idle" \/ call[c].of # s
    BY <1>1, <2>2, <2>4
  <2> QED
    BY <2>1, <2>3, <2>4 DEF NoneLeft
<1> QED
  BY <1>2, <1>3 DEF NoneLeft, Withdrawn, KeepsOut

(* Nobody adds what was cancelled.                                         *)
AddsNothing == \A s \in Logins : s \in joined' \ joined => s \notin stopped \ evicted

LEMMA StepQuiet ==
    ASSUME EnrolInv, NEW c \in Calls,
           \/ CompleteEnters(c) \/ DiscoverAnswers(c) \/ ExchangeAnswers(c)
           \/ LeaveWipes(c) \/ LeaveUnlocks(c) \/ CompleteChecks(c)
           \/ BeginDiscovery(c) \/ EndDiscovery(c) \/ SelectLocks(c)
    PROVE  EnrolInv' /\ (NoneLeft => NoneLeft') /\ AddsNothing
<1>1. EnrolInv' /\ KeepsOut /\ GoesOn(c)
  BY StepCompleteEnters, StepDiscoverAnswers, StepExchangeAnswers, StepLeaveWipes,
     StepLeaveUnlocks, StepCompleteChecks, StepBeginDiscovery, StepEndDiscovery, StepSelectLocks
<1> QED
  BY <1>1, NoneLeftStays DEF KeepsOut, AddsNothing

(* A call of a login that is still among the sessions or the selections.   *)
LEMMA BeginsWanted ==
    ASSUME NoneLeft, NEW c \in Calls, NEW s \in Logins, s \notin stopped \ evicted,
           \A d \in Calls \ {c} : call'[d] = call[d],
           call'[c].of = s, call'[c].at \notin {"discard", "detach"},
           UNCHANGED <<table, session, selections, tombstones, evicted, stopped>>
    PROVE  NoneLeft'
<1>1. \A d \in Calls : call'[d].at \in {"discard", "detach"} => d # c
  OBVIOUS
<1>2. ASSUME NEW d \in Calls, call'[d].at \in {"discard", "detach"}
      PROVE  /\ (Contains(tombstones', call'[d].of) \/ call'[d].of \in evicted')
             /\ session'[call'[d].of].stage # "none"
             /\ call'[d].at = "detach" => call'[d].of \notin table'
  <2>1. call'[d] = call[d]
    BY <1>1, <1>2
  <2>2. (Contains(tombstones, call[d].of) \/ call[d].of \in evicted)
       /\ session[call[d].of].stage # "none"
    BY <1>2, <2>1 DEF NoneLeft
  <2>3. call[d].at = "detach" => call[d].of \notin table
    BY DEF NoneLeft
  <2>4. tombstones' = tombstones /\ session' = session /\ table' = table
    OBVIOUS
  <2> QED
    BY <2>1, <2>2, <2>3, <2>4
<1>3. ASSUME NEW t \in stopped \ evicted'
      PROVE  /\ t \notin table' /\ t \notin selections' /\ session'[t].stage # "none"
             /\ Contains(tombstones', t) \/ \A d \in Calls : call'[d].at = "idle" \/ call'[d].of # t
  <2>1. Withdrawn(t) /\ (Contains(tombstones, t) \/ \A d \in Calls : call[d].at = "idle" \/ call[d].of # t)
    BY DEF NoneLeft
  <2>2. t # s
    OBVIOUS
  <2> QED
    BY <2>1, <2>2 DEF Withdrawn
<1> QED
  BY <1>2, <1>3 DEF NoneLeft, Withdrawn

LEMMA StepStart ==
    ASSUME EnrolInv, NEW c \in Calls, StartMicrosoftSSOLogin(c)
    PROVE  EnrolInv' /\ (NoneLeft => NoneLeft') /\ AddsNothing
<1> DEFINE expired == {s \in table : "session" \in overdue[s]}
<1>0. /\ SessionsShape /\ SelectionsShape /\ FlowShape /\ CallsShape
      /\ UNCHANGED <<holder, selectionVars, flowVars, stopped>>
      /\ Goes(c, "done")
  BY DEF EnrolInv, StartMicrosoftSSOLogin
<1>1. CallsShape' /\ GoesOn(c)
  BY <1>0, GoesShape, GoesGoesOn DEF Labels
<1>2. PICK s \in Logins :
          /\ session[s].stage = "none"
          /\ IF Cardinality(table \ expired) >= MaxSessions
             THEN Discard(expired)
             ELSE /\ table' = (table \ expired) \cup {s}
                  /\ session' = [[t \in Logins |->
                       IF t \in expired /\ holder[t] = "free"
                       THEN Cleared([session[t] EXCEPT !.canceled = TRUE])
                       ELSE IF t \in expired THEN [session[t] EXCEPT !.canceled = TRUE]
                       ELSE session[t]]
                       EXCEPT ![s] = [stage |-> "portal", canceled |-> FALSE, secret |-> TRUE]]
  BY DEF StartMicrosoftSSOLogin
<1>3. SessionsShape' /\ table' \subseteq table \cup {s} /\ StagesStay
  <2>1. CASE Cardinality(table \ expired) >= MaxSessions
    <3>1. Discard(expired)
      BY <1>2, <2>1
    <3> HIDE DEF expired
    <3> QED
      BY <1>0, <3>1, DiscardShape DEF StagesStay
  <2>2. CASE ~(Cardinality(table \ expired) >= MaxSessions)
    <3> DEFINE left == [t \in Logins |->
                  IF t \in expired /\ holder[t] = "free"
                  THEN Cleared([session[t] EXCEPT !.canceled = TRUE])
                  ELSE IF t \in expired THEN [session[t] EXCEPT !.canceled = TRUE]
                  ELSE session[t]]
    <3>1. /\ table' = (table \ expired) \cup {s}
          /\ session' = [left EXCEPT ![s] = [stage |-> "portal", canceled |-> FALSE, secret |-> TRUE]]
      BY <1>2, <2>2
    <3>2. IsFiniteSet(table \ expired)
      BY <1>0, FewerRemain, MaximaAreNatural DEF SessionsShape
    <3>3. IsFiniteSet(table') /\ Cardinality(table') <= MaxSessions /\ table' \subseteq Logins
      <4> HIDE DEF expired
      <4> QED
        BY <1>0, <2>2, <3>1, <3>2, OneMore, MaximaAreNatural DEF SessionsShape
    <3>4. \A t \in Logins : left[t] \in LoginSession /\ left[t].stage = session[t].stage
      <4> HIDE DEF expired
      <4> QED
        BY <1>0, SessionMarked DEF SessionsShape
    <3>5. left \in [Logins -> LoginSession]
      BY <3>4
    <3>6. [stage |-> "portal", canceled |-> FALSE, secret |-> TRUE] \in LoginSession
      BY DEF LoginSession
    <3> HIDE DEF left
    <3>7. session' \in [Logins -> LoginSession]
      BY <3>1, <3>5, <3>6
    <3>8. StagesStay
      BY <3>1, <3>4, <3>5 DEF StagesStay
    <3> QED
      BY <1>0, <3>1, <3>3, <3>7, <3>8 DEF SessionsShape
  <2> QED
    BY <2>1, <2>2
<1> HIDE DEF expired
<1>4. /\ EnrolInv' /\ selections' = selections /\ joined' = joined
      /\ tombstones' = tombstones /\ evicted' = evicted
  BY <1>0, <1>1, <1>3, SelectionsUnchanged, FlowUnchanged DEF EnrolInv
<1>5. ASSUME NoneLeft PROVE NoneLeft'
  <2>1. s \notin stopped \ evicted /\ \A d \in Calls : call[d].at = "detach" => call[d].of # s
    BY <1>2, <1>5 DEF NoneLeft, Withdrawn
  <2>2. \A d \in Calls : call[d].at = "detach" => call[d].of \notin table'
    BY <1>3, <1>5, <2>1 DEF NoneLeft
  <2>3. call'[c].at = "idle"
    BY <1>0 DEF Goes, Resting, CallsShape
  <2>4. /\ \A d \in Calls : call'[d].at # "idle" => call'[d] = call[d]
        /\ stopped \subseteq Logins /\ \A d \in Calls : call[d].of \in Logins
    BY <1>0, <1>1, <2>3 DEF GoesOn, FlowShape, CallsShape, LoginCall
  <2>5. ASSUME NEW d \in Calls, call'[d].at \in {"discard", "detach"}
        PROVE  /\ (Contains(tombstones', call'[d].of) \/ call'[d].of \in evicted')
               /\ session'[call'[d].of].stage # "none"
               /\ call'[d].at = "detach" => call'[d].of \notin table'
    BY <1>3, <1>4, <1>5, <2>2, <2>4, <2>5 DEF NoneLeft, StagesStay
  <2>6. ASSUME NEW t \in stopped \ evicted'
        PROVE  /\ t \notin table' /\ t \notin selections' /\ session'[t].stage # "none"
               /\ Contains(tombstones', t) \/ \A d \in Calls : call'[d].at = "idle" \/ call'[d].of # t
    <3>1. Withdrawn(t) /\ (Contains(tombstones, t) \/ \A d \in Calls : call[d].at = "idle" \/ call[d].of # t)
      BY <1>4, <1>5 DEF NoneLeft
    <3>2. t \notin table' /\ t \notin selections' /\ session'[t].stage # "none"
      BY <1>3, <1>4, <2>1, <2>4, <2>6, <3>1 DEF Withdrawn, StagesStay
    <3> QED
      BY <1>4, <2>4, <3>1, <3>2
  <2>7. stopped' = stopped /\ evicted' = evicted
    BY <1>0, <1>4
  <2> QED
    BY <2>5, <2>6, <2>7 DEF NoneLeft, Withdrawn
<1> QED
  BY <1>4, <1>5 DEF AddsNothing

LEMMA StepCompleteFinds ==
    ASSUME EnrolInv, NEW c \in Calls, CompleteFinds(c)
    PROVE  EnrolInv' /\ (NoneLeft => NoneLeft') /\ AddsNothing
<1>0. /\ SessionsShape /\ SelectionsShape /\ FlowShape /\ CallsShape
      /\ UNCHANGED <<holder, selectionVars, flowVars, stopped>>
  BY DEF EnrolInv, CompleteFinds
<1>1. PICK s \in Logins :
          \/ /\ s \in table /\ call' = [call EXCEPT ![c].at = "enter", ![c].of = s]
             /\ UNCHANGED <<table, session>>
          \/ Discard({s} \cap table) /\ Goes(c, "done")
  BY DEF CompleteFinds
<1>2. CASE /\ s \in table /\ call' = [call EXCEPT ![c].at = "enter", ![c].of = s]
           /\ UNCHANGED <<table, session>>
  <2>1. EnrolInv' /\ KeepsOut
    <3>1. CallsShape'
      BY <1>0, <1>2, BeginShape DEF Labels
    <3>2. SessionsShape' /\ table' \subseteq table /\ StagesStay
      BY <1>0, <1>2 DEF SessionsShape, StagesStay
    <3> QED
      BY <1>0, <3>1, <3>2, SessionStep
  <2>2. NoneLeft => NoneLeft'
    <3>1. NoneLeft => s \notin stopped \ evicted
      BY <1>2 DEF NoneLeft, Withdrawn
    <3>2. UNCHANGED <<table, session, selections, tombstones, evicted, stopped>>
      BY <1>0, <1>2 DEF selectionVars, flowVars
    <3>3. /\ \A d \in Calls \ {c} : call'[d] = call[d]
          /\ call'[c].of = s /\ call'[c].at \notin {"discard", "detach"}
      BY <1>0, <1>2 DEF CallsShape, LoginCall
    <3> QED
      BY <3>1, <3>2, <3>3, BeginsWanted
  <2> QED
    BY <2>1, <2>2 DEF KeepsOut, AddsNothing
<1>3. CASE Discard({s} \cap table) /\ Goes(c, "done")
  <2>1. CallsShape' /\ GoesOn(c)
    BY <1>0, <1>3, GoesShape, GoesGoesOn DEF Labels
  <2>2. SessionsShape' /\ table' \subseteq table /\ StagesStay
    BY <1>0, <1>3, DiscardShape DEF StagesStay
  <2>3. EnrolInv' /\ KeepsOut
    BY <1>0, <2>1, <2>2, SessionStep
  <2> QED
    BY <2>1, <2>3, NoneLeftStays DEF KeepsOut, AddsNothing
<1> QED
  BY <1>1, <1>2, <1>3

LEMMA StepSelectFinds ==
    ASSUME EnrolInv, NEW c \in Calls, SelectFinds(c)
    PROVE  EnrolInv' /\ (NoneLeft => NoneLeft') /\ AddsNothing
<1>0. /\ SessionsShape /\ SelectionsShape /\ FlowShape /\ CallsShape
      /\ UNCHANGED <<sessionVars, chooser, flowVars, stopped>>
  BY DEF EnrolInv, SelectFinds
<1>1. PICK s \in selections :
          \/ Detach({s}) /\ Goes(c, "done")
          \/ /\ call' = [call EXCEPT ![c].at = "pick", ![c].of = s]
             /\ UNCHANGED <<selections, selection>>
  BY DEF SelectFinds
<1>2. CASE /\ call' = [call EXCEPT ![c].at = "pick", ![c].of = s]
           /\ UNCHANGED <<selections, selection>>
  <2>0. s \in Logins
    BY <1>0 DEF SelectionsShape
  <2>1. EnrolInv' /\ KeepsOut
    <3>1. CallsShape'
      BY <1>0, <1>2, <2>0, BeginShape DEF Labels
    <3>2. SelectionsShape' /\ selections' \subseteq selections
      BY <1>0, <1>2 DEF SelectionsShape
    <3> QED
      BY <1>0, <3>1, <3>2, SelectionStep
  <2>2. NoneLeft => NoneLeft'
    <3>1. NoneLeft => s \notin stopped \ evicted
      BY <1>2 DEF NoneLeft, Withdrawn
    <3>2. UNCHANGED <<table, session, selections, tombstones, evicted, stopped>>
      BY <1>0, <1>2 DEF sessionVars, flowVars
    <3>3. /\ \A d \in Calls \ {c} : call'[d] = call[d]
          /\ call'[c].of = s /\ call'[c].at \notin {"discard", "detach"}
      BY <1>0, <1>2 DEF CallsShape, LoginCall
    <3> QED
      BY <2>0, <3>1, <3>2, <3>3, BeginsWanted
  <2> QED
    BY <2>1, <2>2 DEF KeepsOut, AddsNothing
<1>3. CASE Detach({s}) /\ Goes(c, "done")
  <2>1. CallsShape' /\ GoesOn(c)
    BY <1>0, <1>3, GoesShape, GoesGoesOn DEF Labels
  <2>2. SelectionsShape' /\ selections' \subseteq selections
    BY <1>0, <1>3, DetachShape DEF Detach
  <2>3. EnrolInv' /\ KeepsOut
    BY <1>0, <2>1, <2>2, SelectionStep
  <2> QED
    BY <2>1, <2>3, NoneLeftStays DEF KeepsOut, AddsNothing
<1> QED
  BY <1>1, <1>2, <1>3

(* A call that is not stopped may store its selection and add its account. *)
LEMMA FinishesWanted ==
    ASSUME EnrolInv, NoneLeft, NEW c \in Calls, call[c].at # "idle", GoesOn(c),
           ~Contains(tombstones, Of(c)), UNCHANGED <<sessionVars, evicted, stopped>>,
           selections' \subseteq selections \cup {Of(c)},
           \A t : t # Of(c) /\ Contains(tombstones, t) => Contains(tombstones', t)
    PROVE  NoneLeft' /\ Of(c) \notin stopped \ evicted
<1>1. Of(c) \notin stopped \ evicted
  BY DEF NoneLeft, Of
<1>2. ASSUME NEW d \in Calls, call'[d].at # "idle"
      PROVE  /\ call[d].at # "idle" /\ call'[d].of = call[d].of
             /\ call'[d].at \in {"discard", "detach"} =>
                   call'[d] = call[d] /\ (call[d].of # Of(c) \/ Of(c) \in evicted)
  BY <1>2 DEF GoesOn, NoneLeft
<1>3. ASSUME NEW d \in Calls, call'[d].at \in {"discard", "detach"}
      PROVE  /\ (Contains(tombstones', call'[d].of) \/ call'[d].of \in evicted')
             /\ session'[call'[d].of].stage # "none"
             /\ call'[d].at = "detach" => call'[d].of \notin table'
  BY <1>2, <1>3 DEF NoneLeft, sessionVars
<1>4. ASSUME NEW t \in stopped \ evicted'
      PROVE  /\ t \notin table' /\ t \notin selections' /\ session'[t].stage # "none"
             /\ Contains(tombstones', t) \/ \A d \in Calls : call'[d].at = "idle" \/ call'[d].of # t
  <2>1. t # Of(c) /\ Withdrawn(t)
    BY <1>1 DEF NoneLeft
  <2>2. t \notin table' /\ t \notin selections' /\ session'[t].stage # "none"
    BY <2>1 DEF Withdrawn, sessionVars
  <2>3. Contains(tombstones, t) \/ \A d \in Calls : call[d].at = "idle" \/ call[d].of # t
    BY DEF NoneLeft
  <2> QED
    BY <1>2, <2>1, <2>2, <2>3
<1> QED
  BY <1>1, <1>3, <1>4 DEF NoneLeft, Withdrawn

LEMMA StepCompleteFinishes ==
    ASSUME EnrolInv, NEW c \in Calls, CompleteFinishes(c)
    PROVE  EnrolInv' /\ (NoneLeft => NoneLeft' /\ AddsNothing)
<1>0. /\ SessionsShape /\ SelectionsShape /\ FlowShape /\ CallsShape
      /\ call[c].at # "idle" /\ Of(c) \in Logins
      /\ UNCHANGED <<sessionVars, chooser, discovery, evicted, stopped>>
      /\ Goes(c, "done")
  BY OfIsLogin DEF EnrolInv, CompleteFinishes
<1>1. CallsShape' /\ GoesOn(c) /\ SessionsShape'
  BY <1>0, GoesShape, GoesGoesOn, SessionsUnchanged DEF Labels
<1>2. \/ UNCHANGED <<selections, selection, tombstones, joined>>
      \/ /\ ~Contains(tombstones, Of(c))
         /\ StoreSelection(Of(c)) /\ UNCHANGED <<tombstones, joined>>
      \/ /\ ~Contains(tombstones, Of(c))
         /\ JoinAccount(Of(c)) /\ UNCHANGED <<selections, selection>>
  BY DEF CompleteFinishes, Canceled, Stopped
<1>3. CASE UNCHANGED <<selections, selection, tombstones, joined>>
  <2>1. UNCHANGED <<selectionVars, flowVars>>
    BY <1>0, <1>3 DEF selectionVars, flowVars
  <2>2. SessionsShape' /\ table' \subseteq table /\ StagesStay
    BY <1>0, <1>1, SessionsUnchanged DEF StagesStay
  <2>3. EnrolInv' /\ KeepsOut
    BY <1>0, <1>1, <2>1, <2>2, SessionStep
  <2> QED
    BY <1>1, <2>3, NoneLeftStays DEF KeepsOut, AddsNothing
<1>4. CASE /\ ~Contains(tombstones, Of(c))
           /\ StoreSelection(Of(c)) /\ UNCHANGED <<tombstones, joined>>
  <2>1. SelectionsShape' /\ selections' \subseteq selections \cup {Of(c)}
    BY <1>0, <1>4, StoreShape
  <2>2. FlowShape' /\ joined' = joined /\ tombstones' = tombstones
    BY <1>0, <1>4 DEF FlowShape, MarksShape
  <2>3. \A t : t # Of(c) /\ Contains(tombstones, t) => Contains(tombstones', t)
    BY <2>2
  <2>4. UNCHANGED <<sessionVars, evicted, stopped>>
    BY <1>0
  <2>5. NoneLeft => NoneLeft'
    BY <1>0, <1>1, <1>4, <2>1, <2>3, <2>4, FinishesWanted
  <2> QED
    BY <1>1, <2>1, <2>2, <2>5 DEF EnrolInv, AddsNothing
<1>5. CASE /\ ~Contains(tombstones, Of(c))
           /\ JoinAccount(Of(c)) /\ UNCHANGED <<selections, selection>>
  <2>1. /\ MarksShape' /\ joined' = joined \cup {Of(c)} /\ joined' \subseteq Logins
        /\ \A t : Contains(tombstones', t) <=> Contains(tombstones, t) /\ t # Of(c)
    BY <1>0, <1>5, JoinShape DEF FlowShape
  <2>2. SelectionsShape' /\ FlowShape'
    BY <1>0, <1>5, <2>1 DEF SelectionsShape, FlowShape
  <2>3. NoneLeft => NoneLeft' /\ Of(c) \notin stopped \ evicted
    BY <1>0, <1>1, <1>5, <2>1, FinishesWanted
  <2> QED
    BY <1>1, <2>1, <2>2, <2>3 DEF EnrolInv, AddsNothing
<1> QED
  BY <1>2, <1>3, <1>4, <1>5

LEMMA StepSelectFinishes ==
    ASSUME EnrolInv, NEW c \in Calls, SelectFinishes(c)
    PROVE  EnrolInv' /\ (NoneLeft => NoneLeft' /\ AddsNothing)
<1> DEFINE Used == /\ selections' = selections \ {Of(c)}
                   /\ selection' = [selection EXCEPT ![Of(c)] = [kept |-> FALSE, canceled |-> TRUE]]
<1>0. /\ SessionsShape /\ SelectionsShape /\ FlowShape /\ CallsShape
      /\ call[c].at # "idle" /\ Of(c) \in Logins
      /\ UNCHANGED <<sessionVars, discovery, evicted, stopped>>
      /\ Goes(c, "done") /\ chooser' = [chooser EXCEPT ![Of(c)] = "free"]
  BY OfIsLogin DEF EnrolInv, SelectFinishes, At
<1>1. CallsShape' /\ GoesOn(c) /\ SessionsShape'
  BY <1>0, GoesShape, GoesGoesOn, SessionsUnchanged DEF Labels
<1>2. \/ Used /\ UNCHANGED <<tombstones, joined>>
      \/ ~Contains(tombstones, Of(c)) /\ Used /\ JoinAccount(Of(c))
      \/ UNCHANGED <<selections, selection, tombstones, joined>>
  BY DEF SelectFinishes, Canceled, Stopped
<1>3. Used \/ UNCHANGED <<selections, selection>>
  BY <1>2
<1>4. SelectionsShape' /\ selections' \subseteq selections
  <2>1. [kept |-> FALSE, canceled |-> TRUE] \in LoginChoice
    BY DEF LoginChoice
  <2>2. IsFiniteSet(selections \ {Of(c)}) /\ Cardinality(selections \ {Of(c)}) <= MaxSelections
    BY <1>0, FewerRemain, MaximaAreNatural DEF SelectionsShape
  <2> QED
    BY <1>0, <1>3, <2>1, <2>2 DEF SelectionsShape
<1>5. CASE UNCHANGED <<tombstones, joined>>
  <2>1. FlowShape' /\ StagesStay /\ table' = table
    BY <1>0, <1>5, SessionsUnchanged DEF FlowShape, MarksShape, StagesStay
  <2>2. EnrolInv' /\ KeepsOut
    BY <1>0, <1>1, <1>4, <1>5, <2>1 DEF EnrolInv, KeepsOut
  <2> QED
    BY <1>1, <2>2, NoneLeftStays DEF KeepsOut, AddsNothing
<1>6. CASE ~Contains(tombstones, Of(c)) /\ JoinAccount(Of(c))
  <2>1. /\ MarksShape' /\ joined' = joined \cup {Of(c)} /\ joined' \subseteq Logins
        /\ \A t : Contains(tombstones', t) <=> Contains(tombstones, t) /\ t # Of(c)
    BY <1>0, <1>6, JoinShape DEF FlowShape
  <2>2. FlowShape'
    BY <1>0, <2>1 DEF FlowShape
  <2>3. NoneLeft => NoneLeft' /\ Of(c) \notin stopped \ evicted
    BY <1>0, <1>1, <1>4, <1>6, <2>1, FinishesWanted
  <2> QED
    BY <1>1, <1>4, <2>1, <2>2, <2>3 DEF EnrolInv, AddsNothing
<1> QED
  BY <1>2, <1>5, <1>6

(* apiCancelMicrosoftSSO, statement by statement.                          *)
LEMMA MarkShape ==
    ASSUME MarksShape, NEW s \in Logins,
           tombstones' = Append(Unmarked(IF Full(tombstones) THEN Tail(tombstones)
                                          ELSE tombstones, s), s),
           evicted \subseteq Logins,
           evicted' = evicted \cup IF Full(tombstones) THEN {Head(tombstones)} \ {s} ELSE {}
    PROVE  /\ MarksShape' /\ Contains(tombstones', s)
           /\ evicted' \subseteq Logins /\ evicted \subseteq evicted'
           /\ \A t : Contains(tombstones, t) => Contains(tombstones', t) \/ t \in evicted'
<1> DEFINE left == IF Full(tombstones) THEN Tail(tombstones) ELSE tombstones
           u == Unmarked(left, s)
<1>0. /\ tombstones \in Seq(Logins) /\ IsInjective(tombstones)
      /\ Len(tombstones) <= MaxTombstones /\ Len(tombstones) \in Nat
      /\ MaxTombstones \in Nat \ {0}
      /\ tombstones' = Append(u, s)
  BY LenProperties, MaximaAreNatural DEF MarksShape
<1>1. /\ left \in Seq(Logins) /\ IsInjective(left) /\ Len(left) \in Nat /\ Len(left) < MaxTombstones
      /\ evicted' \subseteq Logins /\ evicted \subseteq evicted'
      /\ \A t : Contains(tombstones, t) /\ t # s => Contains(left, t) \/ t \in evicted'
  <2>1. CASE Full(tombstones)
    <3>1. tombstones # <<>> /\ Len(tombstones) >= MaxTombstones
      BY <1>0, <2>1, EmptySeq DEF Full
    <3>2. /\ Tail(tombstones) \in Seq(Logins) /\ IsInjective(Tail(tombstones))
          /\ Len(Tail(tombstones)) = Len(tombstones) - 1
          /\ \A t : t # Head(tombstones) /\ Contains(tombstones, t) => Contains(Tail(tombstones), t)
      BY <1>0, <3>1, TailSequence
    <3>3. left = Tail(tombstones) /\ evicted' = evicted \cup ({Head(tombstones)} \ {s})
      BY <2>1
    <3>4. Len(tombstones) - 1 \in Nat /\ Len(tombstones) - 1 < MaxTombstones
      BY <1>0, <3>1
    <3>5. Head(tombstones) \in Logins
      BY <1>0, <3>1, HeadTailProperties
    <3> HIDE DEF left
    <3> QED
      BY <3>2, <3>3, <3>4, <3>5
  <2>2. CASE ~Full(tombstones)
    BY <1>0, <2>2 DEF Full
  <2> QED
    BY <2>1, <2>2
<1> HIDE DEF left
<1>2. /\ u \in Seq(Logins) /\ IsInjective(u) /\ Len(u) <= Len(left)
      /\ \A t : Contains(u, t) <=> Contains(left, t) /\ t # s
  BY <1>1, UnmarkedSequence
<1> HIDE DEF u
<1>3. /\ Append(u, s) \in Seq(Logins) /\ IsInjective(Append(u, s))
      /\ Len(Append(u, s)) = Len(u) + 1 /\ Contains(Append(u, s), s)
      /\ \A t : Contains(u, t) => Contains(Append(u, s), t)
  BY <1>2, AppendSequence
<1>4. Len(u) \in Nat /\ Len(u) + 1 <= MaxTombstones
  BY <1>0, <1>1, <1>2, LenProperties
<1>5. MarksShape'
  BY <1>0, <1>3, <1>4 DEF MarksShape
<1>6. ASSUME NEW t, Contains(tombstones, t)
      PROVE  Contains(tombstones', t) \/ t \in evicted'
  <2>1. CASE t = s
    BY <1>0, <1>3, <2>1
  <2>2. CASE t # s
    BY <1>0, <1>1, <1>2, <1>3, <1>6, <2>2
  <2> QED
    BY <2>1, <2>2
<1> QED
  BY <1>0, <1>1, <1>3, <1>5, <1>6

LEMMA StepCancelMarks ==
    ASSUME EnrolInv, NEW c \in Calls, CancelMarks(c)
    PROVE  EnrolInv' /\ (NoneLeft => NoneLeft') /\ AddsNothing
<1>0. /\ SessionsShape /\ SelectionsShape /\ FlowShape /\ CallsShape
      /\ UNCHANGED <<sessionVars, selectionVars, joined, stopped>>
  BY DEF EnrolInv, CancelMarks
<1>1. PICK s \in Logins :
          /\ session[s].stage # "none"
          /\ call' = [call EXCEPT ![c].at = "discard", ![c].of = s]
          /\ tombstones' = Append(Unmarked(IF Full(tombstones) THEN Tail(tombstones)
                                           ELSE tombstones, s), s)
          /\ evicted' = evicted \cup IF Full(tombstones) THEN {Head(tombstones)} \ {s} ELSE {}
          /\ discovery' = [discovery EXCEPT ![s] = IF @ = "none" THEN @ ELSE "ended"]
  BY DEF CancelMarks
<1>2. /\ MarksShape' /\ Contains(tombstones', s)
      /\ evicted' \subseteq Logins /\ evicted \subseteq evicted'
      /\ \A t : Contains(tombstones, t) => Contains(tombstones', t) \/ t \in evicted'
  BY <1>0, <1>1, MarkShape DEF FlowShape
<1>3. FlowShape'
  BY <1>0, <1>1, <1>2 DEF FlowShape
<1>4. CallsShape'
  BY <1>0, <1>1, BeginShape DEF Labels
<1>5. /\ EnrolInv' /\ table' = table /\ session' = session /\ selections' = selections
      /\ joined' = joined /\ stopped' = stopped
  BY <1>0, <1>3, <1>4, SessionsUnchanged, SelectionsUnchanged DEF EnrolInv
<1>6. /\ \A d \in Calls \ {c} : call'[d] = call[d]
      /\ call'[c].of = s /\ call'[c].at = "discard"
  BY <1>0, <1>1 DEF CallsShape, LoginCall
<1>7. ASSUME NoneLeft
      PROVE  NoneLeft'
  <2>1. ASSUME NEW d \in Calls, call'[d].at \in {"discard", "detach"}
        PROVE  /\ (Contains(tombstones', call'[d].of) \/ call'[d].of \in evicted')
               /\ session'[call'[d].of].stage # "none"
               /\ call'[d].at = "detach" => call'[d].of \notin table'
    <3>1. CASE d = c
      BY <1>1, <1>2, <1>5, <1>6, <3>1
    <3>2. CASE d # c
      <4>1. call'[d] = call[d]
        BY <1>6, <3>2
      <4> QED
        BY <1>2, <1>5, <1>7, <2>1, <4>1 DEF NoneLeft
    <3> QED
      BY <3>1, <3>2
  <2>2. ASSUME NEW t \in stopped \ evicted'
        PROVE  /\ t \notin table' /\ t \notin selections' /\ session'[t].stage # "none"
               /\ Contains(tombstones', t) \/ \A d \in Calls : call'[d].at = "idle" \/ call'[d].of # t
    <3>1. /\ Withdrawn(t)
          /\ Contains(tombstones, t) \/ \A d \in Calls : call[d].at = "idle" \/ call[d].of # t
      BY <1>2, <1>7, <2>2 DEF NoneLeft
    <3>2. CASE t = s
      BY <1>2, <1>5, <3>1, <3>2 DEF Withdrawn
    <3>3. CASE t # s
      BY <1>2, <1>5, <1>6, <1>7, <3>1, <3>3 DEF Withdrawn
    <3> QED
      BY <3>2, <3>3
  <2> QED
    BY <1>5, <2>1, <2>2 DEF NoneLeft, Withdrawn
<1> QED
  BY <1>5, <1>7 DEF AddsNothing

LEMMA StepCancelDiscards ==
    ASSUME EnrolInv, NEW c \in Calls, CancelDiscards(c)
    PROVE  EnrolInv' /\ (NoneLeft => NoneLeft') /\ AddsNothing
<1>0. /\ SessionsShape /\ SelectionsShape /\ FlowShape /\ CallsShape
      /\ UNCHANGED <<holder, selectionVars, flowVars, stopped>>
      /\ call[c].at = "discard" /\ Of(c) \in Logins
      /\ Discard({Of(c)}) /\ Goes(c, "detach")
  BY OfIsLogin DEF EnrolInv, CancelDiscards, At
<1>1. CallsShape'
  BY <1>0, GoesShape DEF Labels
<1>2. SessionsShape' /\ table' = table \ {Of(c)} /\ StagesStay
  BY <1>0, DiscardShape DEF StagesStay
<1>3. EnrolInv' /\ KeepsOut
  BY <1>0, <1>1, <1>2, SessionStep
<1>4. \A d \in Calls : call'[d].of = call[d].of /\ (call'[d].at = "idle" <=> call[d].at = "idle")
                       /\ (d # c => call'[d] = call[d])
  BY <1>0 DEF Goes, CallsShape, LoginCall
<1>5. ASSUME NoneLeft
      PROVE  NoneLeft'
  <2>1. ASSUME NEW d \in Calls, call'[d].at \in {"discard", "detach"}
        PROVE  /\ (Contains(tombstones', call'[d].of) \/ call'[d].of \in evicted')
               /\ session'[call'[d].of].stage # "none"
               /\ call'[d].at = "detach" => call'[d].of \notin table'
    <3>1. call[d].at \in {"discard", "detach"} /\ call[d].of \in Logins
      BY <1>0, <1>4, <2>1 DEF CallsShape, LoginCall
    <3>2. (Contains(tombstones', call[d].of) \/ call[d].of \in evicted')
         /\ session'[call[d].of].stage # "none"
      BY <1>3, <1>5, <3>1 DEF NoneLeft, KeepsOut, StagesStay
    <3>3. call'[d].at = "detach" => call[d].of \notin table'
      BY <1>2, <1>4, <1>5 DEF NoneLeft, Of
    <3> QED
      BY <1>4, <3>2, <3>3
  <2>2. ASSUME NEW t \in stopped \ evicted'
        PROVE  /\ t \notin table' /\ t \notin selections' /\ session'[t].stage # "none"
               /\ Contains(tombstones', t) \/ \A d \in Calls : call'[d].at = "idle" \/ call'[d].of # t
    <3>1. /\ Withdrawn(t) /\ t \in Logins
          /\ Contains(tombstones, t) \/ \A d \in Calls : call[d].at = "idle" \/ call[d].of # t
      BY <1>0, <1>3, <1>5 DEF NoneLeft, FlowShape, KeepsOut
    <3> QED
      BY <1>3, <1>4, <3>1 DEF Withdrawn, KeepsOut, StagesStay
  <2> QED
    BY <1>3, <2>1, <2>2 DEF NoneLeft, Withdrawn, KeepsOut
<1> QED
  BY <1>3, <1>5 DEF KeepsOut, AddsNothing

LEMMA StepCancelDetaches ==
    ASSUME EnrolInv, NEW c \in Calls, CancelDetaches(c)
    PROVE  EnrolInv' /\ (NoneLeft => NoneLeft') /\ AddsNothing
<1>0. /\ SessionsShape /\ SelectionsShape /\ FlowShape /\ CallsShape
      /\ UNCHANGED <<sessionVars, chooser, flowVars>>
      /\ call[c].at = "detach" /\ Of(c) \in Logins
      /\ Detach({Of(c)}) /\ Goes(c, "done") /\ stopped' = stopped \cup {Of(c)}
  BY OfIsLogin DEF EnrolInv, CancelDetaches, At
<1>1. CallsShape' /\ GoesOn(c)
  BY <1>0, GoesShape, GoesGoesOn DEF Labels
<1>2. SelectionsShape' /\ selections' = selections \ {Of(c)}
  BY <1>0, DetachShape DEF Detach
<1>3. /\ FlowShape' /\ SessionsShape' /\ table' = table /\ session' = session
      /\ joined' = joined /\ tombstones' = tombstones /\ evicted' = evicted
  BY <1>0, SessionsUnchanged DEF flowVars, FlowShape, MarksShape
<1>4. \A d \in Calls : call'[d].at # "idle" => call'[d] = call[d]
  BY <1>0 DEF Goes, CallsShape, Resting
<1>5. ASSUME NoneLeft
      PROVE  NoneLeft'
  <2>1. ASSUME NEW d \in Calls, call'[d].at \in {"discard", "detach"}
        PROVE  /\ (Contains(tombstones', call'[d].of) \/ call'[d].of \in evicted')
               /\ session'[call'[d].of].stage # "none"
               /\ call'[d].at = "detach" => call'[d].of \notin table'
    <3>1. call'[d] = call[d]
      BY <1>4, <2>1
    <3> QED
      BY <1>3, <1>5, <2>1, <3>1 DEF NoneLeft
  <2>2. ASSUME NEW t \in (stopped \cup {Of(c)}) \ evicted'
        PROVE  /\ t \notin table' /\ t \notin selections' /\ session'[t].stage # "none"
               /\ Contains(tombstones', t) \/ \A d \in Calls : call'[d].at = "idle" \/ call'[d].of # t
    <3>1. CASE t \in stopped
      BY <1>2, <1>3, <1>4, <1>5, <2>2, <3>1 DEF NoneLeft, Withdrawn
    <3>2. CASE t = Of(c)
      BY <1>0, <1>2, <1>3, <1>5, <2>2, <3>2 DEF NoneLeft, Of
    <3> QED
      BY <3>1, <3>2
  <2> QED
    BY <1>0, <2>1, <2>2 DEF NoneLeft, Withdrawn
<1> QED
  BY <1>1, <1>2, <1>3, <1>5 DEF EnrolInv, AddsNothing

LEMMA StepTombstoneExpires ==
    ASSUME EnrolInv, TombstoneExpires
    PROVE  EnrolInv' /\ (NoneLeft => NoneLeft') /\ AddsNothing
<1>0. /\ SessionsShape /\ SelectionsShape /\ FlowShape /\ CallsShape
      /\ UNCHANGED <<sessionVars, selectionVars, discovery, joined, evicted, stopped, call>>
      /\ tombstones # <<>> /\ tombstones' = Tail(tombstones)
      /\ \A c \in Calls : call[c].at = "idle" \/ call[c].of # Head(tombstones)
  BY DEF EnrolInv, TombstoneExpires, At, Of
<1>1. /\ tombstones \in Seq(Logins) /\ IsInjective(tombstones) /\ Len(tombstones) <= MaxTombstones
      /\ Len(tombstones) \in Nat /\ MaxTombstones \in Nat
  BY <1>0, LenProperties, MaximaAreNatural DEF FlowShape, MarksShape
<1>2. /\ Tail(tombstones) \in Seq(Logins) /\ IsInjective(Tail(tombstones))
      /\ Len(Tail(tombstones)) = Len(tombstones) - 1
      /\ \A t : t # Head(tombstones) /\ Contains(tombstones, t) => Contains(Tail(tombstones), t)
  BY <1>0, <1>1, TailSequence
<1>3. FlowShape'
  BY <1>0, <1>1, <1>2 DEF FlowShape, MarksShape
<1>4. EnrolInv' /\ table' = table /\ session' = session /\ selections' = selections
  BY <1>0, <1>3, SessionsUnchanged, SelectionsUnchanged DEF EnrolInv, CallsShape
<1>5. ASSUME NoneLeft
      PROVE  NoneLeft'
  <2>1. ASSUME NEW d \in Calls, call[d].at \in {"discard", "detach"}
        PROVE  /\ (Contains(tombstones', call[d].of) \/ call[d].of \in evicted')
               /\ session[call[d].of].stage # "none"
               /\ call[d].at = "detach" => call[d].of \notin table
    <3>1. call[d].of # Head(tombstones)
      BY <1>0, <2>1
    <3> QED
      BY <1>0, <1>2, <1>5, <2>1, <3>1 DEF NoneLeft
  <2>2. ASSUME NEW t \in stopped \ evicted'
        PROVE  /\ Withdrawn(t)
               /\ Contains(tombstones', t) \/ \A d \in Calls : call[d].at = "idle" \/ call[d].of # t
    <3>1. CASE t = Head(tombstones)
      BY <1>0, <1>5, <3>1 DEF NoneLeft
    <3>2. CASE t # Head(tombstones)
      BY <1>0, <1>2, <1>5, <3>2 DEF NoneLeft
    <3> QED
      BY <3>1, <3>2
  <2>3. stopped' = stopped /\ evicted' = evicted /\ call' = call
    BY <1>0
  <2> QED
    BY <1>4, <2>1, <2>2, <2>3 DEF NoneLeft, Withdrawn
<1> QED
  BY <1>0, <1>4, <1>5 DEF AddsNothing

-----------------------------------------------------------------------------
(* Nobody has begun.                                                       *)
LEMMA EnrolStarts == EnrolInit => EnrolInv /\ NoneLeft
<1> SUFFICES ASSUME EnrolInit
             PROVE  EnrolInv /\ NoneLeft
  OBVIOUS
<1>1. /\ table = {} /\ holder = [s \in Logins |-> "free"]
      /\ \E former \in SUBSET Logins :
            session = [s \in Logins |-> IF s \in former
                         THEN [stage |-> "provider", canceled |-> TRUE, secret |-> FALSE]
                         ELSE [stage |-> "none", canceled |-> FALSE, secret |-> FALSE]]
      /\ selections = {} /\ chooser = [s \in Logins |-> "free"]
      /\ selection = [s \in Logins |-> [kept |-> FALSE, canceled |-> FALSE]]
      /\ tombstones = <<>> /\ discovery = [s \in Logins |-> "none"]
      /\ joined = {} /\ evicted = {} /\ stopped = {}
      /\ call = [c \in Calls |-> Resting]
  BY DEF EnrolInit
<1>2. IsFiniteSet({}) /\ Cardinality({}) = 0
  BY FS_EmptySet
<1>3. SessionsShape /\ SelectionsShape
  BY <1>1, <1>2, MaximaAreNatural DEF SessionsShape, SelectionsShape, LoginSession, LoginChoice
<1>4. MarksShape
  <2>1. tombstones \in Seq(Logins) /\ Len(tombstones) = 0 /\ DOMAIN tombstones = {}
    BY <1>1, EmptySeq
  <2> QED
    BY <2>1, MaximaAreNatural DEF MarksShape, IsInjective
<1>5. CallsShape /\ \A c \in Calls : call[c].at = "idle"
  BY <1>1, RestingShape DEF CallsShape, Resting
<1>6. FlowShape
  BY <1>1, <1>4 DEF FlowShape
<1>7. NoneLeft
  BY <1>1, <1>5 DEF NoneLeft
<1> QED
  BY <1>3, <1>5, <1>6, <1>7 DEF EnrolInv

(* Every step of a login.                                                  *)
LEMMA EnrolStep ==
    ASSUME EnrolInv, [EnrolNext]_enrolVars
    PROVE  EnrolInv' /\ (NoneLeft => NoneLeft' /\ AddsNothing)
<1>1. ASSUME NEW c \in Calls, Begin(c)
      PROVE  EnrolInv' /\ (NoneLeft => NoneLeft' /\ AddsNothing)
  BY <1>1, StepStart, StepCompleteFinds, StepSelectFinds, StepCancelMarks DEF Begin
<1>2. ASSUME NEW c \in Calls, CallStep(c)
      PROVE  EnrolInv' /\ (NoneLeft => NoneLeft' /\ AddsNothing)
  BY <1>2, StepQuiet, StepCompleteFinishes, StepSelectFinishes, StepCancelDiscards,
     StepCancelDetaches DEF CallStep
<1>3. ASSUME NEW s \in Logins,
             SessionTimer(s) \/ SelectionTimer(s) \/ WipeSelection(s) \/ TimeRunsOut(s)
      PROVE  EnrolInv' /\ (NoneLeft => NoneLeft' /\ AddsNothing)
  BY <1>3, StepTimers, NoneLeftStays DEF KeepsOut, AddsNothing
<1>4. CASE UNCHANGED enrolVars
  BY <1>4 DEF enrolVars, EnrolInv, SessionsShape, SelectionsShape, FlowShape, MarksShape,
              CallsShape, NoneLeft, Withdrawn, AddsNothing
<1> QED
  BY <1>1, <1>2, <1>3, <1>4, StepTombstoneExpires DEF EnrolNext, Timers

(* The shape of the tables, whatever happens.                              *)
LEMMA EnrolInvariant == EnrolSpec => []EnrolInv
<1>1. EnrolInit => EnrolInv
  BY EnrolStarts
<1>2. EnrolInv /\ [EnrolNext]_enrolVars => EnrolInv'
  BY EnrolStep
<1> QED
  BY <1>1, <1>2, PTL DEF EnrolSpec

LEMMA InvGivesEnrolTypes == EnrolInv => EnrolTypeOK
BY DEF EnrolInv, SessionsShape, SelectionsShape, FlowShape, MarksShape, EnrolTypeOK

(* The tables of the Microsoft login keep their types and limits, for any  *)
(* number of calls and logins (microsoft_sso.go, handler.go).              *)
THEOREM EnrolTypes == EnrolSpec => []EnrolTypeOK
BY InvGivesEnrolTypes, EnrolInvariant, PTL

(* apiCancelMicrosoftSSO: once a cancellation was answered, no call or     *)
(* selection of that login adds its account, unless its mark was evicted   *)
(* to make room for another (markMicrosoftSessionCanceled).                *)
THEOREM CancelledLoginsAddNothing == EnrolSpec => CancelledAddsNothing
<1>1. EnrolInit => EnrolInv /\ NoneLeft
  BY EnrolStarts
<1>2. EnrolInv /\ NoneLeft /\ [EnrolNext]_enrolVars => EnrolInv' /\ NoneLeft'
  BY EnrolStep
<1>3. EnrolInv /\ NoneLeft /\ [EnrolNext]_enrolVars
         => [\A s \in Logins : s \in joined' \ joined => s \notin stopped \ evicted]_enrolVars
  BY EnrolStep DEF AddsNothing
<1> QED
  BY <1>1, <1>2, <1>3, PTL DEF EnrolSpec, CancelledAddsNothing

-----------------------------------------------------------------------------
(***************************************************************************)
(* Imports: a source is known by the token that was imported, whatever the *)
(* account has refreshed with since, and a token is given out once.        *)
(***************************************************************************)
ImportsInv ==
    /\ device \in [DeviceLogins -> {"none", "open", "expired", "gone", "added"}]
    /\ issued \in 1..MaxTokens /\ importer \in Importers \cup {"free"}
    /\ \A c \in Importers :
          /\ caller[c].token \in 0..issued /\ caller[c].got \in 0..issued
          /\ caller[c].at \in {"trade", "add"} => caller[c].token # 0
          /\ caller[c].at = "add" => caller[c].got # 0
          /\ caller[c].of \in DeviceLogins \/ caller[c].at # "poll"
    /\ caller \in [Importers -> [at : {"idle", "poll", "trade", "add"},
                                 of : DeviceLogins \cup {"none"}, token : Nat, got : Nat]]
    /\ vault \subseteq [from : 1..issued, print : 1..issued, token : 1..issued]
    /\ \A a \in vault : a.print = a.from
    /\ SourcesImportedOnce

(* Nothing has been imported.                                              *)
LEMMA ImportsStart == ImportsInit => ImportsInv
BY ImportsAssumption DEF ImportsInit, ImportsInv, Asleep, SourcesImportedOnce

(* No step of a device login touches the imports.                          *)
LEMMA StepDevice ==
    ASSUME ImportsInv, NEW c \in Importers,
           StartDeviceLogin(c) \/ PollReads(c) \/ PollAnswers(c)
    PROVE  ImportsInv'
<1>1. UNCHANGED <<vault, issued, importer>>
  BY DEF StartDeviceLogin, PollReads, PollAnswers
<1>2. device' \in [DeviceLogins -> {"none", "open", "expired", "gone", "added"}]
  <2>1. CASE StartDeviceLogin(c)
    BY <2>1 DEF ImportsInv, StartDeviceLogin
  <2>2. CASE PollReads(c)
    BY <2>2 DEF ImportsInv, PollReads
  <2>3. CASE PollAnswers(c)
    BY <2>3 DEF ImportsInv, PollAnswers
  <2> QED
    BY <2>1, <2>2, <2>3
<1>3. \/ caller' = [caller EXCEPT ![c] = Asleep]
      \/ \E d \in DeviceLogins : caller' = [caller EXCEPT ![c].at = "poll", ![c].of = d]
  BY DEF StartDeviceLogin, PollReads, PollAnswers, Turns
<1> QED
  BY <1>1, <1>2, <1>3 DEF ImportsInv, SourcesImportedOnce, Asleep

(* A refresh may bring a new token.                                        *)
LEMMA StepTrades ==
    ASSUME ImportsInv, NEW c \in Importers, ImportChecks(c) \/ ImportTrades(c)
    PROVE  ImportsInv'
<1>1. UNCHANGED <<device, vault>> /\ issued' \in 1..MaxTokens /\ issued <= issued'
  BY DEF ImportChecks, ImportTrades, ImportsInv
<1>2. importer' \in Importers \cup {"free"}
  BY DEF ImportChecks, ImportTrades, ImportsInv
<1>3. \/ caller' = [caller EXCEPT ![c] = Asleep]
      \/ \E t \in 1..issued : caller' = [caller EXCEPT ![c].at = "trade", ![c].token = t]
      \/ /\ caller[c].at = "trade"
         /\ caller' = [caller EXCEPT ![c].at = "add",
                ![c].got = IF issued' = issued THEN caller[c].token ELSE issued']
  BY DEF ImportChecks, ImportTrades, Turns, Is
<1>4. caller' \in [Importers -> [at : {"idle", "poll", "trade", "add"},
                                 of : DeviceLogins \cup {"none"}, token : Nat, got : Nat]]
  BY <1>1, <1>3 DEF ImportsInv, Asleep
<1>5. \A d \in Importers :
          /\ caller'[d].token \in 0..issued' /\ caller'[d].got \in 0..issued'
          /\ caller'[d].at \in {"trade", "add"} => caller'[d].token # 0
          /\ caller'[d].at = "add" => caller'[d].got # 0
          /\ caller'[d].of \in DeviceLogins \/ caller'[d].at # "poll"
  BY <1>1, <1>3 DEF ImportsInv, Asleep
<1>6. vault' \subseteq [from : 1..issued', print : 1..issued', token : 1..issued']
  BY <1>1 DEF ImportsInv
<1> QED
  BY <1>1, <1>2, <1>4, <1>5, <1>6 DEF ImportsInv, SourcesImportedOnce

(* AddAccount refuses a fingerprint or a token that is there.              *)
LEMMA StepAdds ==
    ASSUME ImportsInv, NEW c \in Importers, ImportAdds(c)
    PROVE  ImportsInv'
<1>1. UNCHANGED <<device, issued>> /\ importer' = "free" /\ caller' = [caller EXCEPT ![c] = Asleep]
  BY DEF ImportAdds, Turns
<1> DEFINE new == Imported(caller[c].token, caller[c].got)
<1>2. new \in [from : 1..issued, print : 1..issued, token : 1..issued] /\ new.print = new.from
  BY DEF ImportAdds, Is, ImportsInv, Imported
<1>3. \/ vault' = vault
      \/ /\ \A a \in vault : a.token # new.token /\ a.print # new.print
         /\ vault' = vault \cup {new}
  BY DEF ImportAdds
<1> HIDE DEF new
<1>4. /\ vault' \subseteq [from : 1..issued, print : 1..issued, token : 1..issued]
      /\ \A a \in vault' : a.print = a.from
  BY <1>2, <1>3 DEF ImportsInv
<1>5. SourcesImportedOnce'
  <2> SUFFICES ASSUME NEW a \in vault', NEW b \in vault', a.from = b.from \/ a.token = b.token
               PROVE  a = b
    BY DEF SourcesImportedOnce
  <2>1. CASE a \in vault /\ b \in vault
    BY <2>1 DEF ImportsInv, SourcesImportedOnce
  <2>2. CASE ~(a \in vault /\ b \in vault)
    BY <1>2, <1>3, <1>4, <2>2
  <2> QED
    BY <2>1, <2>2
<1> QED
  BY <1>1, <1>4, <1>5 DEF ImportsInv, Asleep

(* An account refreshes with a token nobody has seen.                      *)
LEMMA StepRotates ==
    ASSUME ImportsInv, VaultRotates
    PROVE  ImportsInv'
<1>1. /\ UNCHANGED <<device, importer, caller>>
      /\ issued' = issued + 1 /\ issued' \in 1..MaxTokens /\ issued \in Nat
  BY ImportsAssumption DEF VaultRotates, ImportsInv
<1>2. PICK x \in vault : vault' = (vault \ {x}) \cup {[x EXCEPT !.token = issued']}
  BY DEF VaultRotates
<1> DEFINE y == [x EXCEPT !.token = issued']
<1>3. /\ x \in [from : 1..issued, print : 1..issued, token : 1..issued] /\ x.print = x.from
      /\ \A a \in vault : a \in [from : 1..issued, print : 1..issued, token : 1..issued]
  BY <1>2 DEF ImportsInv
<1>4. /\ y \in [from : 1..issued', print : 1..issued', token : 1..issued']
      /\ y.print = x.print /\ y.from = x.from /\ y.token = issued'
  BY <1>1, <1>3
<1> HIDE DEF y
<1>5. /\ vault' \subseteq [from : 1..issued', print : 1..issued', token : 1..issued']
      /\ \A a \in vault' : a.print = a.from
  BY <1>1, <1>2, <1>3, <1>4 DEF ImportsInv, y
<1>6. SourcesImportedOnce'
  <2> SUFFICES ASSUME NEW a \in vault', NEW b \in vault', a.from = b.from \/ a.token = b.token
               PROVE  a = b
    BY DEF SourcesImportedOnce
  <2>1. a \in {y} \cup (vault \ {x}) /\ b \in {y} \cup (vault \ {x})
    BY <1>2 DEF y
  <2>2. \A d \in vault : d # x => d.from # x.from /\ d.token # issued'
    BY <1>1, <1>3 DEF ImportsInv, SourcesImportedOnce
  <2>3. CASE a \in vault /\ b \in vault
    BY <2>3 DEF ImportsInv, SourcesImportedOnce
  <2> QED
    BY <1>4, <2>1, <2>2, <2>3
<1>7. \A d \in Importers :
          /\ caller[d].token \in 0..issued' /\ caller[d].got \in 0..issued'
  BY <1>1 DEF ImportsInv
<1> QED
  BY <1>1, <1>5, <1>6, <1>7 DEF ImportsInv

(* Every step of the imports and the device logins.                        *)
LEMMA ImportsStep == ImportsInv /\ [ImportsNext]_importVars => ImportsInv'
<1> SUFFICES ASSUME ImportsInv, [ImportsNext]_importVars
             PROVE  ImportsInv'
  OBVIOUS
<1>1. CASE UNCHANGED importVars
  BY <1>1 DEF importVars, ImportsInv, SourcesImportedOnce
<1>2. ASSUME NEW d \in DeviceLogins, DeviceLapses(d)
      PROVE  ImportsInv'
  BY <1>2 DEF DeviceLapses, ImportsInv, SourcesImportedOnce
<1> QED
  BY <1>1, <1>2, StepDevice, StepTrades, StepAdds, StepRotates DEF ImportsNext

(* What the invariant says of the types.                                   *)
LEMMA InvGivesImportsTypes == ImportsInv => ImportsTypeOK
<1> SUFFICES ASSUME ImportsInv PROVE ImportsTypeOK
  OBVIOUS
<1>1. 1..issued \subseteq 1..MaxTokens
  BY ImportsAssumption DEF ImportsInv
<1> QED
  BY <1>1 DEF ImportsInv, ImportsTypeOK

(* apiImportCredentials with AddAccount: an exported credential makes one  *)
(* account however often it is imported, and no two accounts refresh with  *)
(* the same token, for any number of imports and refreshes between them.   *)
THEOREM SourcesOnce == ImportsSpec => []SourcesImportedOnce
<1>1. ImportsInv => SourcesImportedOnce
  BY DEF ImportsInv
<1> QED
  BY <1>1, ImportsStart, ImportsStep, PTL DEF ImportsSpec

-----------------------------------------------------------------------------
(***************************************************************************)
(* The pool, the logins and the imports together.                          *)
(***************************************************************************)
DataplaneInv == Typed /\ EnrolInv /\ ImportsInv

(* No part disturbs another.                                               *)
LEMMA DataplaneSteps ==
    /\ Init => DataplaneInv /\ NoneLeft
    /\ [Next]_vars => /\ [PoolNext]_poolVars /\ [EnrolNext]_enrolVars
                      /\ [ImportsNext]_importVars
<1>1. Init => DataplaneInv /\ NoneLeft
  BY PoolStarts, EnrolStarts, ImportsStart DEF Init, DataplaneInv
<1>2. [Next]_vars => [PoolNext]_poolVars /\ [EnrolNext]_enrolVars /\ [ImportsNext]_importVars
  BY DEF Next, vars
<1> QED
  BY <1>1, <1>2

(* The tables of the data plane keep their types and their limits, for any *)
(* accounts, logins, imports and calls.                                    *)
THEOREM DataplaneTypes == Spec => []DataplaneTypeOK
<1>1. Init => DataplaneInv
  BY DataplaneSteps
<1>2. DataplaneInv /\ [Next]_vars => DataplaneInv'
  BY DataplaneSteps, StepKeeps, EnrolStep, ImportsStep DEF DataplaneInv, Keeps
<1>3. DataplaneInv => DataplaneTypeOK
  BY InvGivesEnrolTypes, InvGivesImportsTypes DEF DataplaneInv, Typed, DataplaneTypeOK
<1> QED
  BY <1>1, <1>2, <1>3, PTL DEF Spec

(* apiCancelMicrosoftSSO, AddAccount: the accounts that come to be are     *)
(* those somebody still wants, each once, but for a login whose mark gave  *)
(* way to the cancellation of another.                                     *)
THEOREM OnlyWantedAccounts == Spec => AccountsAreWanted
<1>1. Init => DataplaneInv /\ NoneLeft
  BY DataplaneSteps
<1>2. DataplaneInv /\ NoneLeft /\ [Next]_vars => DataplaneInv' /\ NoneLeft'
  BY DataplaneSteps, StepKeeps, EnrolStep, ImportsStep DEF DataplaneInv, Keeps
<1>3. DataplaneInv /\ NoneLeft /\ [Next]_vars
         => [\A s \in Logins : s \in joined' \ joined => s \notin stopped \ evicted]_enrolVars
  BY DataplaneSteps, EnrolStep DEF AddsNothing, DataplaneInv
<1>4. DataplaneInv => SourcesImportedOnce
  BY DEF DataplaneInv, ImportsInv
<1> QED
  BY <1>1, <1>2, <1>3, <1>4, PTL DEF Spec, AccountsAreWanted, CancelledAddsNothing
=============================================================================
