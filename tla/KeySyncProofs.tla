---------------------------- MODULE KeySyncProofs ----------------------------
(***************************************************************************)
(* Proofs about customers' keys.  First the two places of a key, for every *)
(* number of handlers, requests, calls left on their way and failures:     *)
(* KeyInv is inductive; it follows the one creation of the key, and says   *)
(* that whoever removes its entry works for a key that is revoked.  Then   *)
(* what keys are admitted to: the limiter of the data plane (Admission),   *)
(* for any number of keys and requests, any limits and any edits of them.  *)
(***************************************************************************)
EXTENDS KeySync, Admission, SumsProofs, FiniteSetTheorems, SequenceTheorems

Places == {"idle", "store", "read", "waiting", "ok", "failed", "gone", "unusable"}

\* What a call may ask for; only an update leaves a field as it is.
Requested == {r \in [op : {"create", "update", "overwrite", "delete"},
                     enabled : OnOff \cup {"keep"}, name : {"tag", "own", "keep"}] :
                r.op \in {"create", "overwrite"} => r.enabled # "keep" /\ r.name # "keep"}

Gone == row.revoked \/ ~ row.there

\* What kiro-go may hold of the key, in memory and in its file.
Entries == [there : BOOLEAN, enabled : OnOff, name : {"tag", "own"}]

\* The entry is there and no restart takes it away.
InPlace == remote.there /\ stored.there

\* Only an actor that waits has a call, and only one; whoever is about to push
\* does so for a request.
CallsAwaited ==
    /\ \A a \in Actors : at[a] \in {"store", "read"} => op[a] \in Kinds
    /\ calls \subseteq [from : Actors \cup {Nobody}, req : Requested]
    /\ \A c \in calls : c.from # Nobody => at[c.from] = "waiting"
    /\ \A c, d \in calls : c.from = d.from /\ c.from # Nobody => c = d

\* One request creates the key.  Until it is over the row is there and not
\* handed out, and nobody else creates or deletes it.
CreationAlone ==
    /\ requests = 0 => row = NoRow /\ calls = {} /\ \A a \in Actors : op[a] = "none"
    /\ \A a \in Actors :
        op[a] = "create" =>
            /\ requests > 0 /\ row.there /\ ~ handed
            /\ at[a] \in {"waiting", "ok", "failed", "gone", "unusable"}
            /\ at[a] = "ok" => row.revoked \/ InPlace
            /\ \A b \in Actors : op[b] = "create" => a = b

\* Whoever removes the entry works for a key that is revoked, or whose row a
\* failed creation has taken back.
RemovalsOnlyOfRevoked ==
    /\ row.revoked => row.enabled = "off"
    /\ row.state = "delete_pending" => row.revoked
    /\ \A a \in Actors : op[a] \in {"revoke", "remove"} /\ at[a] # "store" => Gone
    /\ \A c \in calls : c.req.op = "delete" => Gone

KeyInv ==
    /\ KeyTypeOK
    /\ CallsAwaited
    /\ CreationAlone
    /\ RemovalsOnlyOfRevoked
    /\ HandedKeyKept

-----------------------------------------------------------------------------
(* The statements of the store. *)

\* A row the statements may leave: one that is gone leaves no trace, a revoked
\* key is off, and only revoked keys are parked or wait for their removal.
RowOK(r) ==
    /\ r \in [there : BOOLEAN, enabled : OnOff, revoked : BOOLEAN,
              state : Unsynced \cup {"synced", "none"}, known : BOOLEAN, parked : BOOLEAN]
    /\ ~ r.there => r = NoRow
    /\ r.parked => r.revoked
    /\ r.revoked => r.enabled = "off"
    /\ r.state = "delete_pending" => r.revoked

\* A row a statement leaves of the present one: no statement but the roll-back
\* of a creation removes it, and none takes a revocation back.
KeepsRow(r) ==
    /\ RowOK(r)
    /\ r.there = row.there
    /\ row.revoked => r.revoked

LEMMA NoRowOK == RowOK(NoRow)
BY DEF RowOK, NoRow, OnOff, Unsynced

LEMMA UpdatedKeeps ==
    ASSUME RowOK(row), NEW e \in OnOff
    PROVE  KeepsRow(Updated(e))
BY DEF RowOK, KeepsRow, Updated, Live, Unsynced, NoRow

LEMMA RevokedKeeps ==
    ASSUME RowOK(row), Live
    PROVE  KeepsRow(RevokedRow) /\ RevokedRow.revoked
BY DEF RowOK, KeepsRow, RevokedRow, Live, Unsynced, OnOff, NoRow

LEMMA SuspendedKeeps ==
    ASSUME RowOK(row)
    PROVE  KeepsRow(SuspendedRow)
BY DEF RowOK, KeepsRow, SuspendedRow, Live, Unsynced, OnOff, NoRow

LEMMA SyncedKeeps ==
    ASSUME RowOK(row)
    PROVE  KeepsRow(SyncedRow)
BY DEF RowOK, KeepsRow, SyncedRow, Unsynced, NoRow

LEMMA FailedKeeps ==
    ASSUME RowOK(row), NEW s \in Unsynced, s = "delete_pending" => Gone
    PROVE  KeepsRow(FailedRow(s))
BY DEF RowOK, KeepsRow, FailedRow, Unsynced, NoRow, Gone

LEMMA RemovedKeeps ==
    ASSUME RowOK(row)
    PROVE  KeepsRow(RemovedRow)
<1>1. CASE row.revoked /\ row.state = "delete_pending"
  <2>1. row.there
    BY <1>1 DEF RowOK, NoRow
  <2>2. RemovedRow = [row EXCEPT !.state = "synced", !.parked = TRUE]
    BY <1>1 DEF RemovedRow
  <2>3. RemovedRow \in [there : BOOLEAN, enabled : OnOff, revoked : BOOLEAN,
                        state : Unsynced \cup {"synced", "none"}, known : BOOLEAN,
                        parked : BOOLEAN]
    BY <2>2 DEF RowOK
  <2>4. QED
    BY <1>1, <2>1, <2>2, <2>3 DEF RowOK, KeepsRow
<1>2. CASE ~ (row.revoked /\ row.state = "delete_pending")
  BY <1>2 DEF RemovedRow, KeepsRow
<1>3. QED
  BY <1>1, <1>2

LEMMA UnusableKeeps ==
    ASSUME RowOK(row)
    PROVE  KeepsRow(UnusableRow)
BY DEF RowOK, KeepsRow, UnusableRow, Live, Unsynced, OnOff, NoRow

LEMMA RowKeeps ==
    ASSUME RowOK(row)
    PROVE  KeepsRow(row)
BY DEF KeepsRow

-----------------------------------------------------------------------------
(* What an operation asks of the data plane. *)

LEMMA RequestIs ==
    ASSUME NEW o \in Kinds \cup {"create", "push", "remove"}, NEW s \in Seen
    PROVE  /\ Request(o, s) \in Requested
           /\ Request(o, s).op = "delete" <=> o \in {"revoke", "remove"}
           /\ o = "create" => Request(o, s).op = "create"
           /\ Request(o, s).op # "delete" /\ o # "quota" =>
                Request(o, s).enabled = IF o = "create" THEN "on" ELSE s.enabled
BY KeySyncAssumption DEF Request, Requested, Seen, OnOff

\* Snapshots are what their name says.
LEMMA SnapshotType ==
    ASSUME RowOK(row)
    PROVE  Snapshot \in Seen /\ Snapshot.enabled = row.enabled /\ NoSnap \in Seen
BY DEF RowOK, Snapshot, Seen, NoSnap, OnOff

-----------------------------------------------------------------------------
(* Steps of one actor. *)

Operations == Kinds \cup {"none", "create", "push", "remove"}

LEMMA InvParts ==
    ASSUME KeyInv
    PROVE  /\ RowOK(row)
           /\ active \in BOOLEAN /\ handed \in BOOLEAN
           /\ remote \in Entries /\ stored \in Entries /\ unsaved \in BOOLEAN
           /\ at \in [Actors -> Places]
           /\ op \in [Actors -> Operations]
           /\ snap \in [Actors -> Seen]
           /\ requests \in 0 .. MaxRequests /\ failures \in 0 .. MaxFailures
           /\ MaxRequests \in Nat /\ MaxFailures \in Nat
BY KeySyncAssumption
   DEF KeyInv, KeyTypeOK, RemovalsOnlyOfRevoked, RowOK, Places, Operations, Entries

\* A step of one actor that leaves the entry alone keeps the invariant if it
\* keeps the row, does not begin a creation, and begins a removal or asks for
\* one only for a key that is revoked or gone.
LEMMA ActorMoves ==
    ASSUME KeyInv, NEW a \in Actors,
           active' \in BOOLEAN, handed' = handed, UNCHANGED kiro,
           KeepsRow(row'),
           requests' \in 0 .. MaxRequests, requests <= requests',
           failures' \in 0 .. MaxFailures,
           at' \in [Actors -> Places], op' \in [Actors -> Operations],
           snap' \in [Actors -> Seen],
           \A b \in Actors \ {a} : at'[b] = at[b] /\ op'[b] = op[b],
           op'[a] = "create" =>
              /\ op[a] = "create"
              /\ at'[a] \in {"waiting", "failed", "gone", "unusable"}
                    \/ (at'[a] = at[a] /\ at[a] = "ok"),
           op'[a] \in {"revoke", "remove"} /\ at'[a] # "store" => Gone',
           at'[a] \in {"store", "read"} => op'[a] \in Kinds,
           requests' = 0 => calls' = calls /\ op'[a] = "none",
           \/ calls' = calls /\ (at[a] # "waiting" \/ at'[a] = at[a])
           \/ /\ at[a] # "waiting" /\ at'[a] = "waiting"
              /\ \E r \in Requested : /\ calls' = calls \cup {[from |-> a, req |-> r]}
                                      /\ r.op = "delete" => Gone'
    PROVE  KeyInv'
<1>1. /\ RowOK(row) /\ RowOK(row')
      /\ row'.there = row.there
      /\ row.revoked => row'.revoked
      /\ Gone => Gone'
      /\ requests \in Nat /\ requests' \in Nat
  BY InvParts DEF KeepsRow, Gone
<1>2. CallsAwaited /\ CreationAlone /\ RemovalsOnlyOfRevoked /\ HandedKeyKept
  BY DEF KeyInv
<1>3. Nobody \notin Actors
  BY KeySyncAssumption DEF Actors, Syncer, Nobody
<1>4. KeyTypeOK'
  BY <1>1, InvParts DEF KeyTypeOK, RowOK, Places, Operations, Entries, kiro
<1>5. CallsAwaited'
  <2>0. \A b \in Actors : at'[b] \in {"store", "read"} => op'[b] \in Kinds
    BY <1>2 DEF CallsAwaited
  <2>1. CASE calls' = calls /\ (at[a] # "waiting" \/ at'[a] = at[a])
    BY <1>2, <1>3, <2>0, <2>1 DEF CallsAwaited
  <2>2. CASE /\ at[a] # "waiting" /\ at'[a] = "waiting"
             /\ \E r \in Requested : calls' = calls \cup {[from |-> a, req |-> r]}
    <3>1. PICK r \in Requested : calls' = calls \cup {[from |-> a, req |-> r]}
      BY <2>2
    <3>2. \A c \in calls : c.from # a
      BY <1>2, <1>3, <2>2 DEF CallsAwaited
    <3>3. \A c \in calls' : c.from # Nobody => at'[c.from] = "waiting"
      BY <1>2, <1>3, <2>2, <3>1, <3>2 DEF CallsAwaited
    <3>4. calls' \subseteq [from : Actors \cup {Nobody}, req : Requested]
      BY <1>2, <3>1 DEF CallsAwaited
    <3>5. \A c, d \in calls' : c.from = d.from /\ c.from # Nobody => c = d
      BY <1>2, <3>1, <3>2 DEF CallsAwaited
    <3>6. QED
      BY <2>0, <3>3, <3>4, <3>5 DEF CallsAwaited
  <2>3. QED
    BY <2>1, <2>2
<1>6. CreationAlone'
  <2>1. requests' = 0 => /\ row' = NoRow /\ calls' = {}
                         /\ \A b \in Actors : op'[b] = "none"
    BY <1>1, <1>2 DEF CreationAlone, RowOK, NoRow
  <2>2. \A b \in Actors : op'[b] = "create" => op[b] = "create"
    OBVIOUS
  <2>3. ASSUME NEW b \in Actors, op'[b] = "create"
        PROVE  /\ requests' > 0 /\ row'.there /\ ~ handed'
               /\ at'[b] \in {"waiting", "ok", "failed", "gone", "unusable"}
               /\ at'[b] = "ok" => row'.revoked \/ InPlace'
    BY <1>1, <1>2, <2>2, <2>3 DEF CreationAlone, InPlace, kiro
  <2>4. \A b, c \in Actors : op'[b] = "create" /\ op'[c] = "create" => b = c
    BY <1>2, <2>2 DEF CreationAlone
  <2>5. QED
    BY <2>1, <2>3, <2>4 DEF CreationAlone
<1>7. RemovalsOnlyOfRevoked'
  <2>1. \A c \in calls' : c.req.op = "delete" => Gone'
    <3>1. CASE calls' = calls
      BY <1>1, <1>2, <3>1 DEF RemovalsOnlyOfRevoked
    <3>2. CASE \E r \in Requested : /\ calls' = calls \cup {[from |-> a, req |-> r]}
                                    /\ r.op = "delete" => Gone'
      BY <1>1, <1>2, <3>2 DEF RemovalsOnlyOfRevoked
    <3>3. QED
      BY <3>1, <3>2
  <2>2. \A b \in Actors : op'[b] \in {"revoke", "remove"} /\ at'[b] # "store" => Gone'
    BY <1>1, <1>2 DEF RemovalsOnlyOfRevoked
  <2>3. QED
    BY <1>1, <2>1, <2>2 DEF RemovalsOnlyOfRevoked, RowOK
<1>8. HandedKeyKept'
  BY <1>1, <1>2 DEF HandedKeyKept, kiro
<1>9. QED
  BY <1>4, <1>5, <1>6, <1>7, <1>8 DEF KeyInv

LEMMA WriteCounts ==
    ASSUME KeyInv, NEW new, Write(new)
    PROVE  failures' \in 0 .. MaxFailures /\ (row' = new \/ row' = row)
BY InvParts DEF Write

\* An actor that ends what it does.
LEMMA FinishMoves ==
    ASSUME KeyInv, NEW a \in Actors, Finish(a), at[a] # "waiting",
           UNCHANGED <<active, handed, kiro, calls, requests>>,
           KeepsRow(row'), failures' \in 0 .. MaxFailures
    PROVE  KeyInv'
<1>1. /\ at' = [at EXCEPT ![a] = "idle"]
      /\ op' = [op EXCEPT ![a] = "none"]
      /\ snap' = [snap EXCEPT ![a] = NoSnap]
  BY DEF Finish, Go
<1>2. /\ at' \in [Actors -> Places] /\ op' \in [Actors -> Operations]
      /\ snap' \in [Actors -> Seen]
      /\ \A b \in Actors \ {a} : at'[b] = at[b] /\ op'[b] = op[b]
      /\ op'[a] = "none" /\ at'[a] = "idle"
  BY <1>1, InvParts, SnapshotType DEF Places, Operations
<1>3. requests' \in 0 .. MaxRequests /\ requests <= requests' /\ active' \in BOOLEAN
  BY InvParts
<1>4. QED
  BY <1>2, <1>3, ActorMoves

\* An actor that goes on to another place without a call.
LEMMA GoMoves ==
    ASSUME KeyInv, NEW a \in Actors, NEW p \in Places, Go(a, p), at[a] # "waiting",
           NEW o \in Operations, NEW s \in Seen,
           op' = [op EXCEPT ![a] = o], snap' = [snap EXCEPT ![a] = s],
           o # "create",
           o \in {"revoke", "remove"} /\ p # "store" => Gone',
           p \in {"store", "read"} => o \in Kinds,
           requests' > 0,
           UNCHANGED <<handed, kiro, calls>>,
           active' \in BOOLEAN, KeepsRow(row'),
           requests' \in 0 .. MaxRequests, requests <= requests',
           failures' = failures
    PROVE  KeyInv'
<1>1. /\ at' \in [Actors -> Places] /\ op' \in [Actors -> Operations]
      /\ snap' \in [Actors -> Seen]
      /\ \A b \in Actors \ {a} : at'[b] = at[b] /\ op'[b] = op[b]
      /\ op'[a] = o /\ at'[a] = p
  BY InvParts DEF Go
<1>2. failures' \in 0 .. MaxFailures
  BY InvParts
<1>3. QED
  BY <1>1, <1>2, ActorMoves

\* An actor that sends its call, for anything but the creation.
LEMMA SendMoves ==
    ASSUME KeyInv, NEW a \in Actors, NEW o \in Operations \ {"none", "create"}, NEW s \in Seen,
           Send(a, o, s), at[a] # "waiting",
           o \in {"revoke", "remove"} => Gone',
           UNCHANGED <<active, handed, kiro, requests, failures>>, requests > 0,
           KeepsRow(row')
    PROVE  KeyInv'
<1>1. /\ at' = [at EXCEPT ![a] = "waiting"]
      /\ op' = [op EXCEPT ![a] = o]
      /\ snap' = [snap EXCEPT ![a] = s]
      /\ calls' = calls \cup {[from |-> a, req |-> Request(o, s)]}
  BY DEF Send, Go
<1>2. /\ at' \in [Actors -> Places] /\ op' \in [Actors -> Operations]
      /\ snap' \in [Actors -> Seen]
      /\ \A b \in Actors \ {a} : at'[b] = at[b] /\ op'[b] = op[b]
      /\ op'[a] = o /\ at'[a] = "waiting"
  BY <1>1, InvParts DEF Places
<1>3. Request(o, s) \in Requested /\ (Request(o, s).op = "delete" => o \in {"revoke", "remove"})
  BY RequestIs DEF Operations
<1>4. \E r \in Requested : /\ calls' = calls \cup {[from |-> a, req |-> r]}
                           /\ r.op = "delete" => Gone'
  BY <1>1, <1>3
<1>5. /\ active' \in BOOLEAN /\ failures' \in 0 .. MaxFailures
      /\ requests' \in 0 .. MaxRequests /\ requests <= requests'
  BY InvParts
<1>6. QED
  BY <1>2, <1>4, <1>5, ActorMoves

LEMMA BeginCounts ==
    ASSUME KeyInv, NEW a, Begin(a)
    PROVE  /\ a \in Actors /\ at[a] = "idle"
           /\ requests' \in 0 .. MaxRequests /\ requests <= requests' /\ requests' > 0
BY InvParts DEF Begin, Idle, Actors

LEMMA SomethingRequested ==
    ASSUME KeyInv, row.there \/ (\E a \in Actors : op[a] # "none")
    PROVE  requests > 0
BY InvParts DEF KeyInv, CreationAlone, NoRow

LEMMA StepLoad ==
    ASSUME KeyInv, NEW a \in Handlers, NEW o \in Kinds, Load(a, o)
    PROVE  KeyInv'
<1>1. /\ Go(a, "store")
      /\ op' = [op EXCEPT ![a] = o]
      /\ snap' = [snap EXCEPT ![a] = Snapshot]
      /\ UNCHANGED <<active, row, handed, kiro, calls, failures>>
      /\ Begin(a)
  BY DEF Load, core
<1>2. "store" \in Places /\ o \in Operations /\ o # "create" /\ Snapshot \in Seen
  BY InvParts, SnapshotType, KeySyncAssumption DEF Places, Operations
<1>3. KeepsRow(row')
  BY <1>1, InvParts, RowKeeps
<1>4. active' \in BOOLEAN
  BY <1>1, InvParts
<1>5. QED
  BY <1>1, <1>2, <1>3, <1>4, BeginCounts, GoMoves

LEMMA StepSuspend ==
    ASSUME KeyInv, NEW a \in Handlers, Suspend(a)
    PROVE  KeyInv'
<1>1. /\ Go(a, "read")
      /\ op' = [op EXCEPT ![a] = "suspend"]
      /\ UNCHANGED <<handed, kiro, snap, calls, failures>>
      /\ Begin(a)
      /\ row' = SuspendedRow
      /\ active' \in BOOLEAN
  BY DEF Suspend
<1>2. a \in Actors /\ "read" \in Places /\ "suspend" \in Kinds \cap Operations /\ snap[a] \in Seen
  BY InvParts DEF Suspend, Places, Operations, Actors
<1>3. snap' = [snap EXCEPT ![a] = snap[a]]
  BY <1>1, InvParts
<1>4. KeepsRow(row')
  BY <1>1, InvParts, SuspendedKeeps
<1>5. at[a] # "waiting"
  BY <1>1, BeginCounts
<1>6. requests' \in 0 .. MaxRequests /\ requests <= requests' /\ requests' > 0
  BY <1>1, BeginCounts
<1>7. QED
  BY <1>1, <1>2, <1>3, <1>4, <1>5, <1>6, GoMoves

LEMMA StepReactivate ==
    ASSUME KeyInv, NEW a \in Handlers, Reactivate(a)
    PROVE  KeyInv'
<1>1. /\ UNCHANGED <<row, handed, kiro, at, op, snap, calls, failures>>
      /\ Begin(a)
      /\ active' \in BOOLEAN
  BY DEF Reactivate, actors
<1>2. /\ a \in Actors /\ requests' \in 0 .. MaxRequests /\ requests <= requests'
      /\ requests' > 0
  BY <1>1, BeginCounts
<1>3. KeepsRow(row')
  BY <1>1, InvParts, RowKeeps
<1>4. /\ at' \in [Actors -> Places] /\ op' \in [Actors -> Operations]
      /\ snap' \in [Actors -> Seen] /\ failures' \in 0 .. MaxFailures
  BY <1>1, InvParts
<1>5. /\ op'[a] = "create" => /\ op[a] = "create"
                              /\ at'[a] \in {"waiting", "failed", "gone", "unusable"}
                                    \/ (at'[a] = at[a] /\ at[a] = "ok")
      /\ op'[a] \in {"revoke", "remove"} /\ at'[a] # "store" => Gone'
      /\ at'[a] \in {"store", "read"} => op'[a] \in Kinds
  BY <1>1, <1>2 DEF KeyInv, CallsAwaited, CreationAlone, RemovalsOnlyOfRevoked, Gone
<1>6. QED
  BY <1>1, <1>2, <1>3, <1>4, <1>5, ActorMoves

LEMMA StepStoreUpdate ==
    ASSUME KeyInv, NEW a \in Handlers, StoreUpdate(a)
    PROVE  KeyInv'
<1>1. /\ at[a] = "store" /\ Go(a, "read") /\ op[a] \in {"edit", "quota"}
      /\ UNCHANGED <<active, handed, kiro, op, snap, calls, requests, failures>>
  BY DEF StoreUpdate
<1>2. a \in Actors /\ "read" \in Places /\ op[a] \in Operations /\ snap[a] \in Seen
  BY InvParts DEF Actors, Places
<1>3. op' = [op EXCEPT ![a] = op[a]] /\ snap' = [snap EXCEPT ![a] = snap[a]]
  BY <1>1, InvParts
<1>4. KeepsRow(row')
  <2>1. row.enabled \in OnOff
    BY InvParts DEF RowOK
  <2>2. QED
    BY <2>1, InvParts, UpdatedKeeps DEF StoreUpdate
<1>5. /\ active' \in BOOLEAN
      /\ requests' \in 0 .. MaxRequests /\ requests <= requests' /\ requests' > 0
  BY <1>1, <1>2, InvParts, SomethingRequested
<1>6. QED
  <2>1. op[a] \in Kinds /\ op[a] \notin {"create", "revoke", "remove"}
    BY <1>1, <1>2 DEF KeyInv, CallsAwaited
  <2>2. at[a] # "waiting"
    BY <1>1
  <2> DEFINE o == op[a]
             s == snap[a]
  <2>3. o \in Operations /\ s \in Seen /\ op' = [op EXCEPT ![a] = o]
        /\ snap' = [snap EXCEPT ![a] = s]
    BY <1>2, <1>3
  <2>4. o \in Kinds /\ o \notin {"create", "revoke", "remove"}
    BY <2>1
  <2> HIDE DEF o, s
  <2>5. QED
    BY <1>1, <1>2, <1>4, <1>5, <2>2, <2>3, <2>4, GoMoves

LEMMA StepStoreRevoke ==
    ASSUME KeyInv, NEW a \in Handlers, StoreRevoke(a)
    PROVE  KeyInv'
<1>1. /\ a \in Actors /\ at[a] = "store" /\ op[a] = "revoke"
      /\ UNCHANGED <<active, handed, kiro, requests, failures>>
      /\ "ok" \in Places /\ op[a] \in Operations /\ snap[a] \in Seen
  BY InvParts DEF StoreRevoke, Actors, Places
<1>2. /\ requests' \in 0 .. MaxRequests /\ requests <= requests'
      /\ requests' > 0 /\ requests > 0
      /\ active' \in BOOLEAN /\ failures' \in 0 .. MaxFailures
  BY <1>1, InvParts, SomethingRequested
<1>3. CASE Live /\ row' = RevokedRow /\ snap[a].known /\ Send(a, "revoke", snap[a])
  <2>1. KeepsRow(row') /\ Gone'
    BY <1>3, InvParts, RevokedKeeps DEF Gone
  <2>2. "revoke" \in Operations \ {"none", "create"}
    BY <1>1
  <2>3. QED
    BY <1>1, <1>2, <1>3, <2>1, <2>2, SendMoves
<1>4. CASE Live /\ row' = RevokedRow /\ Go(a, "ok") /\ UNCHANGED <<op, snap, calls>>
  <2>1. KeepsRow(row') /\ Gone'
    BY <1>4, InvParts, RevokedKeeps DEF Gone
  <2>2. op' = [op EXCEPT ![a] = "revoke"] /\ snap' = [snap EXCEPT ![a] = snap[a]]
    BY <1>1, <1>4, InvParts
  <2>3. "ok" \notin {"store", "read"} /\ "revoke" # "create" /\ at[a] # "waiting"
        /\ "revoke" \in Operations
    BY <1>1
  <2> DEFINE s == snap[a]
  <2>4. s \in Seen /\ snap' = [snap EXCEPT ![a] = s]
    BY <1>1, <2>2
  <2> HIDE DEF s
  <2>5. QED
    BY <1>1, <1>2, <1>4, <2>1, <2>2, <2>3, <2>4, GoMoves
<1>5. CASE Finish(a) /\ UNCHANGED <<row, calls>>
  <2>1. KeepsRow(row')
    BY <1>5, InvParts, RowKeeps
  <2>2. QED
    BY <1>1, <1>2, <1>5, <2>1, FinishMoves
<1>6. QED
  BY <1>3, <1>4, <1>5 DEF StoreRevoke

LEMMA StepReadForPush ==
    ASSUME KeyInv, NEW a \in Handlers, ReadForPush(a)
    PROVE  KeyInv'
<1>1. /\ a \in Actors /\ at[a] = "read"
      /\ UNCHANGED <<active, row, handed, kiro, requests, failures>>
  BY DEF ReadForPush, Actors, core
<1>2. KeepsRow(row') /\ failures' \in 0 .. MaxFailures
  BY <1>1, InvParts, RowKeeps
<1>3. CASE Finish(a) /\ UNCHANGED calls
  BY <1>1, <1>2, <1>3, FinishMoves
<1>4. CASE Send(a, op[a], Snapshot)
  <2>1. op[a] \in Operations /\ Snapshot \in Seen
    BY <1>1, InvParts, SnapshotType
  <2>2. op[a] \in Kinds /\ op[a] \notin {"none", "create"}
    BY <1>1, KeySyncAssumption DEF KeyInv, CallsAwaited
  <2>3. op[a] \in {"revoke", "remove"} => Gone'
    BY <1>1 DEF KeyInv, RemovalsOnlyOfRevoked, Gone
  <2>4. requests > 0
    BY <1>1, <2>2, SomethingRequested
  <2>5. QED
    BY <1>1, <1>2, <1>4, <2>1, <2>2, <2>3, <2>4, SendMoves
<1>5. QED
  BY <1>3, <1>4 DEF ReadForPush

LEMMA StepRequestFails ==
    ASSUME KeyInv, NEW a \in Handlers, RequestFails(a)
    PROVE  KeyInv'
<1>1. /\ a \in Actors /\ at[a] # "waiting" /\ Finish(a)
      /\ UNCHANGED <<active, row, handed, kiro, calls, requests, failures>>
  BY DEF RequestFails, Actors, core
<1>2. KeepsRow(row') /\ failures' \in 0 .. MaxFailures
  BY <1>1, InvParts, RowKeeps
<1>3. QED
  BY <1>1, <1>2, FinishMoves

LEMMA StepClaim ==
    ASSUME KeyInv, Claim
    PROVE  KeyInv'
<1> DEFINE o == IF row.state = "delete_pending" THEN "remove" ELSE "push"
<1>1. /\ Syncer \in Actors /\ at[Syncer] = "idle"
      /\ UNCHANGED <<active, row, handed, kiro, requests, failures>>
      /\ \/ Send(Syncer, o, Snapshot)
         \/ /\ Go(Syncer, IF o = "remove" THEN "ok" ELSE "failed")
            /\ op' = [op EXCEPT ![Syncer] = o]
            /\ snap' = [snap EXCEPT ![Syncer] = Snapshot]
            /\ UNCHANGED calls
      /\ requests > 0 /\ requests' > 0
  BY SomethingRequested DEF Claim, Idle, Actors, core
<1>2. /\ o \in Operations \ {"none", "create"} /\ o \in {"push", "remove"}
      /\ o \in {"revoke", "remove"} => Gone'
  BY <1>1 DEF Operations, KeyInv, RemovalsOnlyOfRevoked, Gone
<1>3. KeepsRow(row') /\ Snapshot \in Seen
  BY <1>1, InvParts, RowKeeps, SnapshotType
<1> HIDE DEF o
<1>4. CASE Send(Syncer, o, Snapshot)
  BY <1>1, <1>2, <1>3, <1>4, SendMoves
<1>5. CASE /\ Go(Syncer, IF o = "remove" THEN "ok" ELSE "failed")
           /\ op' = [op EXCEPT ![Syncer] = o]
           /\ snap' = [snap EXCEPT ![Syncer] = Snapshot]
           /\ UNCHANGED calls
  <2> DEFINE p == IF o = "remove" THEN "ok" ELSE "failed"
  <2>1. p \in Places /\ p \notin {"store", "read"} /\ Go(Syncer, p)
    BY <1>5 DEF Places
  <2>2. active' \in BOOLEAN /\ requests' \in 0 .. MaxRequests /\ requests <= requests'
    BY <1>1, InvParts
  <2> HIDE DEF p
  <2>3. QED
    BY <1>1, <1>2, <1>3, <1>5, <2>1, <2>2, GoMoves
<1>6. QED
  BY <1>1, <1>4, <1>5

LEMMA StepRetireStaleKey ==
    ASSUME KeyInv, RetireStaleKey
    PROVE  KeyInv'
<1>1. /\ Syncer \in Actors /\ at[Syncer] = "idle"
      /\ UNCHANGED <<active, handed, kiro, at, op, snap, calls, requests>>
      /\ Write(UnusableRow) /\ requests' > 0
  BY SomethingRequested DEF RetireStaleKey, Live, Idle, Actors, actors
<1>2. failures' \in 0 .. MaxFailures /\ KeepsRow(row')
  BY <1>1, InvParts, WriteCounts, UnusableKeeps, RowKeeps
<1>3. /\ op'[Syncer] = "create" => /\ op[Syncer] = "create"
                                   /\ at'[Syncer] \in {"waiting", "failed", "gone", "unusable"}
                                         \/ (at'[Syncer] = at[Syncer] /\ at[Syncer] = "ok")
      /\ op'[Syncer] \in {"revoke", "remove"} /\ at'[Syncer] # "store" => Gone'
      /\ at'[Syncer] \in {"store", "read"} => op'[Syncer] \in Kinds
  BY <1>1, <1>2 DEF KeyInv, CreationAlone, RemovalsOnlyOfRevoked, Gone, KeepsRow
<1>4. /\ at' \in [Actors -> Places] /\ op' \in [Actors -> Operations]
      /\ snap' \in [Actors -> Seen] /\ active' \in BOOLEAN
      /\ requests' \in 0 .. MaxRequests /\ requests <= requests'
  BY <1>1, InvParts
<1>5. QED
  BY <1>1, <1>2, <1>3, <1>4, ActorMoves

LEMMA StepMarkSyncFailed ==
    ASSUME KeyInv, NEW a \in Actors, MarkSyncFailed(a)
    PROVE  KeyInv'
<1> DEFINE s == IF op[a] \in {"revoke", "remove"} THEN "delete_pending" ELSE "failed"
<1>1. /\ at[a] # "waiting" /\ at[a] # "store" /\ Finish(a) /\ Write(FailedRow(s))
      /\ UNCHANGED <<active, handed, kiro, calls, requests>>
  BY DEF MarkSyncFailed
<1>2. s \in Unsynced /\ (s = "delete_pending" => Gone)
  BY <1>1 DEF Unsynced, KeyInv, RemovalsOnlyOfRevoked
<1> HIDE DEF s
<1>3. failures' \in 0 .. MaxFailures /\ KeepsRow(row')
  BY <1>1, <1>2, InvParts, WriteCounts, FailedKeeps, RowKeeps
<1>4. QED
  BY <1>1, <1>3, FinishMoves

LEMMA StepMarkRemoved ==
    ASSUME KeyInv, NEW a \in Actors, MarkRemoved(a)
    PROVE  KeyInv'
<1>1. /\ at[a] # "waiting" /\ Finish(a) /\ Write(RemovedRow)
      /\ UNCHANGED <<active, handed, kiro, calls, requests>>
  BY DEF MarkRemoved
<1>2. failures' \in 0 .. MaxFailures /\ KeepsRow(row')
  BY <1>1, InvParts, WriteCounts, RemovedKeeps, RowKeeps
<1>3. QED
  BY <1>1, <1>2, FinishMoves

LEMMA StepMarkUnusable ==
    ASSUME KeyInv, NEW a \in Actors, MarkUnusable(a)
    PROVE  KeyInv'
<1>1. /\ at[a] # "waiting" /\ Finish(a) /\ Write(UnusableRow)
      /\ UNCHANGED <<active, handed, kiro, calls, requests>>
  BY DEF MarkUnusable
<1>2. failures' \in 0 .. MaxFailures /\ KeepsRow(row')
  BY <1>1, InvParts, WriteCounts, UnusableKeeps, RowKeeps
<1>3. QED
  BY <1>1, <1>2, FinishMoves

\* The one step that hands the key out: its entry is in the data plane, or the
\* key was revoked meanwhile.
LEMMA StepMarkSynced ==
    ASSUME KeyInv, NEW a \in Actors, MarkSynced(a)
    PROVE  KeyInv'
<1>1. /\ at[a] = "ok" /\ Finish(a) /\ Write(SyncedRow)
      /\ UNCHANGED <<active, kiro, calls, requests>>
      /\ handed' = (handed \/ op[a] = "create")
  BY DEF MarkSynced
<1>2. failures' \in 0 .. MaxFailures /\ KeepsRow(row')
  BY <1>1, InvParts, WriteCounts, SyncedKeeps, RowKeeps
<1>3. CASE op[a] # "create"
  <2>1. handed' = handed
    BY <1>1, <1>3, InvParts
  <2>2. QED
    BY <1>1, <1>2, <2>1, FinishMoves
<1>4. CASE op[a] = "create"
  <2>1. /\ at' = [at EXCEPT ![a] = "idle"]
        /\ op' = [op EXCEPT ![a] = "none"]
        /\ snap' = [snap EXCEPT ![a] = NoSnap]
        /\ handed' = TRUE
    BY <1>1, <1>4 DEF Finish, Go
  <2>2. /\ row.there /\ (row.revoked \/ InPlace) /\ requests > 0
        /\ \A b \in Actors \ {a} : op[b] # "create"
    BY <1>1, <1>4 DEF KeyInv, CreationAlone
  <2>3. /\ at' \in [Actors -> Places] /\ op' \in [Actors -> Operations]
        /\ snap' \in [Actors -> Seen]
        /\ op'[a] = "none" /\ at'[a] = "idle"
        /\ \A b \in Actors \ {a} : at'[b] = at[b] /\ op'[b] = op[b]
    BY <2>1, InvParts, SnapshotType DEF Places, Operations
  <2>4. /\ RowOK(row') /\ row'.there = row.there /\ (row.revoked => row'.revoked)
        /\ (Gone => Gone')
    BY <1>2 DEF KeepsRow, Gone
  <2>5. KeyTypeOK'
    BY <1>1, <1>2, <2>1, <2>3, <2>4, InvParts DEF KeyTypeOK, RowOK, Places, Operations, Entries, kiro
  <2>6. CallsAwaited'
    <3>1. Nobody \notin Actors
      BY KeySyncAssumption DEF Actors, Syncer, Nobody
    <3>2. QED
      BY <1>1, <2>3, <3>1 DEF KeyInv, CallsAwaited
  <2>7. CreationAlone'
    BY <1>1, <2>2, <2>3, <2>4 DEF CreationAlone
  <2>8. RemovalsOnlyOfRevoked'
    BY <1>1, <2>3, <2>4 DEF KeyInv, RemovalsOnlyOfRevoked, RowOK
  <2>9. HandedKeyKept'
    BY <1>1, <2>2, <2>4 DEF HandedKeyKept, InPlace, kiro
  <2>10. QED
    BY <2>5, <2>6, <2>7, <2>8, <2>9 DEF KeyInv
<1>5. QED
  BY <1>3, <1>4

LEMMA StepCreateKey ==
    ASSUME KeyInv, NEW a \in Handlers, CreateKey(a)
    PROVE  KeyInv'
<1>1. /\ a \in Actors /\ at[a] = "idle" /\ requests = 0 /\ requests' > 0
      /\ requests' \in 0 .. MaxRequests
      /\ row' = [NoRow EXCEPT !.there = TRUE, !.enabled = "on", !.state = "pending"]
      /\ at' = [at EXCEPT ![a] = "waiting"]
      /\ op' = [op EXCEPT ![a] = "create"]
      /\ snap' = [snap EXCEPT ![a] = NoSnap]
      /\ calls' = calls \cup {[from |-> a, req |-> Request("create", NoSnap)]}
      /\ UNCHANGED <<active, handed, kiro, failures>>
  BY BeginCounts DEF CreateKey, Send, Go
<1>2. row = NoRow /\ ~ handed /\ calls = {} /\ \A b \in Actors : op[b] = "none"
  BY <1>1 DEF KeyInv, CreationAlone, HandedKeyKept, NoRow
<1>3. /\ RowOK(row') /\ row'.there /\ ~ row'.revoked
  BY <1>1 DEF RowOK, NoRow, OnOff, Unsynced
<1>4. /\ at' \in [Actors -> Places] /\ op' \in [Actors -> Operations]
      /\ snap' \in [Actors -> Seen]
      /\ op'[a] = "create" /\ at'[a] = "waiting"
      /\ \A b \in Actors \ {a} : at'[b] = at[b] /\ op'[b] = op[b]
  BY <1>1, InvParts, SnapshotType DEF Places, Operations
<1>5. Nobody \notin Actors
  BY KeySyncAssumption DEF Actors, Syncer, Nobody
<1>6. /\ Request("create", NoSnap) \in Requested
      /\ Request("create", NoSnap).op = "create"
  BY RequestIs, InvParts, SnapshotType
<1>7. KeyTypeOK'
  BY <1>1, <1>3, <1>4, InvParts DEF KeyTypeOK, RowOK, Places, Operations, Entries, kiro
<1>8. CallsAwaited'
  <2>1. \A c \in calls : c.from # a
    BY <1>1, <1>5 DEF KeyInv, CallsAwaited
  <2>2. calls' \subseteq [from : Actors \cup {Nobody}, req : Requested]
    BY <1>1, <1>6 DEF KeyInv, CallsAwaited
  <2>3. \A c \in calls' : c.from # Nobody => at'[c.from] = "waiting"
    BY <1>1, <1>4, <1>5, <2>1 DEF KeyInv, CallsAwaited
  <2>4. \A c, d \in calls' : c.from = d.from /\ c.from # Nobody => c = d
    BY <1>1, <2>1 DEF KeyInv, CallsAwaited
  <2>5. \A b \in Actors : at'[b] \in {"store", "read"} => op'[b] \in Kinds
    BY <1>4 DEF KeyInv, CallsAwaited
  <2>6. QED
    BY <2>2, <2>3, <2>4, <2>5 DEF CallsAwaited
<1>9. CreationAlone'
  BY <1>1, <1>2, <1>3, <1>4 DEF CreationAlone
<1>10. RemovalsOnlyOfRevoked'
  BY <1>1, <1>2, <1>3, <1>4, <1>6 DEF RemovalsOnlyOfRevoked, RowOK
<1>11. HandedKeyKept'
  BY <1>1, <1>2 DEF HandedKeyKept
<1>12. QED
  BY <1>7, <1>8, <1>9, <1>10, <1>11 DEF KeyInv

\* The roll-back of the creation is the only statement that removes the row,
\* and the key has not been handed out.
LEMMA StepRollBack ==
    ASSUME KeyInv, NEW a \in Actors, RollBack(a)
    PROVE  KeyInv'
<1>1. /\ at[a] = "failed" /\ op[a] = "create"
      /\ UNCHANGED <<active, handed, kiro, calls, requests>>
      /\ \/ row' = DeletedRow /\ Finish(a) /\ UNCHANGED failures
         \/ /\ failures < MaxFailures /\ failures' = failures + 1
            /\ Go(a, "unusable")
            /\ UNCHANGED <<row, op, snap>>
  BY DEF RollBack
<1>2. requests > 0 /\ ~ handed /\ \A b \in Actors \ {a} : op[b] # "create"
  BY <1>1 DEF KeyInv, CreationAlone
<1>3. CASE row' = DeletedRow /\ Finish(a) /\ UNCHANGED failures
  <2>1. CASE row' = row
    BY <1>1, <1>3, <2>1, InvParts, RowKeeps, FinishMoves
  <2>2. CASE row' = NoRow
    <3>1. /\ at' = [at EXCEPT ![a] = "idle"]
          /\ op' = [op EXCEPT ![a] = "none"]
          /\ snap' = [snap EXCEPT ![a] = NoSnap]
      BY <1>3 DEF Finish, Go
    <3>2. /\ at' \in [Actors -> Places] /\ op' \in [Actors -> Operations]
          /\ snap' \in [Actors -> Seen]
          /\ op'[a] = "none" /\ at'[a] = "idle"
          /\ \A b \in Actors \ {a} : at'[b] = at[b] /\ op'[b] = op[b]
      BY <3>1, InvParts, SnapshotType DEF Places, Operations
    <3>3. RowOK(row') /\ Gone'
      BY <2>2, NoRowOK DEF Gone, NoRow
    <3>4. KeyTypeOK'
      BY <1>1, <1>3, <3>2, <3>3, InvParts DEF KeyTypeOK, RowOK, Places, Operations, Entries, kiro
    <3>5. CallsAwaited'
      <4>1. Nobody \notin Actors
        BY KeySyncAssumption DEF Actors, Syncer, Nobody
      <4>2. QED
        BY <1>1, <3>2, <4>1 DEF KeyInv, CallsAwaited
    <3>6. CreationAlone'
      BY <1>1, <1>2, <3>2 DEF CreationAlone
    <3>7. RemovalsOnlyOfRevoked'
      BY <3>3 DEF RemovalsOnlyOfRevoked, RowOK
    <3>8. HandedKeyKept'
      BY <1>1, <1>2 DEF HandedKeyKept
    <3>9. QED
      BY <3>4, <3>5, <3>6, <3>7, <3>8 DEF KeyInv
  <2>3. QED
    BY <1>3, <2>1, <2>2 DEF DeletedRow
<1>4. CASE /\ failures < MaxFailures /\ failures' = failures + 1
           /\ Go(a, "unusable")
           /\ UNCHANGED <<row, op, snap>>
  <2>1. /\ at' \in [Actors -> Places] /\ op' \in [Actors -> Operations]
        /\ snap' \in [Actors -> Seen]
        /\ op'[a] = "create" /\ at'[a] = "unusable"
        /\ \A b \in Actors \ {a} : at'[b] = at[b] /\ op'[b] = op[b]
        /\ failures' \in 0 .. MaxFailures
        /\ active' \in BOOLEAN
        /\ requests' \in 0 .. MaxRequests /\ requests <= requests' /\ requests' > 0
    BY <1>1, <1>2, <1>4, InvParts DEF Go, Places
  <2>2. KeepsRow(row')
    BY <1>4, InvParts, RowKeeps
  <2>3. QED
    BY <1>1, <2>1, <2>2, ActorMoves
<1>5. QED
  BY <1>1, <1>3, <1>4

\* The calls whose callers gave up are still those calls, but nobody's.
LEMMA AbandonedCalls ==
    ASSUME CallsAwaited, NEW gone \in SUBSET Actors, Abandon(gone)
    PROVE  /\ calls' \subseteq [from : Actors \cup {Nobody}, req : Requested]
           /\ \A d \in calls' : \E c \in calls :
                d.req = c.req /\ (d.from = Nobody \/ (d = c /\ c.from \notin gone))
           /\ calls = {} => calls' = {}
<1>1. calls' = {IF c.from \in gone THEN [c EXCEPT !.from = Nobody] ELSE c : c \in calls}
  BY DEF Abandon
<1>2. calls \subseteq [from : Actors \cup {Nobody}, req : Requested]
  BY DEF CallsAwaited
<1>3. ASSUME NEW d \in calls'
      PROVE  /\ d \in [from : Actors \cup {Nobody}, req : Requested]
             /\ \E c \in calls :
                  d.req = c.req /\ (d.from = Nobody \/ (d = c /\ c.from \notin gone))
  <2>1. PICK c \in calls : d = IF c.from \in gone THEN [c EXCEPT !.from = Nobody] ELSE c
    BY <1>1
  <2>2. c \in [from : Actors \cup {Nobody}, req : Requested]
    BY <1>2
  <2>3. CASE c.from \in gone
    <3>1. d = [c EXCEPT !.from = Nobody]
      BY <2>1, <2>3
    <3>2. d \in [from : Actors \cup {Nobody}, req : Requested]
          /\ d.req = c.req /\ d.from = Nobody
      BY <2>2, <3>1
    <3>3. QED
      BY <3>2
  <2>4. CASE c.from \notin gone
    BY <2>1, <2>2, <2>4
  <2>5. QED
    BY <2>3, <2>4
<1>4. QED
  BY <1>1, <1>3

\* Callers that give up: on their own after a timeout, or all in a crash.
LEMMA AbandonMoves ==
    ASSUME KeyInv, NEW gone \in SUBSET Actors, Abandon(gone),
           UNCHANGED <<core, kiro, requests>>,
           failures' \in 0 .. MaxFailures,
           at' \in [Actors -> Places], op' \in [Actors -> Operations],
           snap' \in [Actors -> Seen],
           \A b \in Actors \ gone : at'[b] = at[b] /\ op'[b] = op[b],
           \A b \in gone : \/ op'[b] = "none" /\ at'[b] = "idle"
                           \/ op'[b] = op[b] /\ at[b] = "waiting" /\ at'[b] = "failed"
    PROVE  KeyInv'
<1>1. /\ row' = row /\ active' = active /\ handed' = handed
      /\ Gone' = Gone /\ Nobody \notin Actors
      /\ CallsAwaited /\ CreationAlone /\ RemovalsOnlyOfRevoked /\ HandedKeyKept
  BY KeySyncAssumption DEF core, Gone, Actors, Syncer, Nobody, KeyInv
<1>2. /\ calls' \subseteq [from : Actors \cup {Nobody}, req : Requested]
      /\ \A d \in calls' : \E c \in calls :
           d.req = c.req /\ (d.from = Nobody \/ (d = c /\ c.from \notin gone))
      /\ calls = {} => calls' = {}
  BY <1>1, AbandonedCalls
<1>3. KeyTypeOK'
  BY <1>1, InvParts DEF KeyTypeOK, RowOK, Places, Operations, Entries, kiro
<1>4. CallsAwaited'
  <2>1. \A d \in calls' : d.from # Nobody => d \in calls /\ d.from \notin gone
    BY <1>2
  <2>2. \A c \in calls' : c.from # Nobody => at'[c.from] = "waiting"
    BY <1>1, <1>2, <2>1 DEF CallsAwaited
  <2>3. \A c, d \in calls' : c.from = d.from /\ c.from # Nobody => c = d
    BY <1>1, <2>1 DEF CallsAwaited
  <2>4. \A b \in Actors : at'[b] \in {"store", "read"} => op'[b] \in Kinds
    BY <1>1 DEF CallsAwaited
  <2>5. QED
    BY <1>2, <2>2, <2>3, <2>4 DEF CallsAwaited
<1>5. CreationAlone'
  <2>1. \A b \in Actors : op'[b] = "create" => op[b] = "create"
    OBVIOUS
  <2>2. \A b \in Actors : op[b] = "none" => op'[b] = "none"
    OBVIOUS
  <2>3. \A b \in Actors : op'[b] = "create" =>
           /\ at'[b] \in {"waiting", "ok", "failed", "gone", "unusable"}
           /\ at'[b] = "ok" => at[b] = "ok"
    BY <1>1 DEF CreationAlone
  <2>4. QED
    BY <1>1, <1>2, <2>1, <2>2, <2>3 DEF CreationAlone, InPlace, kiro
<1>6. RemovalsOnlyOfRevoked'
  <2>1. \A d \in calls' : d.req.op = "delete" => Gone
    BY <1>1, <1>2 DEF RemovalsOnlyOfRevoked
  <2>2. \A b \in Actors : op'[b] \in {"revoke", "remove"} /\ at'[b] # "store" => Gone
    BY <1>1 DEF RemovalsOnlyOfRevoked
  <2>3. QED
    BY <1>1, <2>1, <2>2 DEF RemovalsOnlyOfRevoked
<1>7. HandedKeyKept'
  BY <1>1 DEF HandedKeyKept, kiro
<1>8. QED
  BY <1>3, <1>4, <1>5, <1>6, <1>7 DEF KeyInv

LEMMA StepTimeOut ==
    ASSUME KeyInv, NEW a \in Actors, TimeOut(a)
    PROVE  KeyInv'
<1>1. /\ at[a] = "waiting" /\ at' = [at EXCEPT ![a] = "failed"]
      /\ Abandon({a})
      /\ UNCHANGED <<core, kiro, op, snap, requests, failures>>
  BY DEF TimeOut, Go
<1>2. /\ at' \in [Actors -> Places] /\ op' \in [Actors -> Operations]
      /\ snap' \in [Actors -> Seen] /\ failures' \in 0 .. MaxFailures
      /\ at'[a] = "failed"
      /\ \A b \in Actors \ {a} : at'[b] = at[b] /\ op'[b] = op[b]
  BY <1>1, InvParts DEF Places
<1>3. QED
  BY <1>1, <1>2, AbandonMoves

LEMMA StepCoreCrashes ==
    ASSUME KeyInv, CoreCrashes
    PROVE  KeyInv'
<1>1. /\ at' = [a \in Actors |-> "idle"]
      /\ op' = [a \in Actors |-> "none"]
      /\ snap' = [a \in Actors |-> NoSnap]
      /\ Abandon(Actors)
      /\ UNCHANGED <<core, kiro, requests>>
      /\ failures' \in 0 .. MaxFailures
  BY InvParts DEF CoreCrashes
<1>2. /\ at' \in [Actors -> Places] /\ op' \in [Actors -> Operations]
      /\ snap' \in [Actors -> Seen]
  BY <1>1, InvParts, SnapshotType DEF Places, Operations
<1>3. QED
  BY <1>1, <1>2, AbandonMoves

-----------------------------------------------------------------------------
(* Steps of the network and of kiro-go. *)

\* A call that is lost, read, or executed: the entry of a key that is valid is
\* not taken away, and a caller told of success finds its entry.
LEMMA CallMoves ==
    ASSUME KeyInv, NEW c \in calls,
           UNCHANGED <<core, op, snap, requests>>, failures' \in 0 .. MaxFailures,
           remote' \in Entries, stored' \in Entries, unsaved' \in BOOLEAN,
           Live /\ InPlace => InPlace',
           \/ /\ UNCHANGED at
              /\ \/ calls' = calls \ {c}
                 \/ \E d : /\ d \in [from : Actors \cup {Nobody}, req : Requested]
                           /\ d.from = c.from /\ d.req.op # "delete"
                           /\ calls' = (calls \ {c}) \cup {d}
           \/ /\ c.from # Nobody /\ calls' = calls \ {c}
              /\ \E p \in {"ok", "failed", "gone"} :
                    /\ at' = [at EXCEPT ![c.from] = p]
                    /\ p = "ok" /\ Live => InPlace'
    PROVE  KeyInv'
<1>1. /\ row' = row /\ active' = active /\ handed' = handed
      /\ Gone' = Gone /\ Nobody \notin Actors
      /\ CallsAwaited /\ CreationAlone /\ RemovalsOnlyOfRevoked /\ HandedKeyKept
      /\ c \in [from : Actors \cup {Nobody}, req : Requested]
      /\ requests > 0 /\ requests \in Nat /\ op' = op
  BY KeySyncAssumption, InvParts
     DEF core, Gone, Actors, Syncer, Nobody, KeyInv, CallsAwaited, CreationAlone
<1>2. /\ at' \in [Actors -> Places]
      /\ \A b \in Actors : \/ at'[b] = at[b]
                           \/ /\ b = c.from /\ at'[b] \in {"ok", "failed", "gone"}
                              /\ calls' = calls \ {c}
                              /\ at'[b] = "ok" /\ Live => InPlace'
  BY <1>1, InvParts DEF Places
<1>3. KeyTypeOK'
  BY <1>1, <1>2, InvParts DEF KeyTypeOK, RowOK, Places, Operations, Entries
<1>4. CallsAwaited'
  <2>1. /\ calls' \subseteq [from : Actors \cup {Nobody}, req : Requested]
        /\ \A d \in calls' : d \in calls \ {c} \/ (d.from = c.from /\ UNCHANGED at)
        /\ \A d, e \in calls' : d = e \/ d \in calls \ {c} \/ e \in calls \ {c}
    BY <1>1 DEF CallsAwaited
  <2>2. \A d \in calls \ {c} : d.from # Nobody => d.from # c.from
    BY <1>1 DEF CallsAwaited
  <2>3. \A d \in calls' : d.from # Nobody => at'[d.from] = "waiting"
    BY <1>1, <1>2, <2>1, <2>2 DEF CallsAwaited
  <2>4. \A d, e \in calls' : d.from = e.from /\ d.from # Nobody => d = e
    BY <1>1, <2>1, <2>2 DEF CallsAwaited
  <2>5. \A b \in Actors : at'[b] \in {"store", "read"} => op'[b] \in Kinds
    BY <1>1, <1>2 DEF CallsAwaited
  <2>6. QED
    BY <2>1, <2>3, <2>4, <2>5 DEF CallsAwaited
<1>5. CreationAlone'
  <2>1. ASSUME NEW a \in Actors, op'[a] = "create"
        PROVE  /\ row.there /\ ~ handed
               /\ at'[a] \in {"waiting", "ok", "failed", "gone", "unusable"}
               /\ at'[a] = "ok" => row.revoked \/ InPlace'
               /\ \A b \in Actors : op'[b] = "create" => a = b
    <3>1. /\ row.there /\ ~ handed
          /\ at[a] \in {"waiting", "ok", "failed", "gone", "unusable"}
          /\ at[a] = "ok" => row.revoked \/ InPlace
          /\ \A b \in Actors : op[b] = "create" => a = b
      BY <1>1, <2>1 DEF CreationAlone
    <3>2. QED
      BY <1>1, <1>2, <3>1 DEF Live
  <2>2. QED
    BY <1>1, <2>1 DEF CreationAlone
<1>6. RemovalsOnlyOfRevoked'
  <2>1. \A d \in calls' : d.req.op = "delete" => Gone
    BY <1>1 DEF RemovalsOnlyOfRevoked
  <2>2. \A b \in Actors : op'[b] \in {"revoke", "remove"} /\ at'[b] # "store" => Gone
    <3>1. \A b \in Actors : at[b] = "store" => at'[b] = "store"
      BY <1>1, <1>2 DEF CallsAwaited
    <3>2. QED
      BY <1>1, <3>1 DEF RemovalsOnlyOfRevoked
  <2>3. QED
    BY <1>1, <2>1, <2>2 DEF RemovalsOnlyOfRevoked
<1>7. HandedKeyKept'
  BY <1>1 DEF HandedKeyKept, Live, InPlace
<1>8. QED
  BY <1>3, <1>4, <1>5, <1>6, <1>7 DEF KeyInv

LEMMA StepLoseCall ==
    ASSUME KeyInv, NEW c \in calls, LoseCall(c)
    PROVE  KeyInv'
BY InvParts, CallMoves DEF LoseCall, actors, kiro, InPlace

\* A patch becomes the overwriting of the whole entry.
LEMMA StepPatch ==
    ASSUME KeyInv, NEW c \in calls, Patch(c)
    PROVE  KeyInv'
<1>1. /\ UNCHANGED <<core, kiro, op, snap, requests, failures>>
      /\ c.req.op = "update"
      /\ remote' \in Entries /\ stored' \in Entries /\ unsaved' \in BOOLEAN
      /\ failures' \in 0 .. MaxFailures
      /\ InPlace => InPlace'
  BY InvParts DEF Patch, kiro, InPlace
<1>2. CASE /\ remote.there /\ UNCHANGED at
           /\ calls' = (calls \ {c}) \cup
                {[c EXCEPT !.req.op = "overwrite",
                           !.req.enabled = IF @ = "keep" THEN remote.enabled ELSE @,
                           !.req.name = IF @ = "keep" THEN remote.name ELSE @]}
  <2> DEFINE d == [c EXCEPT !.req.op = "overwrite",
                            !.req.enabled = IF @ = "keep" THEN remote.enabled ELSE @,
                            !.req.name = IF @ = "keep" THEN remote.name ELSE @]
             e == IF c.req.enabled = "keep" THEN remote.enabled ELSE c.req.enabled
             n == IF c.req.name = "keep" THEN remote.name ELSE c.req.name
  <2>1. c \in [from : Actors \cup {Nobody}, req : Requested]
    BY DEF KeyInv, CallsAwaited
  <2>2. e \in OnOff /\ n \in {"tag", "own"}
    BY <2>1, InvParts DEF Requested, OnOff, Entries
  <2> DEFINE q == c.req
             z == [q EXCEPT !.op = "overwrite", !.enabled = e, !.name = n]
  <2>3. d = [c EXCEPT !.req = z]
    BY <2>1
  <2>4. q \in [op : {"update"}, enabled : OnOff \cup {"keep"}, name : {"tag", "own", "keep"}]
    BY <1>1, <2>1 DEF Requested
  <2> HIDE DEF d, e, n, q
  <2>5. z \in [op : {"overwrite"}, enabled : {e}, name : {n}]
    BY <2>4
  <2> HIDE DEF z
  <2>6. d \in [from : Actors \cup {Nobody}, req : Requested]
        /\ d.from = c.from /\ d.req.op # "delete"
    <3>1. z \in Requested /\ z.op # "delete"
      BY <2>2, <2>5 DEF Requested, OnOff
    <3>2. QED
      BY <2>1, <2>3, <3>1
  <2>7. calls' = (calls \ {c}) \cup {d}
    BY <1>2 DEF d
  <2>8. QED
    BY <1>1, <1>2, <2>6, <2>7, CallMoves
<1>3. CASE calls' = calls \ {c} /\ UNCHANGED at
  BY <1>1, <1>3, CallMoves
<1>4. CASE calls' = calls \ {c} /\ c.from # Nobody /\ at' = [at EXCEPT ![c.from] = "gone"]
  BY <1>1, <1>4, CallMoves
<1>5. QED
  BY <1>2, <1>3, <1>4 DEF Patch, Reply, NoReply, Go

\* What a call leaves of the entry is an entry.
LEMMA EffectIs ==
    ASSUME KeyInv, NEW c \in calls, c.req.op # "update"
    PROVE  /\ c \in [from : Actors \cup {Nobody}, req : Requested]
           /\ c.req.op = "delete" => ~ Live
           /\ Effect(c.req) \in Entries
           /\ Effect(c.req).there \/ ~ Live
<1>1. /\ c \in [from : Actors \cup {Nobody}, req : Requested]
      /\ c.req.op = "delete" => ~ Live
  BY DEF KeyInv, CallsAwaited, RemovalsOnlyOfRevoked, Gone, Live
<1>2. QED
  BY <1>1 DEF Effect, Requested, NoEntry, OnOff, Entries

LEMMA StepExecute ==
    ASSUME KeyInv, NEW c \in calls, Execute(c)
    PROVE  KeyInv'
<1>1. /\ UNCHANGED <<core, op, snap, requests>>
      /\ failures' \in 0 .. MaxFailures /\ unsaved' \in BOOLEAN
      /\ calls' = calls \ {c}
      /\ c.req.op # "update"
  BY InvParts DEF Execute
<1>2. /\ c.req.op = "delete" => ~ Live
      /\ Effect(c.req) \in Entries
      /\ Effect(c.req).there \/ ~ Live
  BY <1>1, EffectIs
<1>3. CASE remote' = Effect(c.req) /\ stored' = remote' /\ (NoReply \/ Reply(c, "ok"))
  <2>1. remote' \in Entries /\ stored' \in Entries /\ (Live => InPlace')
    BY <1>2, <1>3 DEF InPlace
  <2>2. CASE NoReply
    BY <1>1, <2>1, <2>2, CallMoves DEF NoReply
  <2>3. CASE Reply(c, "ok")
    BY <1>1, <2>1, <2>3, CallMoves DEF Reply, Go
  <2>4. QED
    BY <1>3, <2>2, <2>3
<1>4. CASE /\ UNCHANGED <<remote, stored>>
           /\ NoReply \/ Reply(c, IF c.req.op = "delete" THEN "ok" ELSE "failed")
  <2>1. remote' \in Entries /\ stored' \in Entries /\ (InPlace => InPlace')
    BY <1>4, InvParts DEF InPlace
  <2>2. CASE NoReply
    BY <1>1, <2>1, <2>2, CallMoves DEF NoReply
  <2>3. CASE Reply(c, "failed")
    BY <1>1, <2>1, <2>3, CallMoves DEF Reply, Go
  <2>4. CASE Reply(c, "ok") /\ ~ Live
    BY <1>1, <2>1, <2>4, CallMoves DEF Reply, Go
  <2>5. QED
    BY <1>2, <1>4, <2>2, <2>3, <2>4
<1>5. QED
  BY <1>3, <1>4 DEF Execute

\* A failed save leaves the file as it was and the entry of a valid key there.
LEMMA StepExecuteUnsaved ==
    ASSUME KeyInv, NEW c \in calls, ExecuteUnsaved(c)
    PROVE  KeyInv'
<1>1. /\ UNCHANGED <<core, op, snap, requests>>
      /\ failures' \in 0 .. MaxFailures
      /\ calls' = calls \ {c}
      /\ c.req.op # "update"
      /\ stored' = stored /\ stored \in Entries
      /\ remote' = IF c.req.op = "create" THEN remote ELSE Effect(c.req)
      /\ NoReply \/ Reply(c, "failed")
  BY InvParts DEF ExecuteUnsaved
<1>2. unsaved' \in BOOLEAN
  BY InvParts DEF ExecuteUnsaved
<1>3. remote' \in Entries /\ (Live /\ InPlace => InPlace')
  BY <1>1, EffectIs, InvParts DEF InPlace
<1>4. CASE NoReply
  BY <1>1, <1>2, <1>3, <1>4, CallMoves DEF NoReply
<1>5. CASE Reply(c, "failed")
  BY <1>1, <1>2, <1>3, <1>5, CallMoves DEF Reply, Go
<1>6. QED
  BY <1>1, <1>4, <1>5

\* A save of something else, and a restart: the entry in memory and the one in
\* the file become the same.
LEMMA KiroMoves ==
    ASSUME KeyInv, UNCHANGED <<core, at, op, snap, requests>>,
           failures' \in 0 .. MaxFailures,
           remote' \in Entries, stored' \in Entries, unsaved' \in BOOLEAN,
           InPlace => InPlace', calls' \subseteq calls
    PROVE  KeyInv'
<1>1. /\ row' = row /\ active' = active /\ handed' = handed /\ Gone' = Gone
      /\ CallsAwaited /\ CreationAlone /\ RemovalsOnlyOfRevoked /\ HandedKeyKept
  BY DEF core, Gone, KeyInv
<1>2. KeyTypeOK'
  BY <1>1, InvParts DEF KeyTypeOK, RowOK, Places, Operations, Entries
<1>3. CallsAwaited'
  BY <1>1 DEF CallsAwaited
<1>4. CreationAlone'
  BY <1>1 DEF CreationAlone
<1>5. RemovalsOnlyOfRevoked'
  BY <1>1 DEF RemovalsOnlyOfRevoked
<1>6. HandedKeyKept'
  BY <1>1 DEF HandedKeyKept, InPlace
<1>7. QED
  BY <1>2, <1>3, <1>4, <1>5, <1>6 DEF KeyInv

LEMMA StepSaveOther == KeyInv /\ SaveOther => KeyInv'
BY InvParts, KiroMoves DEF SaveOther, actors, InPlace

LEMMA StepKiroRestarts == KeyInv /\ KiroRestarts => KeyInv'
<1> SUFFICES ASSUME KeyInv, KiroRestarts
             PROVE  KeyInv'
  OBVIOUS
<1>1. /\ UNCHANGED <<core, at, op, snap, requests>>
      /\ failures' \in 0 .. MaxFailures
      /\ remote' \in Entries /\ stored' \in Entries /\ unsaved' \in BOOLEAN
      /\ InPlace => InPlace'
      /\ calls' \subseteq calls
  BY InvParts DEF KiroRestarts, actors, InPlace
<1>2. QED
  BY <1>1, KiroMoves

-----------------------------------------------------------------------------
(* The whole of it. *)

LEMMA InitKeyInv == Init => KeyInv
<1> SUFFICES ASSUME Init
             PROVE  KeyInv
  OBVIOUS
<1>1. KeyTypeOK
  <2>1. /\ NoRow \in [there : BOOLEAN, enabled : OnOff, revoked : BOOLEAN,
                     state : Unsynced \cup {"synced", "none"}, known : BOOLEAN,
                     parked : BOOLEAN]
        /\ ~ NoRow.parked
    BY DEF NoRow, OnOff, Unsynced
  <2>2. NoEntry \in [there : BOOLEAN, enabled : OnOff, name : {"tag", "own"}]
    BY DEF NoEntry, OnOff
  <2>3. NoSnap \in Seen
    BY DEF NoSnap, Seen, OnOff
  <2>4. 0 \in 0 .. MaxRequests /\ 0 \in 0 .. MaxFailures
    BY KeySyncAssumption
  <2>5. QED
    BY <2>1, <2>2, <2>3, <2>4 DEF Init, KeyTypeOK
<1>2. CallsAwaited
  BY DEF Init, CallsAwaited
<1>3. CreationAlone
  BY DEF Init, CreationAlone
<1>4. RemovalsOnlyOfRevoked
  BY DEF Init, RemovalsOnlyOfRevoked, NoRow
<1>5. HandedKeyKept
  BY DEF Init, HandedKeyKept
<1>6. QED
  BY <1>1, <1>2, <1>3, <1>4, <1>5 DEF KeyInv

LEMMA StutterKeeps ==
    ASSUME KeyInv, UNCHANGED vars
    PROVE  KeyInv'
<1>1. /\ active' = active /\ row' = row /\ handed' = handed /\ remote' = remote
      /\ stored' = stored /\ unsaved' = unsaved /\ at' = at /\ op' = op /\ snap' = snap /\ calls' = calls
      /\ requests' = requests /\ failures' = failures
  BY DEF vars, core, kiro, actors
<1>2. KeyTypeOK'
  BY <1>1 DEF KeyInv, KeyTypeOK
<1>3. CallsAwaited'
  BY <1>1 DEF KeyInv, CallsAwaited
<1>4. CreationAlone'
  BY <1>1 DEF KeyInv, CreationAlone, InPlace
<1>5. RemovalsOnlyOfRevoked'
  BY <1>1 DEF KeyInv, RemovalsOnlyOfRevoked, Gone
<1>6. HandedKeyKept'
  BY <1>1 DEF KeyInv, HandedKeyKept
<1>7. QED
  BY <1>2, <1>3, <1>4, <1>5, <1>6 DEF KeyInv

LEMMA KeyStep == KeyInv /\ [Next]_vars => KeyInv'
<1> SUFFICES ASSUME KeyInv, [Next]_vars
             PROVE  KeyInv'
  OBVIOUS
<1>1. ASSUME NEW a \in Handlers,
             \/ CreateKey(a)
             \/ \E o \in Kinds : Load(a, o)
             \/ StoreUpdate(a)
             \/ StoreRevoke(a)
             \/ Suspend(a)
             \/ Reactivate(a)
             \/ ReadForPush(a)
             \/ RequestFails(a)
      PROVE  KeyInv'
  BY <1>1, StepCreateKey, StepLoad, StepStoreUpdate, StepStoreRevoke, StepSuspend,
     StepReactivate, StepReadForPush, StepRequestFails
<1>2. CASE Claim
  BY <1>2, StepClaim
<1>3. CASE RetireStaleKey
  BY <1>3, StepRetireStaleKey
<1>4. ASSUME NEW a \in Actors,
             \/ TimeOut(a)
             \/ MarkSynced(a)
             \/ MarkSyncFailed(a)
             \/ MarkRemoved(a)
             \/ RollBack(a)
             \/ MarkUnusable(a)
      PROVE  KeyInv'
  BY <1>4, StepTimeOut, StepMarkSynced, StepMarkSyncFailed, StepMarkRemoved, StepRollBack,
     StepMarkUnusable
<1>5. CASE CoreCrashes
  BY <1>5, StepCoreCrashes
<1>6. ASSUME NEW c \in calls,
             LoseCall(c) \/ Patch(c) \/ Execute(c) \/ ExecuteUnsaved(c)
      PROVE  KeyInv'
  BY <1>6, StepLoseCall, StepPatch, StepExecute, StepExecuteUnsaved
<1>7. CASE SaveOther \/ KiroRestarts
  BY <1>7, StepSaveOther, StepKiroRestarts
<1>8. CASE UNCHANGED vars
  BY <1>8, StutterKeeps
<1>9. QED
  BY <1>1, <1>2, <1>3, <1>4, <1>5, <1>6, <1>7, <1>8 DEF Next

LEMMA KeyInvariant == Spec => []KeyInv
<1>1. Init => KeyInv
  BY InitKeyInv
<1>2. KeyInv /\ [Next]_vars => KeyInv'
  BY KeyStep
<1>3. QED
  BY <1>1, <1>2, PTL DEF Spec

\* The columns of the row and what kiro-go keeps have their types, and only a
\* revoked row is ever parked for a hundred years.
THEOREM KeyTypes == Spec => []KeyTypeOK
<1>1. KeyInv => KeyTypeOK
  BY DEF KeyInv
<1>2. QED
  BY <1>1, KeyInvariant, PTL

\* A key handleCreateKey returned to the customer keeps its row, and its entry
\* in the data plane until it is revoked: the roll-back belongs to a creation
\* that handed nothing out, and a removal to a key that is revoked.
THEOREM HandedKeysAreKept == Spec => []HandedKeyKept
<1>1. KeyInv => HandedKeyKept
  BY DEF KeyInv
<1>2. QED
  BY <1>1, KeyInvariant, PTL

\* The statements of store/apikeys.go that ask for revoked_at IS NULL, and those
\* that do not, never bring a revoked row back, whichever handler read it before.
THEOREM RevocationIsFinal == Spec => RevokedForGood
<1> DEFINE Final == row.revoked => row'.enabled = "off" /\ (row'.revoked \/ ~ row'.there)
<1>1. KeyInv /\ KeyInv' /\ [Next]_vars => [Final]_vars
  <2> SUFFICES ASSUME KeyInv, KeyInv', Next, row.revoked
               PROVE  row'.enabled = "off" /\ (row'.revoked \/ ~ row'.there)
    OBVIOUS
  <2>1. row'.revoked \/ row' = NoRow
    <3>1. RowOK(row) /\ RowOK(row')
      BY InvParts DEF KeyInv, KeyTypeOK, RemovalsOnlyOfRevoked, RowOK
    <3>2. row.there /\ requests # 0
      BY <3>1 DEF RowOK, NoRow, KeyInv, CreationAlone
    <3>3. row'.revoked \/ row' = NoRow
      <4>1. \/ row' = row
            \/ \E e \in {"on", "off", row.enabled} : row' = Updated(e)
            \/ row' \in {RevokedRow, SuspendedRow, SyncedRow, RemovedRow, UnusableRow,
                         DeletedRow}
            \/ \E s \in {"delete_pending", "failed"} : row' = FailedRow(s)
        BY <3>2
           DEF Next, CreateKey, Begin, Load, StoreUpdate, StoreRevoke, Suspend, Reactivate,
               ReadForPush, RequestFails, Claim, RetireStaleKey, TimeOut, MarkSynced,
               MarkSyncFailed, MarkRemoved, RollBack, MarkUnusable, CoreCrashes, LoseCall,
               Patch, Execute, ExecuteUnsaved, SaveOther, KiroRestarts, Write, core, actors,
               OnOff
      <4>2. QED
        BY <3>1, <3>2, <4>1
           DEF RowOK, Live, Updated, RevokedRow, SuspendedRow, SyncedRow, RemovedRow,
               UnusableRow, DeletedRow, FailedRow
    <3>4. QED
      BY <3>3
  <2>2. QED
    BY <2>1 DEF NoRow, KeyInv, RemovalsOnlyOfRevoked
<1>2. QED
  BY <1>1, KeyInvariant, PTL DEF Spec, RevokedForGood

(***************************************************************************)
(* The limiter.  The tokens of a set of admissions.                        *)
(***************************************************************************)
(* What the limiter records of a request it lets through.                  *)
AdmissionRecord == [id : KeyEntries \cup {NoOne}, at : Nat, since : Nat, tokens : Nat,
              limits : [rpm : Nat, tpm : Nat]]

(* A history is a function on 1..Len(q), and its tokens are numbers.       *)
LEMMA History ==
    ASSUME NEW q \in Seq(AdmissionRecord)
    PROVE  /\ Len(q) \in Nat /\ DOMAIN q = 1..Len(q)
           /\ \A i \in 1..Len(q) : q[i] \in AdmissionRecord /\ q[i].tokens \in Nat
<1>1. Len(q) \in Nat /\ DOMAIN q = 1..Len(q)
  BY LenProperties
<1>2. \A i \in 1..Len(q) : q[i] \in AdmissionRecord
  BY ElementOfSeq
<1> QED
  BY <1>1, <1>2 DEF AdmissionRecord

(* A set of admissions costs a number of tokens.                           *)
LEMMA TokensNat ==
    ASSUME NEW q \in Seq(AdmissionRecord), NEW S
    PROVE  TokensOf(q, S) \in Nat
<1>1. Len(q) \in Nat /\ DOMAIN q = 1..Len(q) /\ \A i \in 1..Len(q) : q[i].tokens \in Nat
  BY History
<1> DEFINE f == [i \in DOMAIN q |-> IF i \in S THEN q[i].tokens ELSE 0]
<1>2. \A i \in 1..Len(q) : f[i] \in Nat
  BY <1>1
<1> HIDE DEF f
<1>3. SumUpTo(f, Len(q)) \in Nat
  BY <1>1, <1>2, SumUpToNat
<1> QED
  BY <1>3 DEF TokensOf, f

(* More admissions, more tokens.                                           *)
LEMMA TokensGrow ==
    ASSUME NEW q \in Seq(AdmissionRecord), NEW S, NEW T, S \subseteq T
    PROVE  TokensOf(q, S) <= TokensOf(q, T)
<1>1. Len(q) \in Nat /\ DOMAIN q = 1..Len(q) /\ \A i \in 1..Len(q) : q[i].tokens \in Nat
  BY History
<1> DEFINE f == [i \in DOMAIN q |-> IF i \in S THEN q[i].tokens ELSE 0]
           g == [i \in DOMAIN q |-> IF i \in T THEN q[i].tokens ELSE 0]
<1>2. \A i \in 1..Len(q) : f[i] \in Nat /\ g[i] \in Nat /\ f[i] <= g[i]
  BY <1>1
<1> HIDE DEF f, g
<1>3. SumUpTo(f, Len(q)) <= SumUpTo(g, Len(q))
  BY <1>1, <1>2, SumUpToGrows
<1> QED
  BY <1>3 DEF TokensOf, f, g

(* Two sets of admissions together.                                        *)
LEMMA TokensTogether ==
    ASSUME NEW q \in Seq(AdmissionRecord), NEW S, NEW T, S \cap T = {}
    PROVE  TokensOf(q, S \cup T) = TokensOf(q, S) + TokensOf(q, T)
<1>1. Len(q) \in Nat /\ DOMAIN q = 1..Len(q) /\ \A i \in 1..Len(q) : q[i].tokens \in Nat
  BY History
<1> DEFINE f == [i \in DOMAIN q |-> IF i \in S THEN q[i].tokens ELSE 0]
           g == [i \in DOMAIN q |-> IF i \in T THEN q[i].tokens ELSE 0]
           h == [i \in DOMAIN q |-> IF i \in S \cup T THEN q[i].tokens ELSE 0]
<1>2. \A i \in 1..Len(q) : f[i] \in Int /\ g[i] \in Int /\ h[i] = f[i] + g[i]
  BY <1>1
<1> HIDE DEF f, g, h
<1>3. SumUpTo(h, Len(q)) = SumUpTo(f, Len(q)) + SumUpTo(g, Len(q))
  BY <1>1, <1>2, SumUpToAdd
<1> QED
  BY <1>3 DEF TokensOf, f, g, h

(* An admission that is appended counts where it is meant to.              *)
LEMMA TokensAppend ==
    ASSUME NEW q \in Seq(AdmissionRecord), NEW e \in AdmissionRecord, NEW S
    PROVE  TokensOf(Append(q, e), S) =
             TokensOf(q, S) + (IF Len(q) + 1 \in S THEN e.tokens ELSE 0)
<1> DEFINE n == Len(q)
           r == Append(q, e)
<1>1. n \in Nat /\ DOMAIN q = 1..n /\ \A i \in 1..n : q[i].tokens \in Nat
  BY History
<1>2. /\ Len(r) = n + 1 /\ DOMAIN r = 1..n + 1 /\ r[n + 1] = e
      /\ \A i \in 1..n : r[i] = q[i]
  BY AppendProperties
<1>3. e.tokens \in Nat
  BY DEF AdmissionRecord
<1> HIDE DEF n, r
<1> DEFINE f == [i \in DOMAIN r |-> IF i \in S THEN r[i].tokens ELSE 0]
           g == [i \in DOMAIN q |-> IF i \in S THEN q[i].tokens ELSE 0]
<1>4. /\ \A i \in 1..n + 1 : f[i] \in Int
      /\ f[n + 1] = IF n + 1 \in S THEN e.tokens ELSE 0
  <2>1. ASSUME NEW i \in 1..n + 1
        PROVE  f[i] \in Int
    <3>1. CASE i \in 1..n
      BY <1>1, <1>2, <3>1
    <3>2. CASE i = n + 1
      BY <1>1, <1>2, <1>3, <3>2
    <3> QED
      BY <1>1, <3>1, <3>2
  <2>2. n + 1 \in DOMAIN r
    BY <1>1, <1>2
  <2> QED
    BY <1>2, <2>1, <2>2
<1>5. \A i \in 1..n : f[i] \in Int /\ g[i] = f[i]
  <2>1. ASSUME NEW i \in 1..n
        PROVE  i \in DOMAIN r /\ i \in DOMAIN q /\ r[i] = q[i]
    BY <1>1, <1>2
  <2> QED
    BY <1>1, <2>1
<1> HIDE DEF f, g
<1>6. SumUpTo(f, n + 1) = SumUpTo(f, n) + f[n + 1]
  BY <1>1, <1>4, SumUpToNext
<1>7. SumUpTo(g, n) = SumUpTo(f, n)
  BY <1>1, <1>5, SumUpToSame
<1>8. TokensOf(r, S) = SumUpTo(f, n + 1) /\ TokensOf(q, S) = SumUpTo(g, n)
  BY <1>2 DEF TokensOf, f, g, n
<1> QED
  BY <1>4, <1>6, <1>7, <1>8 DEF n, r

(* Only admissions that were made have tokens.                             *)
LEMMA TokensWithin ==
    ASSUME NEW q \in Seq(AdmissionRecord), NEW S, NEW T, S \cap 1..Len(q) = T \cap 1..Len(q)
    PROVE  TokensOf(q, S) = TokensOf(q, T)
<1>1. DOMAIN q = 1..Len(q)
  BY History
<1>2. [i \in DOMAIN q |-> IF i \in S THEN q[i].tokens ELSE 0]
        = [i \in DOMAIN q |-> IF i \in T THEN q[i].tokens ELSE 0]
  BY <1>1
<1> QED
  BY <1>2 DEF TokensOf

(* No admissions, no tokens.                                               *)
LEMMA TokensNone ==
    ASSUME NEW q \in Seq(AdmissionRecord)
    PROVE  TokensOf(q, {}) = 0
<1> DEFINE f == [i \in DOMAIN q |-> IF i \in {} THEN q[i].tokens ELSE 0]
<1>1. Len(q) \in Nat /\ \A i \in 1..Len(q) : f[i] = 0
  BY History
<1> HIDE DEF f
<1>2. SumUpTo(f, Len(q)) = 0
  BY <1>1, SumUpToZero
<1> QED
  BY <1>2 DEF TokensOf, f

(***************************************************************************)
(* The invariant of the limiter.                                           *)
(***************************************************************************)
(* The admissions of a history that are counted in the window of k that    *)
(* opened at s, and those counted in the same window as i, up to i.        *)
CountedIn(q, k, s) == {j \in DOMAIN q : q[j].id = k /\ q[j].since = s}
CountedWith(q, i) == {j \in 1..i : q[j].id = q[i].id /\ q[j].since = q[i].since}

(* What is known of the keys, the requests and the clock.                  *)
VisitsOK ==
    /\ DOMAIN apiKeys \subseteq KeyEntries
    /\ \A k \in DOMAIN apiKeys :
          apiKeys[k] \in [limits : Limits, enabled : BOOLEAN, used : 0..MaxUsed]
    /\ visitor \in [Visitors -> [at : VisitPlaces,
                                 id : KeyEntries \cup {NoOne}, limits : [rpm : Nat, tpm : Nat]]]
    /\ clock \in 0..MaxClock

(* A window has been opened for an admission, holds the ones made in it,   *)
(* and follows a whole window length after the one before it.              *)
WindowsOK ==
    /\ admitted \in Seq(AdmissionRecord)
    /\ \A i \in DOMAIN admitted :
          /\ admitted[i].since <= admitted[i].at /\ admitted[i].at < admitted[i].since + WindowLength
          /\ admitted[i].id \in DOMAIN windows
          /\ \/ admitted[i].since = windows[admitted[i].id].startedAt
             \/ admitted[i].since + WindowLength <= windows[admitted[i].id].startedAt
    /\ \A i, j \in DOMAIN admitted : admitted[i].id = admitted[j].id =>
          \/ admitted[i].since = admitted[j].since
          \/ admitted[i].since + WindowLength <= admitted[j].since
          \/ admitted[j].since + WindowLength <= admitted[i].since
    /\ \A k \in DOMAIN windows :
          /\ windows[k] \in [startedAt : 0..clock, requests : Nat, tokens : Nat]
          /\ CountedIn(admitted, k, windows[k].startedAt) # {}
          /\ windows[k].requests = Cardinality(CountedIn(admitted, k, windows[k].startedAt))
          /\ windows[k].tokens = TokensOf(admitted, CountedIn(admitted, k, windows[k].startedAt))

(* No admission went over its limits.                                      *)
LimitsKept ==
    \A i \in DOMAIN admitted :
       /\ admitted[i].limits.rpm > 0 => Cardinality(CountedWith(admitted, i)) <= admitted[i].limits.rpm
       /\ admitted[i].limits.tpm > 0 =>
             TokensOf(admitted, CountedWith(admitted, i)) <= admitted[i].limits.tpm

LimiterInv == VisitsOK /\ WindowsOK /\ LimitsKept

(* Nothing has been admitted.                                              *)
LEMMA LimiterStarts == AdmissionInit => LimiterInv
<1> SUFFICES ASSUME AdmissionInit
             PROVE  LimiterInv
  OBVIOUS
<1>1. VisitsOK
  BY AdmissionAssumption DEF VisitPlaces, AdmissionInit, VisitsOK, NewEntry, Away
<1>2. admitted = <<>> /\ DOMAIN windows = {} /\ DOMAIN admitted = {}
  BY DEF AdmissionInit
<1>3. admitted \in Seq(AdmissionRecord)
  BY <1>2
<1> QED
  BY <1>1, <1>2, <1>3 DEF LimiterInv, WindowsOK, LimitsKept

(* Keys, requests and the clock, at every step.                            *)
LEMMA StepVisits ==
    ASSUME VisitsOK, [AdmissionNext]_admissionVars
    PROVE  VisitsOK' /\ clock <= clock'
<1> DEFINE Stages == [at : VisitPlaces,
                      id : KeyEntries \cup {NoOne}, limits : [rpm : Nat, tpm : Nat]]
           KeyRecords == [limits : Limits, enabled : BOOLEAN, used : 0..MaxUsed]
<1>0. Away \in Stages /\ clock \in Nat
  BY AdmissionAssumption DEF VisitPlaces, Away, VisitsOK
<1>1. CASE UNCHANGED admissionVars
  BY <1>0, <1>1 DEF admissionVars, VisitsOK
<1>10. ASSUME NEW v \in Visitors, NEW k \in KeyEntries \cup {NoOne}, NEW label \in VisitPlaces,
             VisitGoes(v, k, label)
      PROVE  VisitsOK' /\ clock <= clock'
  <2>1. [Away EXCEPT !.id = k, !.at = label] \in Stages
    BY AdmissionAssumption DEF Away
  <2> QED
    BY <1>0, <1>10, <2>1 DEF VisitGoes, VisitsOK
<1>2. ASSUME NEW v \in Visitors,
             \/ IsApiKeyRequired(v) \/ HasApiKeys(v) \/ GetApiKey(v) \/ NotLetIn(v)
             \/ \E k \in KeyEntries : FindApiKeyByValue(v, k)
      PROVE  VisitsOK' /\ clock <= clock'
  <2>1. \E k \in KeyEntries \cup {NoOne}, label \in VisitPlaces : VisitGoes(v, k, label)
    BY <1>2 DEF IsApiKeyRequired, HasApiKeys, GetApiKey, NotLetIn, FindApiKeyByValue, VisitPlaces
  <2> QED
    BY <1>10, <2>1
<1>3. ASSUME NEW v \in Visitors, ReadLimits(v)
      PROVE  VisitsOK' /\ clock <= clock'
  <2> DEFINE id == visitor[v].id
             limits == [rpm |-> apiKeys[id].limits.rpm, tpm |-> apiKeys[id].limits.tpm]
             unlimited == id \notin DOMAIN apiKeys
                          \/ (apiKeys[id].limits.rpm = 0 /\ apiKeys[id].limits.tpm = 0)
  <2>1. \A k \in DOMAIN apiKeys : apiKeys[k].limits \in [rpm : Nat, tpm : Nat, quota : Nat]
    BY AdmissionAssumption DEF VisitsOK
  <2>2. visitor \in [Visitors -> Stages] /\ visitor[v] \in Stages
    BY DEF VisitsOK
  <2>3. visitor' = [visitor EXCEPT ![v].at = IF unlimited THEN "served" ELSE "allow",
                                   ![v].limits = IF unlimited THEN @ ELSE limits]
    BY <1>3 DEF ReadLimits
  <2>4. visitor' \in [Visitors -> Stages]
    <3>1. CASE unlimited
      <4>1. [visitor[v] EXCEPT !.at = "served", !.limits = visitor[v].limits] \in Stages
        BY <2>2 DEF VisitPlaces
      <4> HIDE DEF Stages, unlimited
      <4>2. visitor' = [visitor EXCEPT ![v] = [visitor[v] EXCEPT !.at = "served", !.limits = visitor[v].limits]]
        BY <2>2, <2>3, <3>1
      <4> QED
        BY <2>2, <4>1, <4>2
    <3>2. CASE ~unlimited
      <4>1. limits \in [rpm : Nat, tpm : Nat]
        BY <2>1, <3>2
      <4> HIDE DEF limits
      <4>2. [visitor[v] EXCEPT !.at = "allow", !.limits = limits] \in Stages
        BY <2>2, <4>1 DEF VisitPlaces
      <4> HIDE DEF Stages, unlimited
      <4>3. visitor' = [visitor EXCEPT ![v] = [visitor[v] EXCEPT !.at = "allow", !.limits = limits]]
        BY <2>2, <2>3, <3>2
      <4> QED
        BY <2>2, <4>2, <4>3
    <3> HIDE DEF unlimited
    <3> QED
      BY <3>1, <3>2
  <2>5. UNCHANGED <<apiKeys, clock>>
    BY <1>3 DEF ReadLimits
  <2> HIDE DEF limits, unlimited, id
  <2> QED
    BY <1>0, <2>4, <2>5 DEF VisitsOK
<1>4. ASSUME NEW v \in Visitors, NEW n \in RequestTokens, Allow(v, n)
      PROVE  VisitsOK' /\ clock <= clock'
  <2>1. visitor' = [visitor EXCEPT ![v].at = "served"] \/ visitor' = [visitor EXCEPT ![v] = Away]
    BY <1>4 DEF Allow
  <2>2. visitor' \in [Visitors -> Stages]
    <3>1. visitor \in [Visitors -> Stages] /\ visitor[v] \in Stages
      BY DEF VisitsOK
    <3>2. [visitor[v] EXCEPT !.at = "served"] \in Stages
      BY <3>1 DEF VisitPlaces
    <3>3. visitor' = [visitor EXCEPT ![v] = [visitor[v] EXCEPT !.at = "served"]]
          \/ visitor' = [visitor EXCEPT ![v] = Away]
      BY <2>1
    <3> HIDE DEF Stages
    <3> QED
      BY <1>0, <3>1, <3>2, <3>3
  <2> QED
    BY <1>0, <1>4, <2>2 DEF Allow, VisitsOK
<1>5. ASSUME NEW v \in Visitors, NEW n \in RequestTokens \cup {0}, Served(v, n)
      PROVE  VisitsOK' /\ clock <= clock'
  <2> DEFINE id == visitor[v].id
  <2>1. visitor' \in [Visitors -> Stages]
    BY <1>0, <1>5 DEF Served, VisitsOK
  <2>2. \/ apiKeys' = apiKeys
        \/ /\ id \in DOMAIN apiKeys /\ apiKeys[id].used + n <= MaxUsed
           /\ apiKeys' = [apiKeys EXCEPT ![id].used = @ + n]
    BY <1>5 DEF Served
  <2>3. \A k \in DOMAIN apiKeys' : k \in DOMAIN apiKeys /\ apiKeys'[k] \in KeyRecords
    <3>1. \A k \in DOMAIN apiKeys : apiKeys[k] \in KeyRecords
      BY DEF VisitsOK
    <3>2. n \in Nat
      BY AdmissionAssumption
    <3> QED
      BY <2>2, <3>1, <3>2, AdmissionAssumption
  <2> QED
    BY <1>0, <1>5, <2>1, <2>3 DEF Served, VisitsOK
<1>6. ASSUME NEW k \in KeyEntries, EditKey(k)
      PROVE  VisitsOK' /\ clock <= clock'
  <2>1. UNCHANGED <<visitor, clock>>
    BY <1>6 DEF EditKey, Edit
  <2>2. \/ \E l \in Limits : apiKeys' = Put(apiKeys, k, NewEntry(l))
        \/ /\ k \in DOMAIN apiKeys
           /\ \/ \E l \in Limits, on \in BOOLEAN :
                    apiKeys' = [apiKeys EXCEPT ![k].limits = l, ![k].enabled = on]
              \/ apiKeys' = [apiKeys EXCEPT ![k].used = 0]
        \/ apiKeys' = Without(apiKeys, k)
    BY <1>6 DEF EditKey, Edit
  <2>3. \A m \in DOMAIN apiKeys : m \in KeyEntries /\ apiKeys[m] \in KeyRecords
    BY DEF VisitsOK
  <2>4. \A m \in DOMAIN apiKeys' : m \in KeyEntries /\ apiKeys'[m] \in KeyRecords
    <3>1. CASE \E l \in Limits : apiKeys' = Put(apiKeys, k, NewEntry(l))
      BY <2>3, <3>1, AdmissionAssumption DEF Put, NewEntry
    <3>2. CASE \E l \in Limits, on \in BOOLEAN :
                 apiKeys' = [apiKeys EXCEPT ![k].limits = l, ![k].enabled = on]
      BY <2>3, <3>2
    <3>3. CASE apiKeys' = [apiKeys EXCEPT ![k].used = 0]
      BY <2>3, <3>3, AdmissionAssumption
    <3>4. CASE apiKeys' = Without(apiKeys, k)
      BY <2>3, <3>4 DEF Without
    <3> QED
      BY <2>2, <3>1, <3>2, <3>3, <3>4
  <2> QED
    BY <1>0, <2>1, <2>4 DEF VisitsOK
<1>7. ASSUME NEW on \in BOOLEAN, NEW old \in BOOLEAN, Edit(apiKeys, on, old)
      PROVE  VisitsOK' /\ clock <= clock'
  BY <1>0, <1>7 DEF Edit, VisitsOK
<1>8. CASE RestartPlane
  BY <1>0, <1>8 DEF RestartPlane, VisitsOK
<1>9. CASE TimePasses
  BY <1>0, <1>9, AdmissionAssumption DEF TimePasses, VisitsOK
<1> QED
  BY <1>1, <1>2, <1>3, <1>4, <1>5, <1>6, <1>7, <1>8, <1>9 DEF AdmissionNext

(* The limiter, when a request comes that it has room for.                 *)
LEMMA StepAllow ==
    ASSUME LimiterInv, NEW v \in Visitors, NEW tokens \in RequestTokens, Allow(v, tokens),
           Fits(WindowOf(visitor[v].id), visitor[v].limits, tokens)
    PROVE  WindowsOK' /\ LimitsKept'
<1> DEFINE id == visitor[v].id
           limits == visitor[v].limits
           window == WindowOf(id)
           s == window.startedAt
           n == Len(admitted)
           C == CountedIn(admitted, id, s)
           e == [id |-> id, at |-> clock, since |-> s, tokens |-> tokens, limits |-> limits]
<1>1. /\ admitted \in Seq(AdmissionRecord)
      /\ n \in Nat /\ DOMAIN admitted = 1..n
      /\ \A i \in 1..n : admitted[i] \in AdmissionRecord
      /\ clock \in Nat /\ tokens \in Nat /\ WindowLength \in Nat \ {0}
      /\ id \in KeyEntries \cup {NoOne} /\ limits \in [rpm : Nat, tpm : Nat]
  BY AdmissionAssumption, History DEF LimiterInv, VisitsOK, WindowsOK
<1>2. /\ C \subseteq 1..n /\ IsFiniteSet(C) /\ Cardinality(C) \in Nat
      /\ TokensOf(admitted, C) \in Nat
  <2>1. C \subseteq 1..n
    BY <1>1 DEF CountedIn
  <2>2. IsFiniteSet(1..n)
    <3>1. 1 \in Int /\ n \in Int
      BY <1>1
    <3> QED
      BY <3>1, FS_Interval
  <2> QED
    BY <1>1, <2>1, <2>2, FS_Subset, FS_CardinalityType, TokensNat
<1>3. /\ s \in 0..clock /\ clock < s + WindowLength
      /\ window.requests = Cardinality(C) /\ window.tokens = TokensOf(admitted, C)
      /\ \A i \in 1..n : admitted[i].id = id =>
            admitted[i].since = s \/ admitted[i].since + WindowLength <= s
  <2>1. \A i \in 1..n : admitted[i].since \in Nat /\ admitted[i].at \in Nat
    BY <1>1 DEF AdmissionRecord
  <2>2. CASE Fresh(id)
    <3>1. s = clock /\ window.requests = 0 /\ window.tokens = 0
      BY <2>2 DEF WindowOf
    <3>2. \A i \in 1..n : admitted[i].id = id => admitted[i].since + WindowLength <= clock
      <4> SUFFICES ASSUME NEW i \in 1..n, admitted[i].id = id
                   PROVE  admitted[i].since + WindowLength <= clock
        OBVIOUS
      <4>1. /\ id \in DOMAIN windows /\ windows[id].startedAt \in Nat
            /\ \/ admitted[i].since = windows[id].startedAt
               \/ admitted[i].since + WindowLength <= windows[id].startedAt
        <5>1. admitted[i].id \in DOMAIN windows
          BY <1>1 DEF LimiterInv, WindowsOK
        <5>2. windows[id] \in [startedAt : 0..clock, requests : Nat, tokens : Nat]
          BY <5>1 DEF LimiterInv, WindowsOK
        <5>3. windows[id].startedAt \in Nat
          BY <1>1, <5>2
        <5>4. \/ admitted[i].since = windows[admitted[i].id].startedAt
              \/ admitted[i].since + WindowLength <= windows[admitted[i].id].startedAt
          BY <1>1 DEF LimiterInv, WindowsOK
        <5> QED
          BY <5>1, <5>3, <5>4
      <4>2. clock >= windows[id].startedAt + WindowLength
        BY <2>2, <4>1 DEF Fresh
      <4> QED
        BY <1>1, <2>1, <4>1, <4>2
    <3>3. C = {}
      BY <1>1, <2>1, <3>1, <3>2 DEF CountedIn
    <3> QED
      BY <1>1, <3>1, <3>2, <3>3, FS_EmptySet, TokensNone
  <2>3. CASE ~Fresh(id)
    <3>1. id \in DOMAIN windows /\ window = windows[id] /\ ~(clock >= s + WindowLength)
      BY <2>3 DEF WindowOf, Fresh
    <3>2. windows[id] \in [startedAt : 0..clock, requests : Nat, tokens : Nat]
      BY <3>1 DEF LimiterInv, WindowsOK
    <3>3. /\ window.requests = Cardinality(C) /\ window.tokens = TokensOf(admitted, C)
          /\ \A i \in 1..n : admitted[i].id = id =>
                admitted[i].since = s \/ admitted[i].since + WindowLength <= s
      <4>1. s = windows[id].startedAt
        BY <3>1
      <4> HIDE DEF s, window, id
      <4> QED
        BY <1>1, <3>1, <4>1 DEF LimiterInv, WindowsOK
    <3>4. s \in 0..clock
      BY <3>1, <3>2
    <3>5. clock < s + WindowLength
      <4> HIDE DEF s
      <4> QED
        BY <1>1, <3>1, <3>4
    <3> QED
      BY <3>3, <3>4, <3>5
  <2> QED
    BY <2>2, <2>3
<1>4. /\ e \in AdmissionRecord /\ admitted' = Append(admitted, e)
      /\ clock' = clock
      /\ windows' = Put(windows, id, [window EXCEPT !.requests = @ + 1, !.tokens = @ + tokens])
  BY <1>1, <1>3 DEF Allow, AdmissionRecord
<1>5. /\ admitted' \in Seq(AdmissionRecord) /\ Len(admitted') = n + 1
      /\ DOMAIN admitted' = 1..n + 1 /\ admitted'[n + 1] = e
      /\ \A i \in 1..n : admitted'[i] = admitted[i]
  BY <1>1, <1>4, AppendProperties
<1>6. /\ DOMAIN windows' = DOMAIN windows \cup {id}
      /\ windows'[id] \in [startedAt : 0..clock, requests : Nat, tokens : Nat]
      /\ windows'[id].startedAt = s
      /\ windows'[id].requests = Cardinality(C) + 1
      /\ windows'[id].tokens = TokensOf(admitted, C) + tokens
      /\ \A k \in DOMAIN windows \ {id} : windows'[k] = windows[k]
  <2> DEFINE Types == [startedAt : 0..clock, requests : Nat, tokens : Nat]
             new == [window EXCEPT !.requests = @ + 1, !.tokens = @ + tokens]
  <2>1. window \in Types
    <3>1. \A k \in DOMAIN windows : windows[k] \in Types
      BY DEF LimiterInv, WindowsOK
    <3>2. CASE Fresh(id)
      BY <1>1, <3>2 DEF WindowOf
    <3>3. CASE ~Fresh(id)
      <4>1. id \in DOMAIN windows /\ window = windows[id]
        BY <3>3 DEF WindowOf, Fresh
      <4> HIDE DEF Types
      <4> QED
        BY <3>1, <4>1
    <3> QED
      BY <3>2, <3>3
  <2> HIDE DEF window, C, s, id
  <2>2. /\ new \in Types /\ new.startedAt = window.startedAt
        /\ new.requests = window.requests + 1 /\ new.tokens = window.tokens + tokens
    <3>1. /\ window.requests + 1 \in Nat /\ window.tokens + tokens \in Nat
      BY <1>1, <2>1
    <3>2. ASSUME NEW x \in Nat, NEW y \in Nat
          PROVE  /\ [window EXCEPT !.requests = x, !.tokens = y] \in Types
                 /\ [window EXCEPT !.requests = x, !.tokens = y].startedAt = window.startedAt
                 /\ [window EXCEPT !.requests = x, !.tokens = y].requests = x
                 /\ [window EXCEPT !.requests = x, !.tokens = y].tokens = y
      BY <2>1
    <3> HIDE DEF Types
    <3> QED
      BY <3>1, <3>2
  <2>3. windows' = Put(windows, id, new)
    BY <1>4
  <2>4. window.startedAt = s
    BY DEF s
  <2> HIDE DEF new, Types
  <2>5. /\ DOMAIN windows' = DOMAIN windows \cup {id} /\ windows'[id] = new
        /\ \A k \in DOMAIN windows \ {id} : windows'[k] = windows[k]
    BY <2>3 DEF Put
  <2> QED
    BY <1>3, <2>2, <2>4, <2>5 DEF Types
<1>7. /\ limits.rpm > 0 => Cardinality(C) + 1 <= limits.rpm
      /\ limits.tpm > 0 => TokensOf(admitted, C) + tokens <= limits.tpm
  BY <1>3 DEF Fits
<1> HIDE DEF window, s, C, n, id, limits
<1>8. /\ CountedIn(admitted', id, s) = C \cup {n + 1} /\ CountedWith(admitted', n + 1) = C \cup {n + 1}
      /\ \A k, t : k # id \/ t # s => CountedIn(admitted', k, t) = CountedIn(admitted, k, t)
      /\ \A i \in 1..n : CountedWith(admitted', i) = CountedWith(admitted, i) /\ CountedWith(admitted, i) \subseteq 1..n
  <2>1. e.id = id /\ e.since = s
    OBVIOUS
  <2> HIDE DEF e
  <2>2. 1..n + 1 = 1..n \cup {n + 1} /\ n + 1 \notin 1..n
    BY <1>1
  <2>3. CountedIn(admitted', id, s) = C \cup {n + 1}
    BY <1>1, <1>5, <2>1, <2>2 DEF CountedIn, C
  <2>4. CountedWith(admitted', n + 1) = C \cup {n + 1}
    BY <1>1, <1>5, <2>1, <2>2 DEF CountedWith, CountedIn, C
  <2>5. \A k, t : k # id \/ t # s => CountedIn(admitted', k, t) = CountedIn(admitted, k, t)
    BY <1>1, <1>5, <2>1, <2>2 DEF CountedIn
  <2>6. ASSUME NEW i \in 1..n
        PROVE  CountedWith(admitted', i) = CountedWith(admitted, i) /\ CountedWith(admitted, i) \subseteq 1..n
    <3>1. 1..i \subseteq 1..n /\ i \in 1..n + 1
      BY <1>1
    <3> QED
      BY <1>5, <2>6, <3>1 DEF CountedWith
  <2> QED
    BY <2>3, <2>4, <2>5, <2>6
<1>9. /\ Cardinality(C \cup {n + 1}) = Cardinality(C) + 1
      /\ TokensOf(admitted', C \cup {n + 1}) = TokensOf(admitted, C) + tokens
      /\ \A S : S \subseteq 1..n => TokensOf(admitted', S) = TokensOf(admitted, S)
  <2>1. n + 1 \notin 1..n
    BY <1>1
  <2>2. Cardinality(C \cup {n + 1}) = Cardinality(C) + 1
    BY <1>2, <2>1, FS_AddElement
  <2>3. \A S : TokensOf(admitted', S) =
            TokensOf(admitted, S) + (IF n + 1 \in S THEN tokens ELSE 0)
    BY <1>1, <1>4, TokensAppend DEF n
  <2>4. TokensOf(admitted, C \cup {n + 1}) = TokensOf(admitted, C)
    <3>1. (C \cup {n + 1}) \cap 1..Len(admitted) = C \cap 1..Len(admitted)
      BY <2>1 DEF n
    <3> QED
      BY <1>1, <3>1, TokensWithin
  <2>5. ASSUME NEW S, S \subseteq 1..n
        PROVE  TokensOf(admitted', S) = TokensOf(admitted, S)
    <3>1. n + 1 \notin S /\ TokensOf(admitted, S) \in Nat
      BY <1>1, <2>1, <2>5, TokensNat
    <3> QED
      BY <2>3, <3>1
  <2> QED
    BY <2>2, <2>3, <2>4, <2>5
<1>10. LimitsKept'
  <2>1. ASSUME NEW i \in 1..n
        PROVE  /\ admitted'[i].limits.rpm > 0 => Cardinality(CountedWith(admitted', i)) <= admitted'[i].limits.rpm
               /\ admitted'[i].limits.tpm > 0 =>
                     TokensOf(admitted', CountedWith(admitted', i)) <= admitted'[i].limits.tpm
    <3>1. TokensOf(admitted', CountedWith(admitted, i)) = TokensOf(admitted, CountedWith(admitted, i))
      BY <1>8, <1>9
    <3> QED
      BY <1>1, <1>5, <1>8, <3>1 DEF LimiterInv, LimitsKept
  <2>2. /\ admitted'[n + 1].limits.rpm > 0 =>
              Cardinality(CountedWith(admitted', n + 1)) <= admitted'[n + 1].limits.rpm
        /\ admitted'[n + 1].limits.tpm > 0 =>
              TokensOf(admitted', CountedWith(admitted', n + 1)) <= admitted'[n + 1].limits.tpm
    <3>1. admitted'[n + 1].limits = limits
      BY <1>5
    <3> HIDE DEF e
    <3> QED
      BY <1>7, <1>8, <1>9, <3>1
  <2>3. \A i \in DOMAIN admitted' : i \in 1..n \/ i = n + 1
    BY <1>1, <1>5
  <2> QED
    BY <2>1, <2>2, <2>3 DEF LimitsKept
<1>11. WindowsOK'
  <2>1. \A i \in DOMAIN admitted' : i \in 1..n \/ (i = n + 1 /\ admitted'[i] = e)
    BY <1>1, <1>5
  <2>2. \A i \in 1..n : admitted[i].since \in Nat /\ admitted[i].at \in Nat
    BY <1>1 DEF AdmissionRecord
  <2>3. /\ e.since = s /\ e.at = clock /\ e.id = id
        /\ s \in Nat /\ clock \in Nat
    BY <1>1, <1>3
  <2> HIDE DEF e
  <2>4. ASSUME NEW i \in DOMAIN admitted'
        PROVE  /\ admitted'[i].since <= admitted'[i].at
               /\ admitted'[i].at < admitted'[i].since + WindowLength
               /\ admitted'[i].id \in DOMAIN windows'
               /\ \/ admitted'[i].since = windows'[admitted'[i].id].startedAt
                  \/ admitted'[i].since + WindowLength <= windows'[admitted'[i].id].startedAt
    <3>1. CASE i \in 1..n /\ admitted[i].id # id
      <4>1. admitted[i].id \in DOMAIN windows \ {id}
        BY <1>1, <3>1 DEF LimiterInv, WindowsOK
      <4> QED
        BY <1>1, <1>5, <1>6, <3>1, <4>1 DEF LimiterInv, WindowsOK
    <3>2. CASE i \in 1..n /\ admitted[i].id = id
      <4>1. windows'[id].startedAt = s
        BY <1>6
      <4> QED
        BY <1>1, <1>3, <1>5, <1>6, <3>2, <4>1 DEF LimiterInv, WindowsOK
    <3>3. CASE i = n + 1 /\ admitted'[i] = e
      <4>1. windows'[id].startedAt = s
        BY <1>6
      <4> QED
        BY <1>3, <1>6, <2>3, <3>3, <4>1
    <3> QED
      BY <2>1, <3>1, <3>2, <3>3
  <2>5. ASSUME NEW i \in DOMAIN admitted', NEW j \in DOMAIN admitted',
               admitted'[i].id = admitted'[j].id
        PROVE  \/ admitted'[i].since = admitted'[j].since
               \/ admitted'[i].since + WindowLength <= admitted'[j].since
               \/ admitted'[j].since + WindowLength <= admitted'[i].since
    <3>1. CASE i \in 1..n /\ j \in 1..n
      BY <1>1, <1>5, <2>5, <3>1 DEF LimiterInv, WindowsOK
    <3>2. CASE i \in 1..n /\ j = n + 1
      BY <1>3, <1>5, <2>3, <2>5, <3>2
    <3>3. CASE i = n + 1 /\ j \in 1..n
      BY <1>3, <1>5, <2>3, <2>5, <3>3
    <3>4. CASE i = n + 1 /\ j = n + 1
      BY <3>4
    <3> QED
      BY <2>1, <3>1, <3>2, <3>3, <3>4
  <2>6. ASSUME NEW k \in DOMAIN windows'
        PROVE  /\ windows'[k] \in [startedAt : 0..clock', requests : Nat, tokens : Nat]
               /\ CountedIn(admitted', k, windows'[k].startedAt) # {}
               /\ windows'[k].requests = Cardinality(CountedIn(admitted', k, windows'[k].startedAt))
               /\ windows'[k].tokens = TokensOf(admitted', CountedIn(admitted', k, windows'[k].startedAt))
    <3>1. CASE k = id
      <4>1. CountedIn(admitted', k, windows'[k].startedAt) = C \cup {n + 1}
        BY <1>6, <1>8, <3>1
      <4>2. windows'[k] \in [startedAt : 0..clock', requests : Nat, tokens : Nat]
        BY <1>1, <1>2, <1>3, <1>4, <1>6, <3>1
      <4>3. windows'[k].requests = Cardinality(C) + 1
        BY <1>6, <3>1
      <4>4. windows'[k].tokens = TokensOf(admitted, C) + tokens
        BY <1>6, <3>1
      <4> QED
        BY <1>9, <4>1, <4>2, <4>3, <4>4
    <3>2. CASE k # id
      <4>1. k \in DOMAIN windows /\ windows'[k] = windows[k]
        BY <1>6, <2>6, <3>2
      <4>2. CountedIn(admitted', k, windows'[k].startedAt) = CountedIn(admitted, k, windows[k].startedAt)
        BY <1>8, <3>2, <4>1
      <4>3. CountedIn(admitted, k, windows[k].startedAt) \subseteq 1..n
        BY <1>1 DEF CountedIn
      <4>4. TokensOf(admitted', CountedIn(admitted, k, windows[k].startedAt))
              = TokensOf(admitted, CountedIn(admitted, k, windows[k].startedAt))
        BY <1>9, <4>3
      <4> QED
        BY <1>4, <4>1, <4>2, <4>4 DEF LimiterInv, WindowsOK
    <3> QED
      BY <3>1, <3>2
  <2> QED
    BY <1>5, <2>4, <2>5, <2>6 DEF WindowsOK
<1> QED
  BY <1>10, <1>11

(* The limiter remembers what it has admitted while it is not asked.       *)
LEMMA StepElsewhere ==
    ASSUME LimiterInv, UNCHANGED <<admitted, windows>>, clock <= clock', clock' \in Nat
    PROVE  WindowsOK' /\ LimitsKept'
<1>1. admitted' = admitted /\ windows' = windows
  OBVIOUS
<1>2. LimitsKept'
  BY <1>1 DEF LimiterInv, LimitsKept
<1>3. ASSUME NEW k \in DOMAIN windows
      PROVE  windows[k] \in [startedAt : 0..clock', requests : Nat, tokens : Nat]
  <2>1. windows[k] \in [startedAt : 0..clock, requests : Nat, tokens : Nat] /\ clock \in Nat
    BY AdmissionAssumption DEF LimiterInv, WindowsOK, VisitsOK
  <2> QED
    BY <2>1
<1> QED
  BY <1>1, <1>2, <1>3 DEF LimiterInv, WindowsOK

(* Every step keeps the invariant.                                         *)
LEMMA LimiterSteps ==
    ASSUME LimiterInv, [AdmissionNext]_admissionVars
    PROVE  LimiterInv'
<1>1. VisitsOK' /\ clock <= clock' /\ clock' \in Nat
  BY StepVisits, AdmissionAssumption DEF LimiterInv, VisitsOK
<1>2. WindowsOK' /\ LimitsKept'
  <2>1. CASE UNCHANGED <<admitted, windows>>
    BY <1>1, <2>1, StepElsewhere
  <2>2. ASSUME NEW v \in Visitors, NEW tokens \in RequestTokens, Allow(v, tokens)
        PROVE  WindowsOK' /\ LimitsKept'
    <3>1. CASE Fits(WindowOf(visitor[v].id), visitor[v].limits, tokens)
      BY <2>2, <3>1, StepAllow
    <3>2. CASE ~Fits(WindowOf(visitor[v].id), visitor[v].limits, tokens)
      BY <2>1, <2>2, <3>2 DEF Allow
    <3> QED
      BY <3>1, <3>2
  <2>3. CASE RestartPlane
    <3>1. admitted' = <<>> /\ DOMAIN windows' = {} /\ DOMAIN admitted' = {}
      BY <2>3 DEF RestartPlane
    <3>2. admitted' \in Seq(AdmissionRecord)
      BY <3>1
    <3> QED
      BY <3>1, <3>2 DEF WindowsOK, LimitsKept
  <2>4. \/ UNCHANGED <<admitted, windows>>
        \/ \E v \in Visitors, tokens \in RequestTokens : Allow(v, tokens)
        \/ RestartPlane
    BY DEF AdmissionNext, admissionVars, IsApiKeyRequired, HasApiKeys, GetApiKey,
            NotLetIn, FindApiKeyByValue, VisitGoes, ReadLimits, Served, EditKey, Edit, TimePasses
  <2> QED
    BY <2>1, <2>2, <2>3, <2>4
<1> QED
  BY <1>1, <1>2 DEF LimiterInv

(* The invariant of the limiter holds throughout.                          *)
LEMMA LimiterHolds == AdmissionSpec => []LimiterInv
<1>1. AdmissionInit => LimiterInv
  BY LimiterStarts
<1>2. LimiterInv /\ [AdmissionNext]_admissionVars => LimiterInv'
  BY LimiterSteps
<1> QED
  BY <1>1, <1>2, PTL DEF AdmissionSpec

(* Admissions of one window are within the limits of the last of them.     *)
LEMMA OneWindow ==
    ASSUME LimiterInv, NEW S, S # {}, S \subseteq DOMAIN admitted,
           \A i, j \in S : admitted[i].id = admitted[j].id /\ admitted[i].since = admitted[j].since
    PROVE  \E l \in S :
             /\ admitted[l].limits.rpm > 0 => Cardinality(S) <= admitted[l].limits.rpm
             /\ admitted[l].limits.tpm > 0 => TokensOf(admitted, S) <= admitted[l].limits.tpm
<1> DEFINE n == Len(admitted)
           T == {n - i : i \in S}
<1>1. /\ admitted \in Seq(AdmissionRecord) /\ n \in Nat /\ DOMAIN admitted = 1..n
      /\ \A i \in 1..n : admitted[i] \in AdmissionRecord
  BY History DEF LimiterInv, WindowsOK
<1> HIDE DEF n
<1>2. T \subseteq Nat /\ T # {}
  BY <1>1
<1>3. PICK m \in T : \A k \in T : m <= k
  <2> HIDE DEF T
  <2> QED
    BY <1>2, LeastNatural
<1>4. PICK l \in S : m = n - l
  OBVIOUS
<1>5. \A i \in S : i <= l
  <2> SUFFICES ASSUME NEW i \in S
               PROVE  i <= l
    OBVIOUS
  <2>1. n - l <= n - i
    BY <1>3, <1>4
  <2> QED
    BY <1>1, <2>1
<1>6. S \subseteq CountedWith(admitted, l) /\ CountedWith(admitted, l) \subseteq 1..l
  BY <1>1, <1>5 DEF CountedWith
<1>7. /\ TokensOf(admitted, S) <= TokensOf(admitted, CountedWith(admitted, l))
      /\ TokensOf(admitted, S) \in Nat /\ TokensOf(admitted, CountedWith(admitted, l)) \in Nat
  BY <1>1, <1>6, TokensGrow, TokensNat
<1>8. /\ Cardinality(S) <= Cardinality(CountedWith(admitted, l))
      /\ Cardinality(S) \in Nat /\ Cardinality(CountedWith(admitted, l)) \in Nat
  <2>1. 1 \in Int /\ l \in Int
    BY <1>1
  <2>2. IsFiniteSet(1..l)
    BY <2>1, FS_Interval
  <2>3. IsFiniteSet(CountedWith(admitted, l)) /\ IsFiniteSet(S)
    BY <1>6, <2>2, FS_Subset
  <2> QED
    BY <1>6, <2>3, FS_Subset, FS_CardinalityType
<1>9. /\ l \in DOMAIN admitted
      /\ admitted[l].limits.rpm \in Nat /\ admitted[l].limits.tpm \in Nat
  BY <1>1 DEF AdmissionRecord
<1>10. /\ admitted[l].limits.rpm > 0 =>
             Cardinality(CountedWith(admitted, l)) <= admitted[l].limits.rpm
       /\ admitted[l].limits.tpm > 0 =>
             TokensOf(admitted, CountedWith(admitted, l)) <= admitted[l].limits.tpm
  BY <1>9 DEF LimiterInv, LimitsKept
<1>11. /\ admitted[l].limits.rpm > 0 => Cardinality(S) <= admitted[l].limits.rpm
       /\ admitted[l].limits.tpm > 0 => TokensOf(admitted, S) <= admitted[l].limits.tpm
  BY <1>7, <1>8, <1>9, <1>10
<1> QED
  BY <1>4, <1>11

(* A minute touches at most two windows of a key.                          *)
LEMMA TwoWindows ==
    ASSUME LimiterInv, NEW k, NEW t \in Nat, NEW a \in Minute(k, t),
           NEW i \in Minute(k, t), NEW j \in Minute(k, t),
           admitted[i].since # admitted[a].since, admitted[j].since # admitted[a].since
    PROVE  admitted[i].since = admitted[j].since
<1>1. /\ {a, i, j} \subseteq DOMAIN admitted
      /\ \A x \in {a, i, j} : admitted[x].id = k /\ admitted[x].at \in t..(t + WindowLength - 1)
  BY DEF Minute
<1>2. \A x \in DOMAIN admitted : admitted[x].since \in Nat /\ admitted[x].at \in Nat
  BY History DEF LimiterInv, WindowsOK, AdmissionRecord
<1>3. \A x \in {a, i, j} :
         /\ admitted[x].since <= admitted[x].at /\ admitted[x].at < admitted[x].since + WindowLength
  BY <1>1 DEF LimiterInv, WindowsOK
<1>4. \A x, y \in {a, i, j} :
         \/ admitted[x].since = admitted[y].since
         \/ admitted[x].since + WindowLength <= admitted[y].since
         \/ admitted[y].since + WindowLength <= admitted[x].since
  BY <1>1 DEF LimiterInv, WindowsOK
<1>5. \A x \in {a, i, j} : t < admitted[x].since + WindowLength /\ admitted[x].since < t + WindowLength
  <2> SUFFICES ASSUME NEW x \in {a, i, j}
               PROVE  t < admitted[x].since + WindowLength /\ admitted[x].since < t + WindowLength
    OBVIOUS
  <2>1. /\ admitted[x].since \in Nat /\ admitted[x].at \in Nat /\ WindowLength \in Nat
        /\ t <= admitted[x].at /\ admitted[x].at <= t + WindowLength - 1
    BY <1>1, <1>2, AdmissionAssumption
  <2> QED
    BY <1>3, <2>1
<1>6. /\ admitted[a].since \in Nat /\ admitted[i].since \in Nat /\ admitted[j].since \in Nat
      /\ WindowLength \in Nat
  BY <1>1, <1>2, AdmissionAssumption
<1> QED
  BY <1>4, <1>5, <1>6

(* A minute gets at most twice a limit, as its admissions lie in two       *)
(* windows.                                                                *)
LEMMA LimiterBudget == LimiterInv => MinuteBudget
<1> SUFFICES ASSUME LimiterInv, NEW k \in KeyEntries, NEW t \in 0..MaxClock, Minute(k, t) # {}
             PROVE  LET S == Minute(k, t)
                    IN  /\ (\A i \in S : admitted[i].limits.rpm > 0) =>
                             \E i \in S : Cardinality(S) <= 2 * admitted[i].limits.rpm
                        /\ (\A i \in S : admitted[i].limits.tpm > 0) =>
                             \E i \in S : TokensOf(admitted, S) <= 2 * admitted[i].limits.tpm
  BY DEF MinuteBudget
<1> DEFINE S == Minute(k, t)
<1>1. PICK a \in S : TRUE
  OBVIOUS
<1> DEFINE A == {i \in S : admitted[i].since = admitted[a].since}
           B == S \ A
<1>2. /\ admitted \in Seq(AdmissionRecord) /\ S \subseteq DOMAIN admitted
      /\ \A i \in S : admitted[i].id = k
      /\ \A i \in S : admitted[i].limits.rpm \in Nat /\ admitted[i].limits.tpm \in Nat
  BY History DEF LimiterInv, WindowsOK, AdmissionRecord, Minute
<1>3. \A i, j \in B : admitted[i].since = admitted[j].since
  BY TwoWindows
<1> HIDE DEF S
<1>4. A # {} /\ A \subseteq S /\ B \subseteq S /\ A \cap B = {} /\ S = A \cup B
  OBVIOUS
<1>5. PICK l \in A :
         /\ admitted[l].limits.rpm > 0 => Cardinality(A) <= admitted[l].limits.rpm
         /\ admitted[l].limits.tpm > 0 => TokensOf(admitted, A) <= admitted[l].limits.tpm
  <2>1. /\ A \subseteq DOMAIN admitted
        /\ \A i, j \in A : admitted[i].id = admitted[j].id /\ admitted[i].since = admitted[j].since
    BY <1>2
  <2> HIDE DEF A
  <2> QED
    BY <1>4, <2>1, OneWindow
<1>6. B # {} => \E m \in B :
         /\ admitted[m].limits.rpm > 0 => Cardinality(B) <= admitted[m].limits.rpm
         /\ admitted[m].limits.tpm > 0 => TokensOf(admitted, B) <= admitted[m].limits.tpm
  <2>1. /\ B \subseteq DOMAIN admitted
        /\ \A i, j \in B : admitted[i].id = admitted[j].id /\ admitted[i].since = admitted[j].since
    BY <1>2, <1>3
  <2> HIDE DEF B
  <2> QED
    BY <2>1, OneWindow
<1> HIDE DEF A, B
<1>7. /\ TokensOf(admitted, S) = TokensOf(admitted, A) + TokensOf(admitted, B)
      /\ TokensOf(admitted, A) \in Nat /\ TokensOf(admitted, B) \in Nat
      /\ TokensOf(admitted, {}) = 0
  BY <1>2, <1>4, TokensTogether, TokensNat, TokensNone
<1>8. /\ Cardinality(S) = Cardinality(A) + Cardinality(B)
      /\ Cardinality(A) \in Nat /\ Cardinality(B) \in Nat /\ Cardinality({}) = 0
  <2>1. DOMAIN admitted = 1..Len(admitted) /\ 1 \in Int /\ Len(admitted) \in Int
    BY <1>2, History
  <2>2. IsFiniteSet(DOMAIN admitted)
    BY <2>1, FS_Interval
  <2>3. IsFiniteSet(A) /\ IsFiniteSet(B)
    BY <1>2, <1>4, <2>2, FS_Subset
  <2>4. Cardinality(A \cup B) = Cardinality(A) + Cardinality(B) - Cardinality(A \cap B)
    BY <2>3, FS_Union
  <2>5. Cardinality({}) = 0
    BY FS_EmptySet
  <2>6. Cardinality(A) \in Nat /\ Cardinality(B) \in Nat
    BY <2>3, FS_CardinalityType
  <2>7. Cardinality(A \cap B) = 0 /\ Cardinality(S) = Cardinality(A \cup B)
    BY <1>4, <2>5
  <2> QED
    BY <2>4, <2>5, <2>6, <2>7
<1>9. (\A i \in S : admitted[i].limits.rpm > 0) =>
         \E i \in S : Cardinality(S) <= 2 * admitted[i].limits.rpm
  <2> SUFFICES ASSUME \A i \in S : admitted[i].limits.rpm > 0
               PROVE  \E i \in S : Cardinality(S) <= 2 * admitted[i].limits.rpm
    OBVIOUS
  <2>1. l \in S /\ admitted[l].limits.rpm \in Nat /\ Cardinality(A) <= admitted[l].limits.rpm
    BY <1>2, <1>4, <1>5
  <2>2. CASE B = {}
    BY <1>8, <2>1, <2>2
  <2>3. CASE B # {}
    <3>1. PICK m \in B : admitted[m].limits.rpm > 0 => Cardinality(B) <= admitted[m].limits.rpm
      BY <1>6, <2>3
    <3>2. m \in S /\ admitted[m].limits.rpm \in Nat /\ Cardinality(B) <= admitted[m].limits.rpm
      BY <1>2, <1>4, <3>1
    <3>3. CASE admitted[l].limits.rpm <= admitted[m].limits.rpm
      BY <1>8, <2>1, <3>2, <3>3
    <3>4. CASE admitted[m].limits.rpm <= admitted[l].limits.rpm
      BY <1>8, <2>1, <3>2, <3>4
    <3> QED
      BY <2>1, <3>2, <3>3, <3>4
  <2> QED
    BY <2>2, <2>3
<1>10. (\A i \in S : admitted[i].limits.tpm > 0) =>
          \E i \in S : TokensOf(admitted, S) <= 2 * admitted[i].limits.tpm
  <2> SUFFICES ASSUME \A i \in S : admitted[i].limits.tpm > 0
               PROVE  \E i \in S : TokensOf(admitted, S) <= 2 * admitted[i].limits.tpm
    OBVIOUS
  <2>1. l \in S /\ admitted[l].limits.tpm \in Nat /\ TokensOf(admitted, A) <= admitted[l].limits.tpm
    BY <1>2, <1>4, <1>5
  <2>2. CASE B = {}
    BY <1>7, <2>1, <2>2
  <2>3. CASE B # {}
    <3>1. PICK m \in B : admitted[m].limits.tpm > 0 => TokensOf(admitted, B) <= admitted[m].limits.tpm
      BY <1>6, <2>3
    <3>2. m \in S /\ admitted[m].limits.tpm \in Nat /\ TokensOf(admitted, B) <= admitted[m].limits.tpm
      BY <1>2, <1>4, <3>1
    <3>3. CASE admitted[l].limits.tpm <= admitted[m].limits.tpm
      BY <1>7, <2>1, <3>2, <3>3
    <3>4. CASE admitted[m].limits.tpm <= admitted[l].limits.tpm
      BY <1>7, <2>1, <3>2, <3>4
    <3> QED
      BY <2>1, <3>2, <3>3, <3>4
  <2> QED
    BY <2>2, <2>3
<1> QED
  BY <1>9, <1>10 DEF S

(* In any minute, however it lies over the limiter's windows, a key gets   *)
(* at most twice the requests and twice the tokens one of the limits it    *)
(* was admitted under allows, through every edit of its entry.             *)
THEOREM MinutesAreBudgeted == AdmissionSpec => []MinuteBudget
<1>1. LimiterInv => MinuteBudget
  BY LimiterBudget
<1> QED
  BY <1>1, LimiterHolds, PTL

(* Keys, windows and requests have their types, and a window is there only *)
(* for a key that had a request admitted.                                  *)
THEOREM AdmissionTypes == AdmissionSpec => []AdmissionTypeOK
<1>1. LimiterInv => AdmissionTypeOK
  <2> SUFFICES ASSUME LimiterInv
               PROVE  AdmissionTypeOK
    OBVIOUS
  <2>1. DOMAIN windows \subseteq {x.id : x \in {admitted[i] : i \in DOMAIN admitted}}
    <3> SUFFICES ASSUME NEW k \in DOMAIN windows
                 PROVE  \E x \in {admitted[i] : i \in DOMAIN admitted} : x.id = k
      OBVIOUS
    <3>1. CountedIn(admitted, k, windows[k].startedAt) # {}
      BY DEF LimiterInv, WindowsOK
    <3>2. PICK i \in DOMAIN admitted : admitted[i].id = k
      BY <3>1 DEF CountedIn
    <3> QED
      BY <3>2
  <2>2. \A k \in DOMAIN windows : windows[k].startedAt \in 0..clock
    BY DEF LimiterInv, WindowsOK
  <2> QED
    BY <2>1, <2>2 DEF LimiterInv, VisitsOK, AdmissionTypeOK
<1> QED
  BY <1>1, LimiterHolds, PTL
=============================================================================
