------------------------------ MODULE Admission ------------------------------
(***************************************************************************)
(* Who may call the data plane, and how often: the check of the presented  *)
(* key and of its quota, the limiter's fixed windows of a minute, and the  *)
(* accounting of served requests against the quota, while the operator     *)
(* edits the keys.  Each lookup takes the lock of the configuration for    *)
(* itself, so an edit may come between any two of them.                    *)
(*                                                                         *)
(* Abstracted: a key's value is its identity; tokens and credits are one   *)
(* quota; the clock counts in parts of a minute, WindowLength to one.      *)
(***************************************************************************)
EXTENDS Sums, Sequences, FiniteSets

CONSTANTS KeyEntries,     \* the keys there may be
          Visitors,       \* the requests in progress at once
          Limits,         \* the settings of a key: [rpm, tpm, quota], 0 for no limit
          RequestTokens,  \* what a request is estimated at and may cost
          WindowLength,   \* rateLimitWindow
          MaxClock, MaxAdmitted, MaxUsed, MaxEdits     \* bounds of the model

ASSUME AdmissionAssumption ==
  /\ RequestTokens \subseteq Nat /\ WindowLength \in Nat \ {0}
  /\ {MaxClock, MaxAdmitted, MaxUsed, MaxEdits} \subseteq Nat
  /\ Limits \subseteq [rpm : Nat, tpm : Nat, quota : Nat]

VARIABLES apiKeys,    \* cfg.ApiKeys: the settings, whether enabled, and what was used
          required,   \* cfg.RequireApiKey
          legacy,     \* whether the single key of old configurations is set
          windows,    \* rateLimiter.windows
          visitor,    \* what each request has learnt
          clock,
          admitted,   \* history: what the limiter let through in this life of the
                      \* process, and the window it was counted in
          edits
admissionVars == <<apiKeys, required, legacy, windows, visitor, clock, admitted, edits>>

NoOne == "no one"                          \* a request without a key's id in its context
VisitPlaces == {"idle", "keys", "find", "legacy", "limit", "allow", "served"}
Away == [at |-> "idle", id |-> NoOne, limits |-> [rpm |-> 0, tpm |-> 0]]

NewEntry(l) == [limits |-> l, enabled |-> TRUE, used |-> 0]
Without(f, k) == [x \in DOMAIN f \ {k} |-> f[x]]
Put(f, k, v) == [x \in DOMAIN f \union {k} |-> IF x = k THEN v ELSE f[x]]

-----------------------------------------------------------------------------
(* The operations of the limiter. *)
Fresh(k) ==
  k \notin DOMAIN windows \/ clock >= windows[k].startedAt + WindowLength
WindowOf(k) ==
  IF Fresh(k) THEN [startedAt |-> clock, requests |-> 0, tokens |-> 0] ELSE windows[k]

(* Mutation: the request at hand is not counted.                           *)
FitsOneMore(window, limits, tokens) ==
  /\ limits.rpm > 0 => window.requests <= limits.rpm
  /\ limits.tpm > 0 => window.tokens + tokens <= limits.tpm

Fits(window, limits, tokens) ==
  /\ limits.rpm > 0 => window.requests + 1 <= limits.rpm
  /\ limits.tpm > 0 => window.tokens + tokens <= limits.tpm

OverLimit(entry) == entry.limits.quota > 0 /\ entry.used >= entry.limits.quota

-----------------------------------------------------------------------------
(* authenticate: whom the request is taken for, if it may pass at all.     *)
VisitGoes(v, id, label) ==
  /\ visitor' = [visitor EXCEPT ![v] = [Away EXCEPT !.id = id, !.at = label]]
  /\ UNCHANGED <<apiKeys, required, legacy, windows, clock, admitted, edits>>

IsApiKeyRequired(v) ==
  /\ visitor[v] = Away
  /\ VisitGoes(v, NoOne, IF required THEN "keys" ELSE "served")

HasApiKeys(v) ==
  /\ visitor[v].at = "keys"
  /\ VisitGoes(v, NoOne, IF apiKeys # << >> THEN "find" ELSE "legacy")

(* The entry is a copy, which is then found enabled and within its quota.  *)
(* The routes that count tokens or list statistics end here.               *)
FindApiKeyByValue(v, k) ==
  /\ visitor[v].at = "find"
  /\ k \in DOMAIN apiKeys /\ apiKeys[k].enabled /\ ~OverLimit(apiKeys[k])
  /\ VisitGoes(v, k, "limit")

GetApiKey(v) ==
  /\ visitor[v].at = "legacy" /\ legacy
  /\ VisitGoes(v, NoOne, "served")

(* Another value than the one asked for, or none: 401, 429.                *)
NotLetIn(v) ==
  /\ visitor[v].at \in {"find", "legacy"}
  /\ VisitGoes(v, NoOne, "idle")

(* enforceRateLimit reads the key's entry anew; one that is gone meanwhile, *)
(* or has no limits, lets the request pass uncounted. *)
ReadLimits(v) ==
  LET id == visitor[v].id
      unlimited == id \notin DOMAIN apiKeys \/ (apiKeys[id].limits.rpm = 0 /\ apiKeys[id].limits.tpm = 0)
  IN /\ visitor[v].at = "limit"
     /\ visitor' = [visitor EXCEPT
          ![v].at = IF unlimited THEN "served" ELSE "allow",
          ![v].limits = IF unlimited THEN @ ELSE [rpm |-> apiKeys[id].limits.rpm, tpm |-> apiKeys[id].limits.tpm]]
     /\ UNCHANGED <<apiKeys, required, legacy, windows, clock, admitted, edits>>

(* Mutation: a refused request opens a window, or has it as before.        *)
AllowStoringRefused(v, tokens) ==
  LET id == visitor[v].id
      window == WindowOf(id)
      fits == Fits(window, visitor[v].limits, tokens)
  IN /\ visitor[v].at = "allow" /\ Len(admitted) < MaxAdmitted
     /\ windows' = Put(windows, id,
          IF fits THEN [window EXCEPT !.requests = @ + 1, !.tokens = @ + tokens] ELSE window)
     /\ visitor' = [visitor EXCEPT ![v] = IF fits THEN [@ EXCEPT !.at = "served"] ELSE Away]
     /\ admitted' = IF ~fits THEN admitted ELSE Append(admitted,
          [id |-> id, at |-> clock, since |-> window.startedAt, tokens |-> tokens,
           limits |-> visitor[v].limits])
     /\ UNCHANGED <<apiKeys, required, legacy, clock, edits>>

(* allow, under its mutex; one that is refused leaves no trace.            *)
Allow(v, tokens) ==
  LET id == visitor[v].id
      window == WindowOf(id)
  IN /\ visitor[v].at = "allow"
     /\ IF Fits(window, visitor[v].limits, tokens)
          THEN /\ Len(admitted) < MaxAdmitted
               /\ windows' = Put(windows, id, [window EXCEPT !.requests = @ + 1, !.tokens = @ + tokens])
               /\ visitor' = [visitor EXCEPT ![v].at = "served"]
               /\ admitted' = Append(admitted,
                    [id |-> id, at |-> clock, since |-> window.startedAt, tokens |-> tokens,
                     limits |-> visitor[v].limits])
          ELSE /\ visitor' = [visitor EXCEPT ![v] = Away]
               /\ UNCHANGED <<windows, admitted>>
     /\ UNCHANGED <<apiKeys, required, legacy, clock, edits>>

(* The request ends: refused by the wallet or the upstream, or served and  *)
(* recorded against the key, if the key is still there. *)
Served(v, tokens) ==
  LET id == visitor[v].id
  IN /\ visitor[v].at = "served"
     /\ id \in DOMAIN apiKeys => apiKeys[id].used + tokens <= MaxUsed
     /\ visitor' = [visitor EXCEPT ![v] = Away]
     /\ apiKeys' = IF id \in DOMAIN apiKeys THEN [apiKeys EXCEPT ![id].used = @ + tokens] ELSE apiKeys
     /\ UNCHANGED <<required, legacy, windows, clock, admitted, edits>>

(* The operator: AddApiKey, UpdateApiKey, ResetApiKeyUsage, DeleteApiKey   *)
(* and the settings of the switch and of the legacy key. *)
Edit(keys, switch, old) ==
  /\ edits < MaxEdits
  /\ edits' = edits + 1 /\ apiKeys' = keys /\ required' = switch /\ legacy' = old
  /\ UNCHANGED <<windows, visitor, clock, admitted>>

EditKey(k) ==
  \/ /\ k \notin DOMAIN apiKeys
     /\ \E l \in Limits : Edit(Put(apiKeys, k, NewEntry(l)), required, legacy)
  \/ /\ k \in DOMAIN apiKeys
     /\ \/ \E l \in Limits, on \in BOOLEAN :
             Edit([apiKeys EXCEPT ![k].limits = l, ![k].enabled = on], required, legacy)
        \/ Edit([apiKeys EXCEPT ![k].used = 0], required, legacy)
        \/ Edit(Without(apiKeys, k), required, legacy)

(* A restart loses the windows and the requests, and keeps the keys. *)
RestartPlane ==
  /\ edits < MaxEdits
  /\ edits' = edits + 1
  /\ windows' = << >> /\ admitted' = << >> /\ visitor' = [v \in Visitors |-> Away]
  /\ UNCHANGED <<apiKeys, required, legacy, clock>>

TimePasses ==
  /\ clock < MaxClock
  /\ clock' = clock + 1
  /\ UNCHANGED <<apiKeys, required, legacy, windows, visitor, admitted, edits>>

AdmissionInit ==
  /\ \E l \in Limits : apiKeys = [k \in KeyEntries |-> NewEntry(l)]
  /\ required = TRUE /\ legacy = TRUE
  /\ windows = << >> /\ admitted = << >> /\ clock = 0 /\ edits = 0
  /\ visitor = [v \in Visitors |-> Away]

AdmissionNext ==
  \/ \E v \in Visitors : \/ IsApiKeyRequired(v) \/ HasApiKeys(v) \/ GetApiKey(v) \/ NotLetIn(v)
                        \/ \E k \in KeyEntries : FindApiKeyByValue(v, k)
                        \/ ReadLimits(v)
  \/ \E v \in Visitors, tokens \in RequestTokens : Allow(v, tokens)
  \/ \E v \in Visitors, tokens \in RequestTokens \union {0} : Served(v, tokens)
  \/ \E k \in KeyEntries : EditKey(k)
  \/ \E on \in BOOLEAN, old \in BOOLEAN : Edit(apiKeys, on, old)
  \/ RestartPlane
  \/ TimePasses

AdmissionSpec == AdmissionInit /\ [][AdmissionNext]_admissionVars

-----------------------------------------------------------------------------
(* Keys, windows and requests have their types; only a key's own requests  *)
(* open a window for it, and none opens in the future. *)
AdmissionTypeOK ==
  /\ DOMAIN apiKeys \subseteq KeyEntries
  /\ \A k \in DOMAIN apiKeys : apiKeys[k] \in [limits : Limits, enabled : BOOLEAN, used : 0..MaxUsed]
  /\ DOMAIN windows \subseteq {a.id : a \in {admitted[i] : i \in DOMAIN admitted}}
  /\ \A k \in DOMAIN windows : windows[k].startedAt \in 0..clock
  /\ visitor \in [Visitors -> [at : VisitPlaces,
                               id : KeyEntries \union {NoOne}, limits : [rpm : Nat, tpm : Nat]]]

(* Admissions of a key within the minute that begins at t. *)
Minute(k, t) == {i \in DOMAIN admitted : admitted[i].id = k /\ admitted[i].at \in t .. (t + WindowLength - 1)}

(* The tokens of the admissions S of a history. *)
TokensOf(history, S) ==
  SumUpTo([i \in DOMAIN history |-> IF i \in S THEN history[i].tokens ELSE 0], Len(history))

(* In any minute, however it lies over the limiter's windows, a key gets   *)
(* at most twice the requests and twice the tokens that one of the limits  *)
(* it was admitted under allows, also when its limits are changed, taken   *)
(* away and given back in between.                                         *)
MinuteBudget ==
  \A k \in KeyEntries, t \in 0..MaxClock :
    LET S == Minute(k, t)
    IN S # {} =>
       /\ (\A i \in S : admitted[i].limits.rpm > 0) =>
            \E i \in S : Cardinality(S) <= 2 * admitted[i].limits.rpm
       /\ (\A i \in S : admitted[i].limits.tpm > 0) =>
            \E i \in S : TokensOf(admitted, S) <= 2 * admitted[i].limits.tpm
=============================================================================
