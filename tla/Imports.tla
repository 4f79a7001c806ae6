------------------------------- MODULE Imports -------------------------------
(***************************************************************************)
(* The other ways to add an upstream account (kiro-go): the IAM and        *)
(* Builder ID logins (auth/iam_sso.go, auth/builderid.go) and the import   *)
(* of exported credentials (apiImportCredentials in proxy/handler.go,      *)
(* AddAccount in config/config.go).                                        *)
(***************************************************************************)
EXTENDS Integers

CONSTANTS
    Importers,      \* calls of the administration interface
    DeviceLogins,   \* Builder ID and IAM sessions
    MaxTokens       \* bound: refresh tokens an identity provider issues

ASSUME ImportsAssumption == MaxTokens \in Nat \ {0}

VARIABLES
    device,         \* sessions and builderIdSessions
    vault,          \* imported accounts: fingerprint, present refresh token and,
                    \* as a history, the token that was imported
    issued,         \* how many refresh tokens the provider has issued
    importer,       \* who has credentialImportMu
    caller          \* the calls

importVars == <<device, vault, issued, importer, caller>>

Asleep == [at |-> "idle", of |-> "none", token |-> 0, got |-> 0]

Turns(c, label) ==
    caller' = [caller EXCEPT ![c] = IF label = "done" THEN Asleep ELSE [@ EXCEPT !.at = label]]

Is(c, label) == caller[c].at = label

-----------------------------------------------------------------------------
(* Builder ID and IAM: a session is read, the provider is asked without a  *)
(* lock, and its answer decides.  It grants one code or device once.       *)

StartDeviceLogin(c) ==
    /\ Is(c, "idle")
    /\ \E d \in DeviceLogins :
          /\ device[d] = "none"
          /\ device' = [e \in DeviceLogins |-> IF e = d THEN "open"
                          ELSE IF device[e] = "expired" THEN "gone" ELSE device[e]]
    /\ Turns(c, "done")
    /\ UNCHANGED <<vault, issued, importer>>

PollReads(c) ==
    /\ Is(c, "idle")
    /\ \E d \in DeviceLogins :
          /\ device[d] # "none"
          /\ IF device[d] = "open"
             THEN caller' = [caller EXCEPT ![c].at = "poll", ![c].of = d] /\ UNCHANGED device
             ELSE /\ device' = [device EXCEPT ![d] = IF @ = "expired" THEN "gone" ELSE @]
                  /\ Turns(c, "done")
    /\ UNCHANGED <<vault, issued, importer>>

(* Pending, slow_down and errors leave the session; a refusal deletes it,  *)
(* and so do the tokens, which make an account unless it cannot be saved.  *)
PollAnswers(c) ==
    LET d == caller[c].of IN
    /\ Is(c, "poll")
    /\ \/ UNCHANGED device
       \/ device[d] # "added" /\ device' = [device EXCEPT ![d] = "gone"]
       \/ device[d] \in {"open", "expired"} /\ device' = [device EXCEPT ![d] = "added"]
    /\ Turns(c, "done")
    /\ UNCHANGED <<vault, issued, importer>>

DeviceLapses(d) ==
    /\ device[d] = "open"
    /\ device' = [device EXCEPT ![d] = "expired"]
    /\ UNCHANGED <<vault, issued, importer, caller>>

-----------------------------------------------------------------------------
(* apiImportCredentials, for exports of one upstream account: refresh      *)
(* tokens are numbered as the provider issued them.                        *)

Known(t) == \E a \in vault : t \in {a.print, a.token}

ImportChecks(c) ==
    /\ Is(c, "idle") /\ importer = "free"
    /\ \E t \in 1..issued :
          IF Known(t) THEN Turns(c, "done") /\ UNCHANGED importer
          ELSE /\ importer' = c
               /\ caller' = [caller EXCEPT ![c].at = "trade", ![c].token = t]
    /\ UNCHANGED <<device, vault, issued>>

(* The refresh every import begins with may bring a new token.             *)
ImportTrades(c) ==
    /\ Is(c, "trade")
    /\ \/ /\ importer' = "free" /\ Turns(c, "done")    \* refused, or the profile is not offered
          /\ issued' \in {issued, issued + 1} \cap (1..MaxTokens)
       \/ /\ issued' \in {issued, issued + 1} \cap (1..MaxTokens)
          /\ caller' = [caller EXCEPT ![c].at = "add",
                ![c].got = IF issued' = issued THEN caller[c].token ELSE issued']
          /\ UNCHANGED importer
    /\ UNCHANGED <<device, vault>>

(* The fingerprint is that of the token that was imported.                 *)
Imported(first, token) == [from |-> first, print |-> first, token |-> token]

ImportAdds(c) ==
    LET new == Imported(caller[c].token, caller[c].got) IN
    /\ Is(c, "add")
    /\ \/ /\ ~\E a \in vault : a.token = new.token \/ a.print = new.print
          /\ vault' = vault \cup {new}
       \/ UNCHANGED vault
    /\ importer' = "free"
    /\ Turns(c, "done")
    /\ UNCHANGED <<device, issued>>

(* UpdateAccountCredentialState for an imported account.                   *)
VaultRotates ==
    /\ issued < MaxTokens
    /\ issued' = issued + 1
    /\ \E a \in vault : vault' = (vault \ {a}) \cup {[a EXCEPT !.token = issued']}
    /\ UNCHANGED <<device, importer, caller>>

-----------------------------------------------------------------------------
ImportsInit ==
    /\ device = [d \in DeviceLogins |-> "none"]
    /\ vault = {} /\ issued = 1 /\ importer = "free"
    /\ caller = [c \in Importers |-> Asleep]

ImportsNext ==
    \/ \E c \in Importers :
          \/ StartDeviceLogin(c) \/ PollReads(c) \/ PollAnswers(c)
          \/ ImportChecks(c) \/ ImportTrades(c) \/ ImportAdds(c)
    \/ VaultRotates
    \/ \E d \in DeviceLogins : DeviceLapses(d)

ImportsSpec == ImportsInit /\ [][ImportsNext]_importVars

-----------------------------------------------------------------------------
ImportsTypeOK ==
    /\ device \in [DeviceLogins -> {"none", "open", "expired", "gone", "added"}]
    /\ vault \subseteq [from: 1..MaxTokens, print: 1..MaxTokens, token: 1..MaxTokens]
    /\ issued \in 1..MaxTokens /\ importer \in Importers \cup {"free"}

(* apiImportCredentials with AddAccount: an exported credential makes one  *)
(* account however often it is imported, and no two accounts refresh with  *)
(* the same token, although accounts replace theirs between two imports.   *)
SourcesImportedOnce ==
    \A a, b \in vault : a.from = b.from \/ a.token = b.token => a = b
=============================================================================
