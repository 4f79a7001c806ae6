-------------------------------- MODULE SignIn --------------------------------
(***************************************************************************)
(* Registration, sign-in and sessions of one e-mail address (napkey-core:  *)
(* httpapi/auth_handlers.go, httpapi/google_oauth.go, store/sessions.go,   *)
(* store/users.go, store/oauth.go).  A handler is a sequence of database   *)
(* statements and transactions, and handlers run concurrently; what a      *)
(* handler knows of the user is the row it read.  A session is known by    *)
(* the handler that made it, a password by its value.                      *)
(***************************************************************************)
EXTENDS Integers, FiniteSets

CONSTANTS
    SignIns,        \* the requests
    Links,          \* the mailed tokens (email_tokens)
    Passwords,      \* passwords that are typed
    LoginMax,       \* loginMaxAttempts
    MaxFaults       \* bound: failed statements, expiries, suspensions

ASSUME SignInAssumption == LoginMax \in Nat \ {0} /\ MaxFaults \in Nat

VARIABLES
    user,           \* the users row
    identity,       \* oauth_identities holds the owner's subject for the user
    trials,         \* trial_grants for the user
    sources,        \* the client's trial fingerprint has been used
    sessions,       \* sessions rows: none, live, expired
    links,          \* email_tokens rows
    attempts,       \* auth_attempts of scope login in the window
    hand,           \* the handlers: where they are and what they read
    resets,         \* history: password changes so far
    knew,           \* history: of these, those a session's sign-in had seen
    accepted,       \* history: how often a link was accepted
    faults

signInVars == <<user, identity, trials, sources, sessions, links, attempts,
                hand, resets, knew, accepted, faults>>

NoUser == [exists |-> FALSE, verified |-> FALSE, active |-> TRUE, pw |-> "none",
           legacy |-> FALSE]
Waiting == [at |-> "idle", typed |-> "none", row |-> NoUser, seen |-> 0,
            purpose |-> "none", session |-> "none"]

rows == <<user, identity, trials, sources>>
history == <<resets, knew, accepted>>

Fault == faults < MaxFaults /\ faults' = faults + 1

Goes(q, label) ==
    hand' = [hand EXCEPT ![q] = IF label = "done" THEN [Waiting EXCEPT !.at = label]
                                ELSE [@ EXCEPT !.at = label]]

-----------------------------------------------------------------------------
(* What the store does.                                                    *)

LiveLinks(purpose) == {l \in Links : links[l] = [purpose |-> purpose, live |-> TRUE]}

(* Mutation: the token is looked up without its consumed_at.               *)
ConsumeEmailTokenAgain(l, purpose) ==
    /\ links[l].purpose = purpose
    /\ links' = [links EXCEPT ![l].live = FALSE]
    /\ accepted' = [accepted EXCEPT ![l] = @ + 1]

(* One UPDATE ... WHERE consumed_at IS NULL RETURNING.                     *)
ConsumeEmailToken(l, purpose) ==
    /\ l \in LiveLinks(purpose)
    /\ links' = [links EXCEPT ![l].live = FALSE]
    /\ accepted' = [accepted EXCEPT ![l] = @ + 1]

(* A grant once per user and once per source; the same in both callers.    *)
GrantedTrial ==
    IF trials = 0 /\ ~sources
    THEN trials' = 1 /\ sources' = TRUE
    ELSE UNCHANGED <<trials, sources>>

(* A new password ends the sessions, except the one that is kept.          *)
UpdatePasswordHash(pw, kept) ==
    /\ user' = [user EXCEPT !.pw = pw, !.legacy = FALSE]
    /\ sessions' = [s \in SignIns |-> IF s = kept THEN sessions[s] ELSE "none"]

-----------------------------------------------------------------------------
(* Registration, and the mails with a link.                                *)

HandleRegister(q) ==
    /\ hand[q].at = "idle"
    /\ \E pw \in Passwords :
          IF ~user.exists
          THEN /\ user' = [NoUser EXCEPT !.exists = TRUE, !.pw = pw]
               /\ hand' = [hand EXCEPT ![q].at = "retire", ![q].purpose = "verify_email"]
          ELSE /\ UNCHANGED user
               /\ hand' = [hand EXCEPT
                    ![q].at = IF user.verified THEN "done" ELSE "retire",
                    ![q].purpose = IF user.verified THEN "none" ELSE "verify_email"]
    /\ UNCHANGED <<identity, trials, sources, sessions, links, attempts, history, faults>>

(* handleResendVerification and handleForgotPassword.                      *)
AskForLink(q) ==
    /\ hand[q].at = "idle" /\ user.exists
    /\ \/ /\ ~user.verified
          /\ hand' = [hand EXCEPT ![q].at = "retire", ![q].purpose = "verify_email"]
       \/ hand' = [hand EXCEPT ![q].at = "retire", ![q].purpose = "reset_password"]
    /\ UNCHANGED <<rows, sessions, links, attempts, history, faults>>

(* A failure to retire the earlier links is only logged.                   *)
InvalidateEmailTokens(q) ==
    /\ hand[q].at = "retire"
    /\ \/ /\ links' = [l \in Links |->
                         IF l \in LiveLinks(hand[q].purpose)
                         THEN [links[l] EXCEPT !.live = FALSE] ELSE links[l]]
          /\ UNCHANGED faults
       \/ Fault /\ UNCHANGED links
    /\ Goes(q, "issue")
    /\ UNCHANGED <<rows, sessions, attempts, history>>

CreateEmailToken(q) ==
    /\ hand[q].at = "issue"
    /\ \/ /\ \E l \in Links :
                /\ links[l].purpose = "none"
                /\ links' = [links EXCEPT ![l] = [purpose |-> hand[q].purpose, live |-> TRUE]]
          /\ UNCHANGED faults
       \/ Fault /\ UNCHANGED links
       \/ (\A l \in Links : links[l].purpose # "none") /\ UNCHANGED <<links, faults>>
    /\ Goes(q, "done")
    /\ UNCHANGED <<rows, sessions, attempts, history>>

VerifyEmailAndGrantTrial(q) ==
    /\ hand[q].at = "idle"
    /\ \E l \in Links : ConsumeEmailToken(l, "verify_email")
    /\ user' = [user EXCEPT !.verified = TRUE]
    /\ GrantedTrial
    /\ Goes(q, "done")
    /\ UNCHANGED <<identity, sessions, attempts, resets, knew, faults>>

(* handleResetPassword: the link is spent before the password is stored.   *)
ResetConsumes(q) ==
    /\ hand[q].at = "idle"
    /\ \E l \in Links : ConsumeEmailToken(l, "reset_password")
    /\ \E pw \in Passwords :
          hand' = [hand EXCEPT ![q].at = "set", ![q].typed = pw]
    /\ UNCHANGED <<rows, sessions, attempts, resets, knew, faults>>

ResetSets(q) ==
    /\ hand[q].at = "set"
    /\ \/ /\ UpdatePasswordHash(hand[q].typed, "nobody")
          /\ resets' = resets + 1
          /\ UNCHANGED faults
       \/ Fault /\ UNCHANGED <<user, sessions, resets>>
    /\ Goes(q, "done")
    /\ UNCHANGED <<identity, trials, sources, links, attempts, knew, accepted>>

-----------------------------------------------------------------------------
(* handleLogin.                                                            *)

(* underLimit: a count that fails lets the login in, and logins that count *)
(* before any of them is recorded are all let in.  The limit of the        *)
(* client's address works the same way and is left out.                    *)
CountAuthAttempts(q) ==
    /\ hand[q].at = "idle"
    /\ \/ /\ Goes(q, IF attempts < LoginMax THEN "record" ELSE "done")
          /\ UNCHANGED faults
       \/ Fault /\ Goes(q, "record")
    /\ UNCHANGED <<rows, sessions, links, attempts, history>>

(* A failure to record is only logged.                                     *)
RecordAuthAttempt(q) ==
    /\ hand[q].at = "record"
    /\ \/ attempts' = attempts + 1 /\ UNCHANGED faults
       \/ Fault /\ UNCHANGED attempts
    /\ Goes(q, "read")
    /\ UNCHANGED <<rows, sessions, links, history>>

(* What the handler carries on with: the row as it is now.                 *)
CarriesRow(q) ==
    \E pw \in Passwords :
        hand' = [hand EXCEPT ![q] = [Waiting EXCEPT !.at = "verify", !.typed = pw,
                                                    !.row = user, !.seen = resets]]

GetUserByEmail(q) ==
    /\ hand[q].at = "read"
    /\ \/ user.exists /\ CarriesRow(q) /\ UNCHANGED faults
       \/ ~user.exists /\ Goes(q, "done") /\ UNCHANGED faults
       \/ Fault /\ Goes(q, "done")
    /\ UNCHANGED <<rows, sessions, links, attempts, history>>

LoginVerifies(q) ==
    LET row == hand[q].row IN
    /\ hand[q].at = "verify"
    /\ Goes(q, IF hand[q].typed # row.pw \/ ~row.active THEN "done"
               ELSE IF row.legacy THEN "rehash" ELSE "session")
    /\ UNCHANGED <<rows, sessions, links, attempts, history, faults>>

(* The hash of the typed password replaces whatever is stored by now.      *)
Rehash(q) ==
    /\ hand[q].at = "rehash"
    /\ \/ UpdatePasswordHash(hand[q].typed, "nobody") /\ UNCHANGED faults
       \/ Fault /\ UNCHANGED <<user, sessions>>
    /\ Goes(q, "session")
    /\ UNCHANGED <<identity, trials, sources, links, attempts, history>>

CreateSession(q) ==
    /\ hand[q].at = "session"
    /\ \/ /\ sessions' = [sessions EXCEPT ![q] = "live"]
          /\ knew' = [knew EXCEPT ![q] = hand[q].seen]
          /\ Goes(q, IF hand[q].typed = "none" THEN "done" ELSE "clear")
          /\ UNCHANGED faults
       \/ Fault /\ Goes(q, "done") /\ UNCHANGED <<sessions, knew>>
    /\ UNCHANGED <<rows, links, attempts, resets, accepted>>

(* The end of handleLogin; a failure is only logged.                       *)
ClearAuthAttempts(q) ==
    /\ hand[q].at = "clear"
    /\ \/ attempts' = 0 /\ UNCHANGED faults
       \/ Fault /\ UNCHANGED attempts
    /\ Goes(q, "done")
    /\ UNCHANGED <<rows, sessions, links, history>>

-----------------------------------------------------------------------------
(* Google.                                                                 *)

HandleGoogleStart(q) ==
    /\ hand[q].at = "idle"
    /\ Goes(q, "consent")
    /\ UNCHANGED <<rows, sessions, links, attempts, history, faults>>

(* The cookies are cleared whatever the callback brings.  A subject other  *)
(* than the linked one cannot be linked to the same user.                  *)
FindOrCreateOAuthUser(q) ==
    /\ hand[q].at = "consent"
    /\ \/ /\ user' = [(IF user.exists THEN user ELSE [NoUser EXCEPT !.exists = TRUE])
                         EXCEPT !.verified = TRUE]
          /\ identity' = TRUE
          /\ hand' = [hand EXCEPT ![q].at = IF user.active THEN "trial" ELSE "done",
                                  ![q].row = IF user.active THEN user' ELSE NoUser,
                                  ![q].seen = IF user.active THEN resets ELSE 0]
       \/ Goes(q, "done") /\ UNCHANGED <<user, identity>>
    /\ UNCHANGED <<trials, sources, sessions, links, attempts, history, faults>>

GrantTrialForUser(q) ==
    /\ hand[q].at = "trial"
    /\ \/ GrantedTrial /\ Goes(q, "session") /\ UNCHANGED faults
       \/ Fault /\ Goes(q, "done") /\ UNCHANGED <<trials, sources>>
    /\ UNCHANGED <<user, identity, sessions, links, attempts, history>>

-----------------------------------------------------------------------------
(* With a session.                                                         *)

(* LookupSession joins the session with its user.                          *)
Authenticated(s) == sessions[s] = "live" /\ user.active

ChangeAuthenticates(q) ==
    /\ hand[q].at = "idle"
    /\ \E s \in SignIns, pw \in Passwords :
          /\ Authenticated(s)
          /\ hand' = [hand EXCEPT ![q] = [Waiting EXCEPT !.at = "change", !.typed = pw,
                                                         !.row = user, !.session = s]]
    /\ UNCHANGED <<rows, sessions, links, attempts, history, faults>>

(* The current password was compared with the row of the lookup.           *)
ChangePassword(q) ==
    LET s == hand[q].session IN
    /\ hand[q].at = "change"
    /\ \/ /\ UpdatePasswordHash(hand[q].typed, s)
          /\ resets' = resets + 1
          /\ knew' = [knew EXCEPT ![s] = resets + 1]
       \/ UNCHANGED <<user, sessions, resets, knew>>    \* not the current password
    /\ Goes(q, "done")
    /\ UNCHANGED <<identity, trials, sources, links, attempts, accepted, faults>>

HandleLogout(q) ==
    /\ hand[q].at = "idle"
    /\ \E s \in SignIns : /\ sessions[s] # "none"
                          /\ sessions' = [sessions EXCEPT ![s] = "none"]
    /\ Goes(q, "done")
    /\ UNCHANGED <<rows, links, attempts, history, faults>>

SetUserStatus ==
    /\ user.exists /\ Fault
    /\ user' = [user EXCEPT !.active = ~@]
    /\ sessions' = IF user.active THEN [s \in SignIns |-> "none"] ELSE sessions
    /\ UNCHANGED <<identity, trials, sources, links, attempts, hand, history>>

(* Time: a session or a link expires, the window of attempts moves on, and *)
(* the janitor deletes what has expired.                                   *)
TimePasses ==
    /\ Fault
    /\ \/ /\ \E s \in SignIns : /\ sessions[s] = "live"
                                /\ sessions' = [sessions EXCEPT ![s] = "expired"]
          /\ UNCHANGED <<links, attempts>>
       \/ /\ \E l \in Links : /\ links[l].live
                              /\ links' = [links EXCEPT ![l].live = FALSE]
          /\ UNCHANGED <<sessions, attempts>>
       \/ /\ attempts > 0 /\ attempts' = attempts - 1
          /\ UNCHANGED <<sessions, links>>
    /\ UNCHANGED <<rows, hand, history>>

PruneSessions ==
    /\ \E s \in SignIns : sessions[s] = "expired"
    /\ sessions' = [s \in SignIns |-> IF sessions[s] = "expired" THEN "none" ELSE sessions[s]]
    /\ UNCHANGED <<rows, links, attempts, hand, history, faults>>

-----------------------------------------------------------------------------
(* The address is unknown, or registered long ago with an older hash.      *)
SignInInit ==
    /\ \/ user = NoUser
       \/ \E pw \in Passwords : user = [exists |-> TRUE, verified |-> TRUE, active |-> TRUE,
                                        pw |-> pw, legacy |-> TRUE]
    /\ identity = FALSE /\ trials = 0 /\ sources = FALSE
    /\ sessions = [s \in SignIns |-> "none"]
    /\ links = [l \in Links |-> [purpose |-> "none", live |-> FALSE]]
    /\ attempts = 0
    /\ hand = [q \in SignIns |-> Waiting]
    /\ resets = 0 /\ knew = [s \in SignIns |-> 0]
    /\ accepted = [l \in Links |-> 0] /\ faults = 0

SignInNext ==
    \/ \E q \in SignIns :
          \/ HandleRegister(q) \/ AskForLink(q) \/ InvalidateEmailTokens(q)
          \/ CreateEmailToken(q) \/ VerifyEmailAndGrantTrial(q)
          \/ ResetConsumes(q) \/ ResetSets(q)
          \/ CountAuthAttempts(q) \/ RecordAuthAttempt(q) \/ GetUserByEmail(q)
          \/ LoginVerifies(q) \/ Rehash(q) \/ CreateSession(q) \/ ClearAuthAttempts(q)
          \/ HandleGoogleStart(q) \/ FindOrCreateOAuthUser(q) \/ GrantTrialForUser(q)
          \/ ChangeAuthenticates(q) \/ ChangePassword(q) \/ HandleLogout(q)
    \/ SetUserStatus \/ TimePasses \/ PruneSessions

SignInSpec == SignInInit /\ [][SignInNext]_signInVars

-----------------------------------------------------------------------------
SignInTypeOK ==
    /\ user \in [exists: BOOLEAN, verified: BOOLEAN, active: BOOLEAN,
                 pw: Passwords \cup {"none"}, legacy: BOOLEAN]
    /\ {identity, sources} \subseteq BOOLEAN /\ trials \in 0..1
    /\ sessions \in [SignIns -> {"none", "live", "expired"}]
    /\ links \in [Links -> [purpose: {"none", "verify_email", "reset_password"},
                            live: BOOLEAN]]
    /\ attempts \in Nat /\ faults \in 0..MaxFaults

(* A mailed link takes effect once, however often and however concurrently *)
(* it is opened (ConsumeEmailToken), and one trial is granted to the user  *)
(* and its source although two handlers grant it in transactions of their  *)
(* own (VerifyEmailAndGrantTrial, GrantTrialForUser).                      *)
LinksAreSingleUse == (\A l \in Links : accepted[l] <= 1) /\ trials <= 1

(* UpdatePasswordHash and handleResetPassword: whoever signed in with the  *)
(* earlier password keeps no session once it has been changed.             *)
OldPasswordKeepsNoSession ==
    \A s \in SignIns : sessions[s] = "live" => knew[s] = resets
=============================================================================
