------------------------------ MODULE Enrolment ------------------------------
(***************************************************************************)
(* The Microsoft login that adds an upstream account (kiro-go): two pasted *)
(* callbacks, profile discovery and a profile selection, the cancellation  *)
(* and the timers (auth/microsoft_sso.go, proxy/handler.go).               *)
(*                                                                         *)
(* Every call of the HTTP interface is a goroutine; a session or selection *)
(* has its own mutex, the maps and the cancellation marks have others.     *)
(* A profile selection is known by the login it belongs to.                *)
(***************************************************************************)
EXTENDS Integers, FiniteSets, SequencesExt

CONSTANTS
    Calls,          \* calls of the administration interface
    Logins,         \* Microsoft sessions
    MaxSessions,    \* microsoftSSOMaxSessions
    MaxSelections,  \* microsoftMaxPendingProfileSelections
    MaxTombstones   \* microsoftMaxCanceledSessionTombstones

ASSUME EnrolmentAssumption ==
    /\ {MaxSessions, MaxSelections, MaxTombstones} \subseteq Nat \ {0}
    /\ Logins # {} /\ "free" \notin Calls

VARIABLES
    table,          \* microsoftSSOSessions
    session,        \* the sessions themselves
    holder,         \* who has session.mu
    selections,     \* h.microsoftSelections
    selection,      \* the selections themselves
    chooser,        \* who has selection.mu
    overdue,        \* what has outlived its TTL: "session", "selection"
    tombstones,     \* h.microsoftCanceled, the oldest first
    discovery,      \* h.microsoftDiscoveries: the call, if its context lives
    joined,         \* accounts in cfg.Accounts by Microsoft login
    evicted,        \* history: logins whose mark gave way to another login's
    stopped,        \* history: logins whose cancellation was answered
    call            \* the calls

enrolVars == <<table, session, holder, selections, selection, chooser, overdue, tombstones,
               discovery, joined, evicted, stopped, call>>

sessionVars == <<table, session, holder>>
selectionVars == <<selections, selection, chooser>>
flowVars == <<tombstones, discovery, joined, evicted>>

Resting == [at |-> "idle", of |-> CHOOSE s \in Logins : TRUE, then |-> "done"]

Goes(c, label) ==
    call' = [call EXCEPT ![c] = IF label = "done" THEN Resting ELSE [@ EXCEPT !.at = label]]

At(c, label) == call[c].at = label
Of(c) == call[c].of

-----------------------------------------------------------------------------
(* The session table.                                                      *)

Cleared(rec) == [rec EXCEPT !.secret = FALSE]

(* detach, mark as canceled and, if nobody is inside, wipe.                *)
Discard(S) ==
    /\ table' = table \ S
    /\ session' = [s \in Logins |->
         IF s \notin S \cap table THEN session[s]
         ELSE IF holder[s] = "free" THEN Cleared([session[s] EXCEPT !.canceled = TRUE])
         ELSE [session[s] EXCEPT !.canceled = TRUE]]

StartMicrosoftSSOLogin(c) ==
    LET expired == {s \in table : "session" \in overdue[s]} IN
    /\ At(c, "idle")
    /\ \E s \in Logins :
          /\ session[s].stage = "none"
          /\ IF Cardinality(table \ expired) >= MaxSessions
             THEN Discard(expired)
             ELSE /\ table' = (table \ expired) \cup {s}
                  /\ session' = [[t \in Logins |->
                       IF t \in expired /\ holder[t] = "free"
                       THEN Cleared([session[t] EXCEPT !.canceled = TRUE])
                       ELSE IF t \in expired THEN [session[t] EXCEPT !.canceled = TRUE]
                       ELSE session[t]]
                       EXCEPT ![s] = [stage |-> "portal", canceled |-> FALSE, secret |-> TRUE]]
    /\ Goes(c, "done")
    /\ UNCHANGED <<holder, selectionVars, overdue, flowVars, stopped>>

(* getMicrosoftSSOSession, and the wait for session.mu.                    *)
CompleteFinds(c) ==
    /\ At(c, "idle")
    /\ \E s \in Logins :
          /\ session[s].stage # "none"
          /\ IF s \in table /\ "session" \notin overdue[s]
             THEN /\ call' = [call EXCEPT ![c].at = "enter", ![c].of = s]
                  /\ UNCHANGED <<table, session>>
             ELSE Discard({s} \cap table) /\ Goes(c, "done")
    /\ UNCHANGED <<holder, selectionVars, overdue, flowVars, stopped>>

(* Retire: detach, cancel and wipe, from inside.                           *)
Retire(c) ==
    /\ table' = table \ {Of(c)}
    /\ session' = [session EXCEPT ![Of(c)] = Cleared([@ EXCEPT !.canceled = TRUE])]

Leaving(c, then) == call' = [call EXCEPT ![c].at = "leave", ![c].then = then]

(* ContinueMicrosoftSSOLogin with the mutex: the checks before a leg.  A   *)
(* pasted URL may be unusable, report an error, or go to the network.      *)
CompleteEnters(c) ==
    LET s == Of(c) IN
    /\ At(c, "enter") /\ holder[s] = "free"
    /\ holder' = [holder EXCEPT ![s] = c]
    /\ IF session[s].canceled
       THEN Leaving(c, "done") /\ UNCHANGED <<table, session>>
       ELSE IF "session" \in overdue[s] THEN Retire(c) /\ Leaving(c, "done")
       ELSE \/ Leaving(c, "done") /\ UNCHANGED <<table, session>>
            \/ Leaving(c, "done") /\ Retire(c)
            \/ /\ Goes(c, IF session[s].stage = "portal" THEN "discover" ELSE "exchange")
               /\ UNCHANGED <<table, session>>
    /\ UNCHANGED <<selectionVars, overdue, flowVars, stopped>>

(* continueMicrosoftPortalLeg once the issuer's document is there, or not. *)
DiscoverAnswers(c) ==
    LET s == Of(c) IN
    /\ At(c, "discover")
    /\ \/ Leaving(c, "done") /\ UNCHANGED <<table, session>>
       \/ session[s].canceled /\ Retire(c) /\ Leaving(c, "done")
       \/ /\ ~session[s].canceled
          /\ session' = [session EXCEPT ![s].stage = "provider"]
          /\ Leaving(c, "url")
          /\ UNCHANGED table
    /\ UNCHANGED <<holder, selectionVars, overdue, flowVars, stopped>>

(* continueMicrosoftProviderLeg: a code is exchanged once, however it ends.*)
ExchangeAnswers(c) ==
    /\ At(c, "exchange")
    /\ Retire(c)
    /\ \/ Leaving(c, "done")
       \/ ~session[Of(c)].canceled /\ Leaving(c, "result")
    /\ UNCHANGED <<holder, selectionVars, overdue, flowVars, stopped>>

(* The deferred function: wipe what was canceled meanwhile; then unlock.   *)
LeaveWipes(c) ==
    /\ At(c, "leave")
    /\ session' = IF session[Of(c)].canceled
                  THEN [session EXCEPT ![Of(c)] = Cleared(@)] ELSE session
    /\ Goes(c, "unlock")
    /\ UNCHANGED <<table, holder, selectionVars, overdue, flowVars, stopped>>

LeaveUnlocks(c) ==
    /\ At(c, "unlock")
    /\ holder' = [holder EXCEPT ![Of(c)] = "free"]
    /\ Goes(c, call[c].then)
    /\ UNCHANGED <<table, session, selectionVars, overdue, flowVars, stopped>>

-----------------------------------------------------------------------------
(* apiCompleteMicrosoftSSO after the leg, and the selections.              *)

Stopped(s) == Contains(tombstones, s)

(* delete(h.microsoftCanceled, s): a login has one mark at most.           *)
Unmarked(marks, s) ==
    IF Contains(marks, s)
    THEN RemoveAt(marks, CHOOSE i \in DOMAIN marks : marks[i] = s) ELSE marks

(* Mutation: the mark of a cancellation is not looked at.                  *)
CanceledNever(s) == FALSE

(* microsoftSessionCanceledLocked                                          *)
Canceled(s) == Stopped(s)

CompleteChecks(c) ==
    /\ call[c].at \in {"url", "result"}
    /\ IF Canceled(Of(c)) THEN Discard({Of(c)}) /\ Goes(c, "done")
       ELSE /\ Goes(c, IF At(c, "url") THEN "done" ELSE "begin")
            /\ UNCHANGED <<table, session>>
    /\ UNCHANGED <<holder, selectionVars, overdue, flowVars, stopped>>

(* beginMicrosoftProfileDiscovery                                          *)
BeginDiscovery(c) ==
    LET s == Of(c) IN
    /\ At(c, "begin")
    /\ IF Canceled(s) \/ discovery[s] # "none"
       THEN Goes(c, "done") /\ UNCHANGED discovery
       ELSE discovery' = [discovery EXCEPT ![s] = c] /\ Goes(c, "profiles")
    /\ UNCHANGED <<sessionVars, selectionVars, overdue, tombstones, joined, evicted, stopped>>

(* The profiles arrive, or the context ends; endMicrosoftProfileDiscovery. *)
EndDiscovery(c) ==
    LET s == Of(c) IN
    /\ At(c, "profiles")
    /\ discovery' = [discovery EXCEPT ![s] = "none"]
    /\ \E found \in {"one", "many", "timeout"} :
          /\ discovery[s] = "ended" => found = "timeout"
          /\ Goes(c, found)
    /\ UNCHANGED <<sessionVars, selectionVars, overdue, tombstones, joined, evicted, stopped>>

(* config.AddAccount: saved, or not; the mark of a cancellation goes too.  *)
JoinAccount(s) ==
    /\ joined' = joined \cup {s}
    /\ tombstones' = Unmarked(tombstones, s)

(* Selections that have expired go when another one is stored.             *)
StoreSelection(s) ==
    LET expired == {t \in selections : "selection" \in overdue[t]}
        marked == [t \in Logins |-> IF t \in expired
                     THEN [kept |-> selection[t].kept, canceled |-> TRUE] ELSE selection[t]]
    IN IF Cardinality(selections \ expired) >= MaxSelections
       THEN selections' = selections \ expired /\ selection' = marked
       ELSE /\ selections' = (selections \ expired) \cup {s}
            /\ selection' = [marked EXCEPT ![s] = [kept |-> TRUE, canceled |-> FALSE]]

CompleteFinishes(c) ==
    LET s == Of(c) IN
    /\ call[c].at \in {"one", "many", "timeout"}
    /\ Goes(c, "done")
    /\ IF Canceled(s) \/ At(c, "timeout")
       THEN UNCHANGED <<selections, selection, tombstones, joined>>
       ELSE IF At(c, "many")
       THEN /\ \/ StoreSelection(s)
               \/ UNCHANGED <<selections, selection>>    \* the token has expired already
            /\ UNCHANGED <<tombstones, joined>>
       ELSE /\ JoinAccount(s) \/ UNCHANGED <<tombstones, joined>>
            /\ UNCHANGED <<selections, selection>>
    /\ UNCHANGED <<sessionVars, chooser, overdue, discovery, evicted, stopped>>

(* detachMicrosoftProfileSelection; what it detaches is wiped afterwards.  *)
Detach(S) ==
    /\ selections' = selections \ S
    /\ selection' = [s \in Logins |-> IF s \in S \cap selections
                       THEN [selection[s] EXCEPT !.canceled = TRUE] ELSE selection[s]]

(* discardDetachedMicrosoftProfileSelection, by whoever detached it.       *)
WipeSelection(s) ==
    /\ s \notin selections /\ selection[s].kept /\ chooser[s] = "free"
    /\ selection' = [selection EXCEPT ![s].kept = FALSE]
    /\ UNCHANGED <<sessionVars, selections, chooser, overdue, flowVars, stopped, call>>

SelectFinds(c) ==
    /\ At(c, "idle")
    /\ \E s \in selections :
          IF "selection" \in overdue[s]
          THEN Detach({s}) /\ Goes(c, "done")
          ELSE /\ call' = [call EXCEPT ![c].at = "pick", ![c].of = s]
               /\ UNCHANGED <<selections, selection>>
    /\ UNCHANGED <<sessionVars, chooser, overdue, flowVars, stopped>>

SelectLocks(c) ==
    LET s == Of(c) IN
    /\ At(c, "pick") /\ chooser[s] = "free"
    /\ \/ /\ selection[s].canceled \/ "selection" \in overdue[s]
          /\ Detach({s}) /\ Goes(c, "done")
          /\ UNCHANGED chooser
       \/ /\ ~selection[s].canceled /\ "selection" \notin overdue[s]
          /\ \/ chooser' = [chooser EXCEPT ![s] = c] /\ Goes(c, "chosen")
             \/ UNCHANGED chooser /\ Goes(c, "done")     \* a profile that was not offered
          /\ UNCHANGED <<selections, selection>>
    /\ UNCHANGED <<sessionVars, overdue, flowVars, stopped>>

(* Under microsoftFlowMu as well.                                          *)
SelectFinishes(c) ==
    LET s == Of(c)
        Used == /\ selections' = selections \ {s}
                /\ selection' = [selection EXCEPT ![s] = [kept |-> FALSE, canceled |-> TRUE]]
    IN
    /\ At(c, "chosen")
    /\ chooser' = [chooser EXCEPT ![s] = "free"]
    /\ IF selection[s].canceled \/ "selection" \in overdue[s] \/ Canceled(s)
       THEN Used /\ UNCHANGED <<tombstones, joined>>
       ELSE \/ Used /\ JoinAccount(s)
            \/ UNCHANGED <<selections, selection, tombstones, joined>>
    /\ Goes(c, "done")
    /\ UNCHANGED <<sessionVars, overdue, discovery, evicted, stopped>>

-----------------------------------------------------------------------------
(* apiCancelMicrosoftSSO and the timers.                                   *)

(* Mutation: the marks grow by one before the oldest makes room.           *)
FullByOneMore(marks) == Len(marks) > MaxTombstones

Full(marks) == Len(marks) >= MaxTombstones

(* markMicrosoftSessionCanceled: the oldest mark makes room.               *)
CancelMarks(c) ==
    /\ At(c, "idle")
    /\ \E s \in Logins :
          LET left == IF Full(tombstones) THEN Tail(tombstones) ELSE tombstones IN
          /\ session[s].stage # "none"
          /\ call' = [call EXCEPT ![c].at = "discard", ![c].of = s]
          /\ tombstones' = Append(Unmarked(left, s), s)
          /\ evicted' = evicted \cup IF Full(tombstones) THEN {Head(tombstones)} \ {s} ELSE {}
          /\ discovery' = [discovery EXCEPT ![s] = IF @ = "none" THEN @ ELSE "ended"]
    /\ UNCHANGED <<sessionVars, selectionVars, overdue, joined, stopped>>

CancelDiscards(c) ==
    /\ At(c, "discard")
    /\ Discard({Of(c)})
    /\ Goes(c, "detach")
    /\ UNCHANGED <<holder, selectionVars, overdue, flowVars, stopped>>

CancelDetaches(c) ==
    /\ At(c, "detach")
    /\ Detach({Of(c)})
    /\ stopped' = stopped \cup {Of(c)}
    /\ Goes(c, "done")
    /\ UNCHANGED <<sessionVars, chooser, overdue, flowVars>>

TimeRunsOut(s) ==
    /\ \/ s \in table /\ overdue' = [overdue EXCEPT ![s] = @ \cup {"session"}]
       \/ s \in selections /\ overdue' = [overdue EXCEPT ![s] = @ \cup {"selection"}]
    /\ UNCHANGED <<sessionVars, selectionVars, flowVars, stopped, call>>

SessionTimer(s) ==
    /\ s \in table /\ "session" \in overdue[s]
    /\ Discard({s})
    /\ UNCHANGED <<holder, selectionVars, overdue, flowVars, stopped, call>>

SelectionTimer(s) ==
    /\ s \in selections /\ "selection" \in overdue[s]
    /\ Detach({s})
    /\ UNCHANGED <<sessionVars, chooser, overdue, flowVars, stopped, call>>

(* A mark outlives every call about its login that is under way.           *)
TombstoneExpires ==
    /\ tombstones # <<>>
    /\ \A c \in Calls : At(c, "idle") \/ Of(c) # Head(tombstones)
    /\ tombstones' = Tail(tombstones)
    /\ UNCHANGED <<sessionVars, selectionVars, overdue, discovery, joined, evicted, stopped, call>>

-----------------------------------------------------------------------------
(* Of some logins the process knows nothing any more: they began before it *)
(* started.  They may still be cancelled, which takes a mark.              *)
EnrolInit ==
    /\ table = {} /\ holder = [s \in Logins |-> "free"]
    /\ \E former \in SUBSET Logins :
          session = [s \in Logins |-> IF s \in former
                       THEN [stage |-> "provider", canceled |-> TRUE, secret |-> FALSE]
                       ELSE [stage |-> "none", canceled |-> FALSE, secret |-> FALSE]]
    /\ selections = {} /\ chooser = [s \in Logins |-> "free"]
    /\ selection = [s \in Logins |-> [kept |-> FALSE, canceled |-> FALSE]]
    /\ overdue = [s \in Logins |-> {}]
    /\ tombstones = <<>> /\ discovery = [s \in Logins |-> "none"]
    /\ joined = {} /\ evicted = {} /\ stopped = {}
    /\ call = [c \in Calls |-> Resting]

(* The steps of a call that has begun.                                     *)
CallStep(c) ==
    \/ CompleteEnters(c) \/ DiscoverAnswers(c) \/ ExchangeAnswers(c)
    \/ LeaveWipes(c) \/ LeaveUnlocks(c) \/ CompleteChecks(c)
    \/ BeginDiscovery(c) \/ EndDiscovery(c) \/ CompleteFinishes(c)
    \/ SelectLocks(c) \/ SelectFinishes(c)
    \/ CancelDiscards(c) \/ CancelDetaches(c)

Begin(c) ==
    \/ StartMicrosoftSSOLogin(c) \/ CompleteFinds(c) \/ SelectFinds(c) \/ CancelMarks(c)

Timers == \E s \in Logins : SessionTimer(s) \/ SelectionTimer(s) \/ WipeSelection(s)

EnrolNext ==
    \/ \E c \in Calls : Begin(c) \/ CallStep(c)
    \/ Timers
    \/ \E s \in Logins : TimeRunsOut(s)
    \/ TombstoneExpires

EnrolSpec == EnrolInit /\ [][EnrolNext]_enrolVars

(* Calls have time-outs of their own on what they ask for, TTLs run out    *)
(* and their timers fire.                                                  *)
EnrolFairness ==
    /\ \A c \in Calls : WF_enrolVars(CallStep(c))
    /\ \A s \in Logins :
          /\ WF_enrolVars(TimeRunsOut(s)) /\ WF_enrolVars(SessionTimer(s))
          /\ WF_enrolVars(SelectionTimer(s)) /\ WF_enrolVars(WipeSelection(s))

-----------------------------------------------------------------------------
EnrolTypeOK ==
    /\ {table, selections, joined, evicted, stopped} \subseteq SUBSET Logins
    /\ Cardinality(table) <= MaxSessions /\ Cardinality(selections) <= MaxSelections
    /\ Len(tombstones) <= MaxTombstones /\ IsInjective(tombstones)
    /\ {holder, chooser} \subseteq [Logins -> Calls \cup {"free"}]
    /\ discovery \in [Logins -> Calls \cup {"none", "ended"}]

(* apiCancelMicrosoftSSO: once a cancellation of a login was answered, no  *)
(* call that was under way adds its account, whether it waits for the      *)
(* session, the provider, the profiles or the flow lock, and no selection  *)
(* does; but for a login whose mark gave way to another cancellation, of   *)
(* which the code has forgotten that it was cancelled.                     *)
CancelledAddsNothing ==
    [][\A s \in Logins : s \in joined' \ joined => s \notin stopped \ evicted]_enrolVars

(* The timers, the cancellation and the calls themselves: a credential     *)
(* that waits for a profile to be chosen is wiped in the end whoever comes *)
(* and goes, so that no lock of a session or selection stays taken.        *)
SelectionsAreWiped == \A s \in Logins : selection[s].kept ~> ~selection[s].kept
=============================================================================
