----------------------------- MODULE MCDataplane -----------------------------
(***************************************************************************)
(* The parts of the data plane that look after upstream accounts: the pool *)
(* and its requests, the Microsoft login that adds an account, the imports.*)
(* They share no state in the models, so a behaviour exercises one of them *)
(* and leaves the others at rest: "focus" says which.                      *)
(***************************************************************************)
EXTENDS AccountPool, Enrolment, Imports, TLC

CONSTANTS a1, a2, r1, r2, c1, c2, l1, l2, i1, i2, d1

VARIABLE focus
vars == <<poolVars, enrolVars, importVars, focus>>

MCRank == (a1 :> 2) @@ (a2 :> 1)

(* Who is there when the pool is looked at, with one thing going wrong:    *)
(* one account and two requests, or two accounts and one request; and with *)
(* nothing going wrong, one of each and a change by the administrator or a *)
(* sweep.                                                                  *)
Attended ==
    LET known == {a \in Accounts : conf[a].present}
        coming == {r \in PoolRequests : actor[r].at = "idle"}
        Left(t, v, m) == tasks = t /\ moves = v /\ mishaps = m
    IN /\ lapsed = (a1 :> 1) @@ (a2 :> 0)
       /\ cooling = (a1 :> "none") @@ (a2 :> "future")
       /\ upstream[a1] = 1 /\ upstream[a2] \in {1, MaxVersion}
       /\ \/ upstream[a2] = 1 /\ known = {a1} /\ coming = PoolRequests /\ Left(MaxTasks, MaxMoves, 0)
          \/ upstream[a2] = 1 /\ known = Accounts /\ coming = {r1} /\ Left(MaxTasks, MaxMoves, 0)
          \/ upstream[a2] = 1 /\ known = {a1} /\ coming = {r1} /\ Left(0, MaxMoves, MaxMishaps)
          \/ upstream[a2] = MaxVersion /\ known = {a1} /\ coming = {r1} /\ Left(MaxTasks, 0, MaxMishaps)

(* No account, no request, nobody at work.                                 *)
Unattended ==
    /\ \A a \in Accounts : ~conf[a].present /\ upstream[a] = 1 /\ lapsed[a] = 0 /\ cooling[a] = "none"
    /\ \A r \in PoolRequests : actor[r].at = "done"
    /\ tasks = MaxTasks /\ moves = MaxMoves /\ mishaps = MaxMishaps

(* One login is to come; another, of before the start, may be cancelled.   *)
Coming == {s \in Logins : session[s].stage = "none"} = {l1}

Init ==
    /\ focus \in {"pool", "enrolment", "imports"}
    /\ PoolInit /\ (IF focus = "pool" THEN Attended ELSE Unattended)
    /\ EnrolInit /\ Coming
    /\ ImportsInit

Next ==
    \/ focus = "pool" /\ PoolNext /\ UNCHANGED <<enrolVars, importVars, focus>>
    \/ focus = "enrolment" /\ EnrolNext /\ UNCHANGED <<poolVars, importVars, focus>>
    \/ focus = "imports" /\ ImportsNext /\ UNCHANGED <<poolVars, enrolVars, focus>>

(* At rest the other parts have no step that fairness would ask for.       *)
Spec == Init /\ [][Next]_vars /\ PoolFairness /\ EnrolFairness

(* The tables of the data plane keep their types and their limits.         *)
DataplaneTypeOK ==
    IF focus = "pool" THEN PoolTypeOK ELSE IF focus = "imports" THEN ImportsTypeOK ELSE EnrolTypeOK

(* The accounts that come to be are those somebody still wants, each once: *)
(* a login that was cancelled adds none, an export imported again neither. *)
AccountsAreWanted == CancelledAddsNothing /\ []SourcesImportedOnce

(* Whatever has been begun comes to an end: a request is answered or turned*)
(* away, a credential that waits for a choice is wiped.                    *)
WorkEnds == RequestsAnswered /\ SelectionsAreWiped
=============================================================================
