------------------------------- MODULE MCCore -------------------------------
(***************************************************************************)
(* The account service of napkey-core, a wallet over a repricing, and the  *)
(* PostgreSQL client.  The first two take the transactions the third       *)
(* carries for granted, so they share no state in the models and "focus"   *)
(* says which one a behaviour exercises.                                   *)
(***************************************************************************)
EXTENDS SignIn, PgWire, Reprice

VARIABLE focus
coreVars == <<signInVars, wireVars, repricedVars, focus>>

MCAmounts == {1, 2}
MCTopUps == {1}

V(go, width) == [go |-> go, width |-> width, is |-> "v", nul |-> FALSE]

(* An integer for a bigint, a wider one than an integer column takes, and  *)
(* text.                                                                   *)
MCArgs == {[value |-> V("int64", 4), oid |-> "int8"], [value |-> V("int64", 8), oid |-> "int4"],
           [value |-> V("string", 3), oid |-> "text"]}

Auth(code) == [k |-> "auth", code |-> code, plain |-> TRUE, plus |-> FALSE, valid |-> TRUE]

(* A server that lets the client in, one that refuses it, a mute one.      *)
MCGreetings == {<<Auth("sasl"), Auth("sasl-continue"), [k |-> "key"],
                  [k |-> "param", strict |-> TRUE], Ready("I")>>,
                <<Failure("server")>>, <<>>}

(* The parts that are not looked at start in one of their states.          *)
CoreInit ==
    /\ focus \in {"accounts", "wire", "repricing"}
    /\ SignInInit /\ (focus # "accounts" => user = NoUser)
    /\ PgWireInit /\ (focus # "wire" => \A r \in Callers :
                         caller[r] = NewCaller("exec", CHOOSE a \in MCArgs : TRUE))
    /\ RepriceInit /\ (focus # "repricing" => credited = 0)

CoreNext ==
    \/ focus = "accounts" /\ SignInNext /\ UNCHANGED <<wireVars, repricedVars, focus>>
    \/ focus = "wire" /\ PgWireNext /\ UNCHANGED <<signInVars, repricedVars, focus>>
    \/ focus = "repricing" /\ RepriceNext /\ UNCHANGED <<signInVars, wireVars, focus>>

CoreSpec == CoreInit /\ [][CoreNext]_coreVars

(* The rows of the account service keep their types; a connection is in    *)
(* step with its session whenever it lies idle.                            *)
CoreTypeOK == IF focus = "wire" THEN PgWireTypeOK ELSE SignInTypeOK
=============================================================================
