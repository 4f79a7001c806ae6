-------------------------------- MODULE PgWire --------------------------------
(***************************************************************************)
(* The driver between napkey-core and PostgreSQL (internal/pgwire): its    *)
(* connections, the exchange of protocol messages with the server, context *)
(* cancellation, transactions, and the reuse of connections by the pool.   *)
(*                                                                         *)
(* Every connection is an object of its own with the server session behind *)
(* it; messages travel in order and may be cut off at any point.  The      *)
(* server answers a request when it wants to: a statement may wait for a   *)
(* lock for as long as it likes.  A CancelRequest travels on a connection  *)
(* of its own and may arrive after the statement it was meant for.         *)
(* database/sql (the pool and its retries) and the server are external.    *)
(***************************************************************************)
EXTENDS Integers, Sequences, FiniteSets, SequencesExt

CONSTANTS Callers,      \* goroutines of napkey-core, each with one job
          Jobs,         \* what they may be after
          Args,         \* the arguments bound to a query: [value, oid]
          Conns,        \* bound: connections ever opened, 1..n
          MaxOpen,      \* SetMaxOpenConns
          SSLMode,      \* the mode of the connection string
          Greetings,    \* how a server may greet: sequences of messages
          MaxCuts       \* bound: connections lost

ASSUME PgWireAssumption ==
    /\ IsFiniteSet(Callers) /\ Conns \subseteq Nat \ {0} /\ IsFiniteSet(Conns)
    /\ MaxOpen \in Nat \ {0} /\ MaxCuts \in Nat
    /\ Jobs \subseteq {"exec", "query", "tx", "copy"}
    /\ SSLMode \in {"disable", "prefer", "require", "verify-full"}

VARIABLES
    conns,      \* the client's side of each connection
    server,     \* the session behind each
    caller,     \* what each goroutine is doing
    cancels,    \* CancelRequests on their way
    table,      \* how often each statement took effect for good
    cuts        \* history: connections lost so far

wireVars == <<conns, server, caller, cancels, table, cuts>>

Statements == Callers \X {1, 2}

\* A transaction is two statements; every other job is one.
StatementsOf(r) == IF caller[r].job = "tx" THEN {<<r, 1>>, <<r, 2>>} ELSE {<<r, 1>>}

(***************************************************************************)
(* The two wire formats.  A value is its Go type, its width in bytes where *)
(* that matters, and what it denotes; oid is the type the server inferred. *)
(***************************************************************************)
FixedWidth == [bool |-> 1, int2 |-> 2, int4 |-> 4, int8 |-> 8, float8 |-> 8, timestamptz |-> 8]

ResultFormat(oid) ==
    IF oid \in DOMAIN FixedWidth \cup {"bytea"} THEN "binary" ELSE "text"

ParamFormat(v, oid) ==
    IF \/ v.go = "nil"
       \/ oid \notin DOMAIN FixedWidth \cup {"bytea"}
       \/ oid = "timestamptz" /\ v.go # "time"
    THEN "text" ELSE "binary"

Unencodable == [shape |-> "error", width |-> 0, is |-> "error"]
Null        == [shape |-> "null", width |-> 0, is |-> "null"]

\* The shape a Go value has on the wire: its own, whatever the server expects.
EncodeBinaryParam(v, oid) ==
    CASE v.go = "int64" /\ oid \in {"int2", "int4"} ->
            IF v.width > FixedWidth[oid] THEN Unencodable
            ELSE [shape |-> "int64", width |-> FixedWidth[oid], is |-> v.is]
      [] \/ v.go \in {"float64", "time"}
         \/ v.go = "int64" /\ oid \notin {"int2", "int4"} ->
            [shape |-> v.go, width |-> 8, is |-> v.is]
      [] v.go = "bool" -> [shape |-> "bool", width |-> 1, is |-> v.is]
      [] OTHER -> [shape |-> "raw", width |-> v.width, is |-> v.is]

EncodeTextParam(v, oid) ==
    IF v.go = "string" /\ v.nul THEN Unencodable
    ELSE [shape |-> "text", width |-> v.width, is |-> v.is]

EncodeParam(v, oid) ==
    IF v.go = "nil" THEN Null
    ELSE IF ParamFormat(v, oid) = "binary" THEN EncodeBinaryParam(v, oid)
    ELSE EncodeTextParam(v, oid)

\* External: what the server takes the bytes of a parameter for.
ShapeOf == [bool |-> "bool", int2 |-> "int64", int4 |-> "int64", int8 |-> "int64",
            float8 |-> "float64", timestamptz |-> "time"]
ServerReads(w, oid) ==
    IF w.shape \in {"null", "text"} \/ oid \notin DOMAIN FixedWidth THEN w.is
    ELSE IF w.width # FixedWidth[oid] THEN "refused"
    ELSE IF w.shape = ShapeOf[oid] THEN w.is ELSE "misread"

\* What napkey-core binds to a column of fixed width is of that column's Go
\* type: the driver takes the type for granted when it writes binary.
ASSUME ArgsAssumption ==
    \A a \in Args :
       /\ ParamFormat(a.value, a.oid) = "binary" /\ a.oid \in DOMAIN FixedWidth =>
             a.value.go = ShapeOf[a.oid]
       /\ a.value.go = "nil" => a.value.is = "null"

\* The decoder of each format; bytes of the other format do not denote the value.
DecodeValue(col, format) ==
    IF col.is = "null" \/ col.format = format THEN col.is ELSE "misread"

(***************************************************************************)
(* Messages                                                                *)
(***************************************************************************)
Msg(k) == [k |-> k]
Info == Msg("info")            \* every message the loops pass over
Ready(tx) == [k |-> "ready", tx |-> tx]
Failure(code) == [k |-> "error", code |-> code]
Row(s, is, format) == [k |-> "row", of |-> s, is |-> is, format |-> format]

Request(ask, s) == [ask |-> ask, of |-> s, arg |-> Null, format |-> "text", oid |-> "int8"]

\* External: a server that has let a client in is ready, once, and outside of
\* a transaction.
ASSUME GreetingsAssumption ==
    \A g \in Greetings :
       /\ g \in Seq({g[i] : i \in DOMAIN g})
       /\ \A i \in DOMAIN g :
             /\ g[i].k = "ready" => i = Len(g) /\ g[i].tx = "I"
             /\ g[i].k = "param" => g[i].strict \in BOOLEAN

NoConn == 0

\* A connection is free to be opened, open or closed.  `pid' is set once the
\* server has told the key that a CancelRequest needs.
NoConnection == [state |-> "none", bad |-> FALSE, tx |-> "I", idle |-> FALSE,
                 tls |-> FALSE, pid |-> FALSE, strict |-> TRUE]

NewCaller(job, arg) ==
    [job |-> job, arg |-> arg, at |-> "want", conn |-> NoConn, doing |-> "", n |-> 1,
     ctx |-> "live", told |-> FALSE, scram |-> "none", err |-> "", rows |-> <<>>,
     format |-> "text", asked |-> FALSE, verdict |-> ""]

NoSession == [link |-> FALSE, tx |-> "I", work |-> {}, inbox |-> <<>>, killed |-> FALSE,
              outbox |-> <<>>]

PgWireInit ==
    /\ conns = [c \in Conns |-> NoConnection]
    /\ server = [c \in Conns |-> NoSession]
    /\ \E job \in [Callers -> Jobs], arg \in [Callers -> Args] :
          /\ \A r \in Callers : job[r] # "query" => arg[r] = CHOOSE a \in Args : TRUE
          /\ caller = [r \in Callers |-> NewCaller(job[r], arg[r])]
    /\ cancels = {}
    /\ table = [s \in Statements |-> 0]
    /\ cuts = 0

(***************************************************************************)
(* The read loops.  The context is looked at between messages, before the  *)
(* next one is waited for, and not by every loop: transactions end under a *)
(* context of their own, and Prepare does not look.                        *)
(***************************************************************************)
Watching == {"reset", "begin", "run", "stmt"}

Late(x) == x.ctx = "expired" /\ x.doing \in Watching

\* Waiting for the next message; the first look that finds the context over
\* sends the CancelRequest, which the network may lose.
Await(r, x) ==
    LET tells == Late(x) /\ ~x.told
    IN  /\ caller' = [caller EXCEPT ![r] = [x EXCEPT !.at = "reading", !.told = @ \/ tells]]
        /\ \/ ~tells /\ UNCHANGED <<cancels, cuts>>
           \/ /\ tells
              /\ cancels' = IF conns[x.conn].pid THEN cancels \cup {x.conn} ELSE cancels
              /\ UNCHANGED cuts
           \/ tells /\ cuts < MaxCuts /\ cuts' = cuts + 1 /\ UNCHANGED cancels

\* writeAndFlush and entering the loop.  On a connection that is gone the
\* failed write and the failed read leave the same trace; it is left by the
\* read.
Send(r, x, doing, request) ==
    /\ server' = [server EXCEPT ![x.conn].inbox =
                     IF server[x.conn].link THEN Append(@, request) ELSE @]
    /\ Await(r, [x EXCEPT !.doing = doing, !.told = FALSE, !.err = ""])

FirstErr(x, err) == IF x.err # "" THEN x.err ELSE err

\* What a failed read is reported as: not driver.ErrBadConn, which would have
\* database/sql run the statement again elsewhere.
ReadFailure == "net"

\* Mutation: The loop returns at the error and leaves the rest unread.
EndsLoopAtError(m) == m.k \in {"ready", "copy", "error"}

\* A loop runs through ReadyForQuery, an error notwithstanding.
EndsLoop(m) == m.k \in {"ready", "copy"}

Reported(x, m) ==
    CASE m.k = "error" -> FirstErr(x, IF m.code = "canceled" /\ Late(x) THEN "ctx" ELSE m.code)
      [] m.k = "copy"  -> FirstErr(x, "copy")
      [] m.k = "ready" -> FirstErr(x, IF Late(x) THEN "ctx" ELSE "")
      [] OTHER -> x.err

\* drainUntilReady, collectResult and the loop of PrepareContext.
Read(r) ==
    LET x == caller[r]
        m == Head(server[x.conn].outbox)
        y == [x EXCEPT !.err = Reported(x, m),
                       !.rows = IF m.k = "row" /\ x.doing \in {"run", "stmt"}
                                THEN Append(@, [of |-> m.of, is |-> DecodeValue(m, x.format)])
                                ELSE @]
    IN  /\ x.at = "reading" /\ server[x.conn].outbox # <<>>
        /\ server' = [server EXCEPT ![x.conn].outbox = Tail(@)]
        /\ conns' = [conns EXCEPT ![x.conn].tx = IF m.k = "ready" THEN m.tx ELSE @,
                                  ![x.conn].bad = @ \/ m.k = "copy"]
        /\ IF EndsLoop(m)
           THEN /\ caller' = [caller EXCEPT ![r] = [y EXCEPT !.at = "returned"]]
                /\ UNCHANGED <<cancels, cuts>>
           ELSE Await(r, y)
        /\ UNCHANGED table

\* readMessage finds the connection closed.
ReadFails(r) ==
    LET x == caller[r]
    IN  /\ x.at = "reading" /\ server[x.conn].outbox = <<>> /\ ~server[x.conn].link
        /\ conns' = [conns EXCEPT ![x.conn].bad = TRUE]
        /\ caller' = [caller EXCEPT ![r] =
                         [x EXCEPT !.at = "returned", !.err = FirstErr(x, ReadFailure)]]
        /\ UNCHANGED <<server, cancels, table, cuts>>

(***************************************************************************)
(* Opening a connection: connect, negotiateTLS, startup and SCRAM          *)
(***************************************************************************)
Begin(r, x) ==
    CASE x.job = "tx"    -> Send(r, x, "begin", Request("begin", <<r, 1>>))
      [] x.job = "query" -> Send(r, x, "prepare", Request("parse", <<r, 1>>))
      [] OTHER           -> Send(r, x, "run", Request(x.job, <<r, 1>>))

Opened == {c \in Conns : conns[c].state = "open"}
Idle   == {c \in Opened : conns[c].idle}

Dial(r) ==
    LET x == caller[r]
    IN  /\ x.at = "want" /\ x.ctx = "live" /\ Idle = {} /\ Cardinality(Opened) < MaxOpen
        /\ \E c \in Conns, greeting \in Greetings, tls \in {"S", "N", "E", "untrusted"} :
              /\ conns[c].state = "none" /\ \A d \in Conns : d < c => conns[d].state # "none"
              /\ conns' = [conns EXCEPT ![c].state = "open"]
              /\ server' = [server EXCEPT ![c].link = TRUE,
                     ![c].outbox = IF SSLMode = "disable" THEN greeting
                                   ELSE <<[k |-> "tls", answer |-> tls]>> \o greeting]
              /\ caller' = [caller EXCEPT ![r].at = "startup", ![r].conn = c,
                                          ![r].scram = "none"]
        /\ UNCHANGED <<cancels, table, cuts>>

\* connect returns the error, and so does the call that needed a connection.
ConnectFails(r) ==
    LET c == caller[r].conn
    IN  /\ conns' = [conns EXCEPT ![c].state = "closed", ![c].bad = TRUE]
        /\ server' = [server EXCEPT ![c] = NoSession]
        /\ caller' = [caller EXCEPT ![r].at = "done", ![r].conn = NoConn, ![r].verdict = "failed"]
        /\ UNCHANGED <<cancels, table, cuts>>

\* Which message of the handshake ends the attempt: the answer to SSLRequest
\* or the TLS handshake, a step of SCRAM that is out of place or does not
\* check out, any other.
TLSRefused(m) ==
    m.k = "tls" /\ (m.answer \in {"E", "untrusted"} \/ (m.answer = "N" /\ SSLMode # "prefer"))

SCRAMRefused(m, scram) ==
    m.k = "auth" /\ m.code \in {"sasl-continue", "sasl-final"} /\ (scram = "none" \/ ~m.valid)

Mechanism(m, tls) ==
    IF m.plus /\ tls THEN "plus" ELSE IF m.plain THEN "plain" ELSE "none"

Refused(m, x, c) ==
    \/ m.k = "error"
    \/ TLSRefused(m) \/ SCRAMRefused(m, x.scram)
    \/ m.k = "auth" /\ m.code = "unsupported"
    \/ m.k = "auth" /\ m.code = "sasl" /\ Mechanism(m, c.tls) = "none"
    \/ m.k = "ready" /\ ~c.strict

Startup(r) ==
    LET x == caller[r]
        c == conns[x.conn]
        m == Head(server[x.conn].outbox)
        opened == [c EXCEPT !.tls = @ \/ (m.k = "tls" /\ m.answer = "S"),
                            !.pid = @ \/ m.k = "key",
                            !.strict = IF m.k = "param" THEN m.strict ELSE @,
                            !.tx = IF m.k = "ready" THEN m.tx ELSE @]
    IN  /\ x.at = "startup" /\ server[x.conn].outbox # <<>>
        /\ IF Refused(m, x, c) THEN ConnectFails(r)
           ELSE /\ conns' = [conns EXCEPT ![x.conn] = opened]
                /\ server' = [server EXCEPT ![x.conn].outbox = Tail(@)]
                /\ caller' = [caller EXCEPT
                      ![r].at = IF m.k = "ready" THEN "connected" ELSE @,
                      ![r].scram = IF m.k # "auth" \/ m.code # "sasl" THEN @
                                   ELSE Mechanism(m, c.tls)]
                /\ UNCHANGED <<cancels, table, cuts>>

\* The deadline set for the handshake, or a connection lost in it.
StartupTimesOut(r) ==
    /\ caller[r].at = "startup" /\ server[caller[r].conn].outbox = <<>>
    /\ ConnectFails(r)

Connected(r) ==
    /\ caller[r].at = "connected"
    /\ Begin(r, caller[r])
    /\ UNCHANGED <<conns, table>>

(***************************************************************************)
(* The pool of database/sql: a call takes an idle connection, resets it,   *)
(* and hands it back if it is still valid.                                 *)
(***************************************************************************)
\* Mutation: A connection is handed on with the transaction it was left in.
NeedsRollbackNever(c) == FALSE

\* ResetSession rolls back what the last user left open.
NeedsRollback(c) == conns[c].tx # "I"

TakeIdle(r) ==
    /\ caller[r].at = "want" /\ caller[r].ctx = "live"
    /\ \E c \in Idle :
          LET x == [caller[r] EXCEPT !.conn = c]
          IN  /\ conns' = [conns EXCEPT ![c].idle = FALSE]
              /\ IF NeedsRollback(c) THEN Send(r, x, "reset", Request("rollback", <<r, 1>>))
                 ELSE Begin(r, x)
    /\ UNCHANGED table

\* database/sql gives a context that is over no connection.
TurnedAway(r) ==
    /\ caller[r].at = "want" /\ caller[r].ctx = "expired"
    /\ caller' = [caller EXCEPT ![r].at = "done", ![r].verdict = "failed"]
    /\ UNCHANGED <<conns, server, cancels, table, cuts>>

\* IsValid: a connection in a failed transaction is thrown away as well.
IsValid(c) == ~conns[c].bad /\ conns[c].tx # "E"

\* Close says goodbye; the session behind ends when the server notices.
HandBack(r, x, c) ==
    /\ IF IsValid(c)
       THEN conns' = [conns EXCEPT ![c].idle = TRUE] /\ UNCHANGED server
       ELSE /\ conns' = [conns EXCEPT ![c].state = "closed"]
            /\ server' = [server EXCEPT ![c].link = FALSE, ![c].outbox = <<>>]
    /\ caller' = [caller EXCEPT ![r] = x]
    /\ UNCHANGED <<cancels, table, cuts>>

\* The call returns; one that got driver.ErrBadConn outside a transaction is
\* run again by database/sql on another connection.
Conclude(r, x, verdict) ==
    HandBack(r, IF x.err = "badconn" /\ x.job # "tx"
                THEN [x EXCEPT !.at = "want", !.conn = NoConn, !.rows = <<>>]
                ELSE [x EXCEPT !.at = "done", !.conn = NoConn, !.verdict = verdict],
             x.conn)

(***************************************************************************)
(* What a call does when its exchange has returned                         *)
(***************************************************************************)
Verdict(x) == IF x.err = "" THEN "ok" ELSE "failed"

Returned(r, doing) == caller[r].at = "returned" /\ caller[r].doing = doing

\* Whatever went wrong with the ROLLBACK, the connection is thrown away and
\* another one is looked for.
AfterReset(r) ==
    LET x == caller[r]
    IN  /\ Returned(r, "reset")
        /\ IF x.err = "" THEN Begin(r, x) /\ UNCHANGED <<conns, table>>
           ELSE /\ conns' = [conns EXCEPT ![x.conn].state = "closed", ![x.conn].bad = TRUE]
                /\ server' = [server EXCEPT ![x.conn].link = FALSE, ![x.conn].outbox = <<>>]
                /\ caller' = [caller EXCEPT ![r] =
                                 [x EXCEPT !.at = "want", !.conn = NoConn, !.err = ""]]
                /\ UNCHANGED <<cancels, table, cuts>>

CloseStatement(r, x) ==
    /\ Send(r, x, "close", Request("close", <<r, 1>>))
    /\ UNCHANGED <<conns, table>>

\* bindExecute, or its error: then nothing was written and the prepared
\* statement is closed again.
AfterPrepare(r) ==
    LET x == caller[r]
        oid == x.arg.oid
        bound == EncodeParam(x.arg.value, oid)
    IN  /\ Returned(r, "prepare")
        /\ IF x.err # "" THEN Conclude(r, x, "failed")
           ELSE IF bound = Unencodable
           THEN CloseStatement(r, [x EXCEPT !.verdict = "failed"])
           ELSE /\ Send(r, [x EXCEPT !.format = ResultFormat(oid)], "run",
                        [ask |-> "execute", of |-> <<r, 1>>, arg |-> bound,
                         format |-> ResultFormat(oid), oid |-> oid])
                /\ UNCHANGED <<conns, table>>

AfterRun(r) ==
    LET x == caller[r]
    IN  /\ Returned(r, "run")
        /\ IF x.job = "query" /\ ~conns[x.conn].bad
           THEN CloseStatement(r, [x EXCEPT !.verdict = Verdict(x)])
           ELSE Conclude(r, x, Verdict(x))

AfterClose(r) ==
    LET x == caller[r]
    IN  Returned(r, "close") /\ Conclude(r, [x EXCEPT !.err = ""], x.verdict)

\* BeginTx, Commit and Rollback; a transaction whose context is over is rolled
\* back by database/sql.
RollBack(r, x) ==
    IF conns[x.conn].bad THEN Conclude(r, x, "failed")
    ELSE /\ Send(r, x, "rollback", Request("rollback", <<r, 1>>))
         /\ UNCHANGED <<conns, table>>

Statement(r, x) ==
    IF x.ctx = "expired" THEN RollBack(r, x)
    ELSE /\ Send(r, x, "stmt", Request("exec", <<r, x.n>>))
         /\ UNCHANGED <<conns, table>>

AfterBegin(r) ==
    LET x == caller[r]
    IN  /\ Returned(r, "begin")
        /\ IF x.err = "" THEN Statement(r, x) ELSE Conclude(r, x, "failed")

Commit(r, x) ==
    IF x.ctx = "expired" THEN RollBack(r, x)
    ELSE IF conns[x.conn].bad THEN Conclude(r, x, "failed")
    ELSE /\ IF conns[x.conn].tx = "E"
            THEN Send(r, x, "endfailed", Request("rollback", <<r, 1>>))
            ELSE Send(r, [x EXCEPT !.asked = TRUE], "commit", Request("commit", <<r, 1>>))
         /\ UNCHANGED <<conns, table>>

\* After a failed statement withTx rolls back, unless the function it runs
\* takes the error for an answer and goes on (a unique violation, say).
AfterStatement(r) ==
    LET x == caller[r]
    IN  /\ Returned(r, "stmt")
        /\ \/ x.n = 1 /\ ~conns[x.conn].bad /\ Statement(r, [x EXCEPT !.n = 2])
           \/ x.n = 2 /\ Commit(r, x)
           \/ x.err # "" /\ RollBack(r, x)

AfterEnd(r) ==
    LET x == caller[r]
    IN  \/ Returned(r, "commit") /\ Conclude(r, x, Verdict(x))
        \/ (Returned(r, "rollback") \/ Returned(r, "endfailed")) /\ Conclude(r, x, "failed")

(***************************************************************************)
(* External: the server, the network and the clock                         *)
(***************************************************************************)
Reply(out, tx, work, kept) == [out |-> out, tx |-> tx, work |-> work, kept |-> kept]

Done(s, out, tx, work, kept) == Reply(Append(out, Ready(tx)), tx, work, kept)
Fails(s, code) ==
    LET tx == IF s.tx = "I" THEN "I" ELSE "E"
    IN  Reply(<<Failure(code), Ready(tx)>>, tx, s.work, {})

Runs(s, q) ==
    CASE q.ask = "begin" -> {Done(s, <<Info>>, "T", s.work, {})}
      [] q.ask = "parse" -> {Done(s, <<Info>>, s.tx, s.work, {}), Fails(s, "server")}
      [] q.ask = "copy" -> {Reply(<<Msg("copy")>>, s.tx, s.work, {})}
      [] OTHER ->
            LET is  == ServerReads(q.arg, q.oid)
                out == <<Info, Row(q.of, is, q.format), Info>>
            IN  {Fails(s, "server")} \cup
                (IF is = "refused" THEN {}
                 ELSE IF s.tx = "I" THEN {Done(s, out, "I", {}, {q.of})}
                 ELSE {Done(s, out, "T", s.work \cup {q.of}, {})})

\* A failed transaction takes nothing but its end.
Replies(s, q) ==
    CASE q.ask = "rollback" \/ (q.ask = "commit" /\ s.tx = "E") ->
            {Done(s, <<Info>>, "I", {}, {})}
      [] q.ask = "commit" /\ s.tx # "E" ->
            {Done(s, <<Info>>, "I", {}, s.work),
             Reply(<<Failure("server"), Ready("I")>>, "I", {}, {})}
      [] q.ask = "close" -> {Done(s, <<Info>>, s.tx, s.work, {})}
      [] q.ask \notin {"rollback", "commit", "close"} ->
            IF s.tx = "E" THEN {Fails(s, "server")} ELSE Runs(s, q)

ServerAnswers(c) ==
    LET s == server[c]
        q == Head(s.inbox)
    IN  /\ s.inbox # <<>>
        /\ \E reply \in Replies(s, q) \cup (IF s.killed THEN {Fails(s, "canceled")} ELSE {}) :
              /\ server' = [server EXCEPT ![c] =
                    [s EXCEPT !.inbox = Tail(@), !.killed = FALSE, !.tx = reply.tx,
                              !.work = reply.work,
                              !.outbox = IF s.link THEN @ \o reply.out ELSE @]]
              /\ table' = [t \in Statements |-> table[t] + IF t \in reply.kept THEN 1 ELSE 0]
        /\ UNCHANGED <<conns, caller, cancels, cuts>>

\* A session whose client is gone ends, and its transaction with it.
SessionEnds(c) ==
    /\ ~server[c].link /\ server[c] # [NoSession EXCEPT !.outbox = server[c].outbox]
    /\ server' = [server EXCEPT ![c] = [NoSession EXCEPT !.outbox = server[c].outbox]]
    /\ UNCHANGED <<conns, caller, cancels, table, cuts>>

\* What is on its way may get through or not, in either direction.
Cut(c) ==
    /\ server[c].link /\ cuts < MaxCuts
    /\ \E k \in 0..Len(server[c].outbox), arrives \in BOOLEAN :
          server' = [server EXCEPT ![c].link = FALSE, ![c].outbox = SubSeq(@, 1, k),
                                   ![c].inbox = IF arrives THEN @ ELSE <<>>]
    /\ cuts' = cuts + 1
    /\ UNCHANGED <<conns, caller, cancels, table>>

\* It stops whatever the session is at by now, or nothing.
CancelArrives(c) ==
    /\ c \in cancels
    /\ cancels' = cancels \ {c}
    /\ server' = [server EXCEPT ![c].killed = server[c].inbox # <<>>]
    /\ UNCHANGED <<conns, caller, table, cuts>>

DeadlinePasses(r) ==
    /\ caller[r].at # "done" /\ caller[r].ctx = "live"
    /\ caller' = [caller EXCEPT ![r].ctx = "expired"]
    /\ UNCHANGED <<conns, server, cancels, table, cuts>>

DriverStep(r) ==
    \/ Dial(r) \/ Startup(r) \/ StartupTimesOut(r) \/ Connected(r)
    \/ TakeIdle(r) \/ TurnedAway(r) \/ Read(r) \/ ReadFails(r)
    \/ AfterReset(r) \/ AfterPrepare(r) \/ AfterRun(r) \/ AfterClose(r)
    \/ AfterBegin(r) \/ AfterStatement(r) \/ AfterEnd(r)

PgWireNext ==
    \/ \E r \in Callers : DriverStep(r) \/ DeadlinePasses(r)
    \/ \E c \in Conns : ServerAnswers(c) \/ SessionEnds(c) \/ Cut(c) \/ CancelArrives(c)

PgWireSpec == PgWireInit /\ [][PgWireNext]_wireVars

-----------------------------------------------------------------------------
(***************************************************************************)
(* Properties                                                              *)
(***************************************************************************)
\* What each variable may hold, and that a connection is one caller's or idle:
\* an idle one is in step with its session, with nothing left to read.
PgWireTypeOK ==
    /\ \A c \in Conns :
          /\ conns[c].state \in {"none", "open", "closed"} /\ conns[c].tx \in {"I", "T", "E"}
          /\ Cardinality({r \in Callers : caller[r].conn = c}) <= 1
          /\ conns[c].idle =>
                /\ \A r \in Callers : caller[r].conn # c
                /\ IsValid(c) /\ server[c].inbox = <<>> /\ server[c].outbox = <<>>
                /\ server[c].link => conns[c].tx = server[c].tx
          /\ Len(server[c].inbox) <= 1
    /\ \A r \in Callers : caller[r].verdict \in {"", "ok", "failed"}
    /\ cancels \subseteq Conns /\ table \in [Statements -> Nat] /\ cuts \in 0..MaxCuts

\* A call that succeeds returns the rows of its own statement, decoded to the
\* value that was bound, whatever the calls before it on the same connection
\* left unread (drainUntilReady, collectResult, decodeValue).
AnswerIsItsOwn ==
    \A r \in Callers :
       (caller[r].at = "done" /\ caller[r].verdict = "ok") =>
          /\ \A i \in DOMAIN caller[r].rows :
                /\ caller[r].rows[i].of \in StatementsOf(r)
                /\ caller[r].job = "query" => caller[r].rows[i].is = caller[r].arg.value.is
          /\ caller[r].job # "copy" => Len(caller[r].rows) = Cardinality(StatementsOf(r))

\* A call reported to have succeeded took effect for good, exactly once and
\* with all its statements; a transaction that never came to its COMMIT left
\* nothing behind, and nothing ever takes effect twice (Commit, ResetSession,
\* the errors that are not driver.ErrBadConn).
EffectsAsReported ==
    \A r \in Callers :
       LET effects == {table[s] : s \in StatementsOf(r)}
       IN  /\ caller[r].verdict = "ok" /\ caller[r].at = "done" => effects = {1}
           /\ effects \subseteq {0, 1}
           /\ caller[r].job = "tx" =>
                 /\ Cardinality(effects) = 1
                 /\ ~caller[r].asked => effects = {0}
=============================================================================
