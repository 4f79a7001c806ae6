------------------------------- MODULE CoreProofs -------------------------------
(***************************************************************************)
(* Proofs about the wire client of napkey-core, signing in and a wallet    *)
(* over the migration of prices, which MCCore runs together, and about the *)
(* three together.                                                         *)
(***************************************************************************)
EXTENDS MCCore, WalletProofs, FiniteSetTheorems, SequenceTheorems

(***************************************************************************)
(* The wire client, for any number of goroutines, connections and          *)
(* failures, any greetings of the server and any arguments within their    *)
(* column's type.  PgWireInv says what a call, the connection it holds and *)
(* the session behind it know of one another at each point of an exchange; *)
(* it is inductive.  The server's steps and the network's are seen from a  *)
(* session (OneSession), the driver's from a call (OneCall).               *)
(***************************************************************************)
TxStatus == {"I", "T", "E"}
Formats  == {"text", "binary"}
Errs     == {"", "server", "canceled", "ctx", "copy", "net"}
Values   == {a.value.is : a \in Args} \cup {"null", "error", "misread", "refused"}
RowsOf   == [of : Statements, is : Values]

Questions ==
    [ask : {"rollback", "begin", "parse", "execute", "exec", "copy", "close", "commit"},
     of : Statements, arg : {EncodeParam(a.value, a.oid) : a \in Args} \cup {Null},
     format : Formats, oid : {a.oid : a \in Args} \cup {"int8"}]

Answers ==
    {Info, Msg("copy")} \cup [k : {"ready"}, tx : TxStatus]
      \cup [k : {"error"}, code : {"server", "canceled"}]
      \cup [k : {"row"}, of : Statements, is : Values, format : Formats]

Messages ==
    Answers \cup [k : {"tls"}, answer : {"S", "N", "E", "untrusted"}]
      \cup UNION {{g[i] : i \in DOMAIN g} : g \in Greetings}

Connection ==
    [state : {"none", "open", "closed"}, bad : BOOLEAN, tx : TxStatus, idle : BOOLEAN,
     tls : BOOLEAN, pid : BOOLEAN, strict : BOOLEAN]

Session ==
    [link : BOOLEAN, tx : TxStatus, work : SUBSET Statements, inbox : Seq(Questions),
     killed : BOOLEAN, outbox : Seq(Messages)]

Caller ==
    [job : Jobs, arg : Args,
     at : {"want", "startup", "connected", "reading", "returned", "done"},
     conn : Conns \cup {NoConn},
     doing : {"", "reset", "begin", "prepare", "run", "stmt", "close", "rollback", "commit",
              "endfailed"},
     n : {1, 2}, ctx : {"live", "expired"}, told : BOOLEAN,
     scram : {"none", "plain", "plus"}, err : Errs, rows : Seq(RowsOf), format : Formats,
     asked : BOOLEAN, verdict : {"", "ok", "failed"}]

(* The shape of the variables.                                            *)
TypesOK ==
    /\ conns \in [Conns -> Connection]
    /\ server \in [Conns -> Session]
    /\ caller \in [Callers -> Caller]
    /\ cancels \subseteq Conns /\ cuts \in 0..MaxCuts

(* Those that execute a statement.                                       *)
Executes(q) == q.ask \in {"exec", "execute"}

(* A request that reached a session finds it as its sender took it to be.  *)
RequestOK(s, q, cs) ==
    LET r == q.of[1]
    IN  /\ q.ask = "begin" => s.tx = "I"
        /\ Executes(q) /\ cs[r].job # "tx" => s.tx = "I"
        /\ Executes(q) /\ cs[r].job = "tx" => s.tx # "I"
        /\ q.ask = "commit" =>
              /\ s.tx = "T" /\ s.work = {<<r, 1>>, <<r, 2>>}
              /\ cs[r].job = "tx" /\ cs[r].asked

(* A session: work is open only in a transaction, of callers that run one, *)
(* and an answer is written when the request before it is taken.           *)
SessionOK(s, cs) ==
    /\ s.tx = "I" => s.work = {}
    /\ \A t \in s.work : cs[t[1]].job = "tx"
    /\ Len(s.inbox) <= 1
    /\ s.inbox # <<>> => s.outbox = <<>> /\ RequestOK(s, s.inbox[1], cs)

(* Statement t may still take effect through s.                            *)
Pending(s, t) ==
    t \in s.work \/ (s.inbox # <<>> /\ Executes(s.inbox[1]) /\ s.inbox[1].of = t)

(* The two sides of a connection.                                          *)
ConnectionOK(k, s) ==
    /\ k.state = "none" => s = NoSession /\ k = NoConnection
    /\ k.state = "closed" => ~s.link /\ s.outbox = <<>> /\ ~k.idle
    /\ k.idle => /\ k.state = "open" /\ ~k.bad /\ k.tx # "E"
                 /\ s.inbox = <<>> /\ s.outbox = <<>> /\ (s.link => k.tx = s.tx)

(* Caller x has not sent its statement n yet.                              *)
Fresh(x, n) ==
    \/ x.at \in {"want", "startup", "connected"}
    \/ /\ x.at \in {"reading", "returned"}
       /\ x.doing \in {"reset", "begin", "prepare"} \/ (x.doing = "stmt" /\ x.n < n)

(* What took effect, and what may: a statement at most once, by one way.   *)
EffectsOK ==
    /\ table \in [Statements -> {0, 1}]
    /\ \A c \in Conns, t \in Statements : Pending(server[c], t) =>
          table[t] = 0 /\ \A d \in Conns : Pending(server[d], t) => d = c
    /\ \A r \in Callers, n \in {1, 2} : Fresh(caller[r], n) =>
          table[<<r, n>>] = 0 /\ \A c \in Conns : ~Pending(server[c], <<r, n>>)
    /\ \A r \in Callers : caller[r].job = "tx" =>
          /\ table[<<r, 1>>] = table[<<r, 2>>]
          /\ ~caller[r].asked => table[<<r, 1>>] = 0

(* A connection in use is one caller's.                                    *)
Owned ==
    /\ \A r \in Callers :
          /\ caller[r].at \in {"want", "done"} <=> caller[r].conn = NoConn
          /\ caller[r].conn # NoConn =>
                conns[caller[r].conn].state = "open" /\ ~conns[caller[r].conn].idle
    /\ \A r, q \in Callers : caller[r].conn = caller[q].conn => r = q \/ caller[r].conn = NoConn

(* The job of r took effect, and x has its rows.                           *)
Counted(r, x, t) == IF x.job = "tx" THEN t[<<r, 1>>] = 1 /\ t[<<r, 2>>] = 1 /\ Len(x.rows) = 2
                    ELSE t[<<r, 1>>] = 1 /\ Len(x.rows) = 1
HasRow(o) == \E i \in 1..Len(o) : o[i].k = "row"
HasReady(o) == \E i \in 1..Len(o) : o[i].k = "ready"
(* So far the exchange has gone well.                                      *)
Clean(x, o) == x.err = "" /\ o # <<>> /\ o[1].k # "error"

(* A row of the caller's own statement, as the value that was bound.       *)
Own(r, x, row) ==
    /\ row.of = <<r, 1>> \/ (x.job = "tx" /\ row.of = <<r, 2>>)
    /\ x.job = "query" => row.is = x.arg.value.is

(* The request a loop waits for the answer of.                             *)
Matches(r, x, q) ==
    CASE x.doing = "run" -> /\ q.ask = (IF x.job = "query" THEN "execute" ELSE x.job)
                            /\ q.of = <<r, 1>>
                            /\ x.job = "query" => /\ q.arg = EncodeParam(x.arg.value, x.arg.oid)
                                                  /\ q.arg # Unencodable
                                                  /\ q.oid = x.arg.oid
                                                  /\ q.format = x.format
      [] x.doing = "stmt" -> q.ask = "exec" /\ q.of = <<r, x.n>>
      [] x.doing = "begin" -> q.ask = "begin"
      [] x.doing = "prepare" -> q.ask = "parse"
      [] x.doing = "close" -> q.ask = "close"
      [] x.doing = "commit" -> q.ask = "commit" /\ q.of = <<r, 1>>
      [] OTHER -> q.ask = "rollback"

(* The first n statements of a transaction.                                *)
Work(r, n) == IF n = 0 THEN {} ELSE IF n = 1 THEN {<<r, 1>>} ELSE {<<r, 1>>, <<r, 2>>}

(* A caller by itself.                                                     *)
JobOK(r, x, t) ==
    /\ \A i \in 1..Len(x.rows) : Own(r, x, x.rows[i])
    /\ x.job # "tx" => x.n = 1
    /\ x.verdict = "ok" =>
          /\ x.job # "copy" /\ Counted(r, x, t)
          /\ x.at = "done" \/ (x.at \in {"reading", "returned"} /\ x.doing = "close")
    /\ x.at \in {"want", "startup", "connected"} => x.n = 1 /\ x.rows = <<>>
    /\ x.at \in {"reading", "returned"} =>
          /\ x.doing \in {"begin", "stmt", "commit", "rollback", "endfailed"} => x.job = "tx"
          /\ x.doing = "run" => x.job # "tx"
          /\ x.doing \in {"prepare", "close"} => x.job = "query"
          /\ x.doing \in {"reset", "begin", "prepare"} => x.n = 1 /\ x.rows = <<>>
          /\ x.doing = "commit" => x.n = 2
          /\ x.doing # ""

(* A connection being opened: the server is ready once, at the end.        *)
StartupOK(x, k, s) ==
    /\ x.at \in {"startup", "connected"} =>
          /\ ~k.bad /\ s.inbox = <<>> /\ s.tx = "I"
          /\ \A i \in 1..Len(s.outbox) : s.outbox[i].k = "ready" =>
                i = Len(s.outbox) /\ s.outbox[i].tx = "I"
    /\ x.at = "connected" => s.outbox = <<>> /\ k.tx = "I"

(* What is left to read: one end, at most one row, an error only at first. *)
UnreadOK(r, x, o) ==
    \A i \in 1..Len(o) :
       /\ o[i] \in Answers
       /\ EndsLoop(o[i]) => i = Len(o)
       /\ o[i].k = "error" => i = 1
       /\ o[i].k = "row" =>
             /\ x.doing \in {"run", "stmt"}
             /\ Own(r, x, [of |-> o[i].of, is |-> DecodeValue(o[i], x.format)])
             /\ \A j \in 1..Len(o) : o[j].k = "row" => j = i
       /\ o[i].k = "copy" => x.job = "copy"

(* A caller in a loop, with the connection k and the session s.            *)
ReadingOK(r, x, k, s, t) ==
    x.at = "reading" =>
       /\ ~k.bad
       /\ UnreadOK(r, x, s.outbox)
       /\ s.inbox # <<>> => Matches(r, x, s.inbox[1])
       /\ s.link /\ s.inbox = <<>> =>
             \A i \in 1..Len(s.outbox) : s.outbox[i].k = "ready" => s.outbox[i].tx = s.tx
       /\ s.link /\ s.inbox = <<>> /\ Clean(x, s.outbox) =>
             /\ x.doing = "reset" => s.tx = "I"
             /\ x.doing = "begin" => s.tx = "T" /\ s.work = {}
       /\ s.link /\ x.doing \in {"prepare", "run", "close"} => s.tx = "I"
       /\ s.link /\ x.doing = "stmt" =>
             /\ s.tx # "I"
             /\ s.tx = "T" /\ s.inbox # <<>> =>
                   s.work = Work(r, x.n - 1) /\ Len(x.rows) = x.n - 1
             /\ s.tx = "T" /\ s.inbox = <<>> =>
                   /\ s.work = Work(r, x.n)
                   /\ Len(x.rows) = IF HasRow(s.outbox) THEN x.n - 1 ELSE x.n
       /\ x.doing = "run" =>
             /\ s.inbox # <<>> => x.rows = <<>>
             /\ Clean(x, s.outbox) /\ HasReady(s.outbox) =>
                   /\ x.job # "copy" /\ t[<<r, 1>>] = 1
                   /\ Len(x.rows) = IF HasRow(s.outbox) THEN 0 ELSE 1
       /\ x.doing = "commit" =>
             /\ s.inbox # <<>> => Len(x.rows) = 2
             /\ Clean(x, s.outbox) /\ HasReady(s.outbox) => Counted(r, x, t)

(* A caller whose loop has returned: nothing is left on the connection.    *)
ReturnedOK(r, x, k, s, t) ==
    x.at = "returned" =>
       /\ s.outbox = <<>>
       /\ k.bad => x.err # ""
       /\ ~k.bad \/ s.link => s.inbox = <<>>
       /\ ~k.bad /\ s.link => k.tx = s.tx
       /\ s.link /\ x.err = "" =>
             /\ x.doing = "reset" => s.tx = "I"
             /\ x.doing = "begin" => s.tx = "T" /\ s.work = {}
       /\ s.link /\ x.doing \in {"prepare", "run", "close"} => s.tx = "I"
       /\ s.link /\ ~k.bad /\ x.doing = "stmt" =>
             /\ s.tx # "I"
             /\ s.tx = "T" => s.work = Work(r, x.n) /\ Len(x.rows) = x.n
       /\ x.doing \in {"run", "commit"} /\ x.err = "" => x.job # "copy" /\ Counted(r, x, t)

CallOK(r, x, k, s, t) == StartupOK(x, k, s) /\ ReadingOK(r, x, k, s, t) /\ ReturnedOK(r, x, k, s, t)

SessionsOK ==
    \A c \in Conns : SessionOK(server[c], caller) /\ ConnectionOK(conns[c], server[c])

CallsOK ==
    \A r \in Callers :
       /\ JobOK(r, caller[r], table)
       /\ caller[r].conn # NoConn =>
             CallOK(r, caller[r], conns[caller[r].conn], server[caller[r].conn], table)

PgWireInv == TypesOK /\ Owned /\ SessionsOK /\ EffectsOK /\ CallsOK

-----------------------------------------------------------------------------
(* A parameter the driver encodes and the server accepts is read as the    *)
(* value that was bound (encodeBinaryParam, encodeTextParam).              *)
LEMMA EncodeParamKeeps ==
    ASSUME NEW a \in Args,
           EncodeParam(a.value, a.oid) # Unencodable,
           ServerReads(EncodeParam(a.value, a.oid), a.oid) # "refused"
    PROVE  ServerReads(EncodeParam(a.value, a.oid), a.oid) = a.value.is
<1> DEFINE v == a.value
           oid == a.oid
<1>1. CASE v.go = "nil"
  BY <1>1, ArgsAssumption DEF EncodeParam, ServerReads, Null
<1>2. CASE v.go # "nil" /\ ParamFormat(v, oid) = "text"
  BY <1>2 DEF EncodeParam, EncodeTextParam, ServerReads
<1>3. CASE v.go # "nil" /\ ParamFormat(v, oid) = "binary" /\ oid \notin DOMAIN FixedWidth
  <2>1. EncodeParam(v, oid) = EncodeBinaryParam(v, oid)
    BY <1>3 DEF EncodeParam
  <2>2. EncodeBinaryParam(v, oid).is = v.is
    BY <1>3, <2>1 DEF EncodeBinaryParam, FixedWidth
  <2> QED
    BY <1>3, <2>1, <2>2 DEF ServerReads
<1>4. CASE v.go # "nil" /\ ParamFormat(v, oid) = "binary" /\ oid \in DOMAIN FixedWidth
  <2>1. v.go = ShapeOf[oid]
    BY <1>4, ArgsAssumption
  <2>2. EncodeParam(v, oid) = EncodeBinaryParam(v, oid)
    BY <1>4 DEF EncodeParam
  <2>3. EncodeBinaryParam(v, oid) \in
           {Unencodable, [shape |-> ShapeOf[oid], width |-> FixedWidth[oid], is |-> v.is]}
    <3>1. CASE oid = "bool"
      BY <3>1, <2>1 DEF EncodeBinaryParam, FixedWidth, ShapeOf
    <3>2. CASE oid \in {"int2", "int4"}
      <4>1. v.go = "int64" /\ ShapeOf[oid] = "int64"
        BY <3>2, <2>1 DEF ShapeOf
      <4> HIDE DEF v, oid
      <4> QED
        BY <3>2, <4>1 DEF EncodeBinaryParam
    <3>3. CASE oid \in {"int8", "float8", "timestamptz"}
      BY <3>3, <2>1 DEF EncodeBinaryParam, FixedWidth, ShapeOf
    <3> QED
      BY <1>4, <3>1, <3>2, <3>3 DEF FixedWidth
  <2> QED
    BY <1>4, <2>1, <2>2, <2>3 DEF ServerReads
<1> QED
  BY <1>1, <1>2, <1>3, <1>4 DEF ParamFormat

(* What the server makes of a parameter is a value, or an outcome of its.  *)
LEMMA ServerReadsValues ==
    ASSUME NEW w \in Questions
    PROVE  ServerReads(w.arg, w.oid) \in Values
<1>1. w.arg \in {EncodeParam(a.value, a.oid) : a \in Args} \cup {Null}
  BY DEF Questions
<1>2. w.arg.is \in Values
  <2>1. CASE w.arg = Null
    BY <2>1 DEF Null, Values
  <2>2. ASSUME NEW a \in Args, w.arg = EncodeParam(a.value, a.oid)
        PROVE  w.arg.is \in {a.value.is, "null", "error"}
    <3>1. EncodeTextParam(a.value, a.oid).is \in {a.value.is, "error"}
      BY DEF EncodeTextParam, Unencodable
    <3>2. EncodeBinaryParam(a.value, a.oid).is \in {a.value.is, "error"}
      BY DEF EncodeBinaryParam, Unencodable
    <3> QED
      BY <2>2, <3>1, <3>2 DEF EncodeParam, Null
  <2> QED
    BY <1>1, <2>1, <2>2 DEF Values
<1> QED
  BY <1>2 DEF ServerReads, Values

RepliesTo(s, q) == Replies(s, q) \cup {Fails(s, "canceled")}

(* The four forms of a reply: an error, a completion, COPY, a row.          *)
Failed(s, q, y) ==
    /\ y.kept = {}
    /\ \E code \in {"server", "canceled"} : y.out = <<Failure(code), Ready(y.tx)>>
    /\ \/ y.work = s.work /\ y.tx = (IF s.tx = "I" THEN "I" ELSE "E")
       \/ q.ask = "commit" /\ y.work = {} /\ y.tx = "I"

Succeeded(s, q, y) ==
    /\ y.out = <<Info, Ready(y.tx)>>
    /\ \/ q.ask = "rollback" /\ y.tx = "I" /\ y.work = {} /\ y.kept = {}
       \/ q.ask = "close" /\ y.tx = s.tx /\ y.work = s.work /\ y.kept = {}
       \/ q.ask = "parse" /\ y.tx = s.tx /\ y.work = s.work /\ y.kept = {}
       \/ q.ask = "begin" /\ y.tx = "T" /\ y.work = s.work /\ y.kept = {}
       \/ /\ q.ask = "commit" /\ y.tx = "I" /\ y.work = {}
          /\ y.kept = (IF s.tx = "E" THEN {} ELSE s.work)

Copies(s, q, y) ==
    q.ask = "copy" /\ y.out = <<Msg("copy")>> /\ y.tx = s.tx /\ y.work = s.work /\ y.kept = {}

Executed(s, q, y) ==
    LET is == ServerReads(q.arg, q.oid)
    IN  /\ Executes(q) /\ is # "refused" /\ s.tx # "E"
        /\ y.out = <<Info, Row(q.of, is, q.format), Info, Ready(y.tx)>>
        /\ \/ s.tx = "I" /\ y.tx = "I" /\ y.work = {} /\ y.kept = {q.of}
           \/ s.tx = "T" /\ y.tx = "T" /\ y.work = s.work \cup {q.of} /\ y.kept = {}

(* Append on the tuples that replies are built from.                       *)
LEMMA Appended ==
    ASSUME NEW a, NEW b
    PROVE  Append(<<a>>, b) = <<a, b>>
<1> DEFINE S == {a, b}
<1>1. <<a>> \in Seq(S) /\ <<a, b>> \in Seq(S) /\ Append(<<a>>, b) \in Seq(S)
  OBVIOUS
<1>2. /\ Len(Append(<<a>>, b)) = 2 /\ Len(<<a, b>>) = 2
      /\ \A i \in 1..2 : Append(<<a>>, b)[i] = <<a, b>>[i]
  OBVIOUS
<1> QED
  BY <1>1, <1>2, SeqEqual

LEMMA AppendedLast ==
    ASSUME NEW a, NEW b, NEW c, NEW d
    PROVE  Append(<<a, b, c>>, d) = <<a, b, c, d>>
<1> DEFINE S == {a, b, c, d}
<1>1. <<a, b, c>> \in Seq(S) /\ <<a, b, c, d>> \in Seq(S) /\ Append(<<a, b, c>>, d) \in Seq(S)
  OBVIOUS
<1>2. /\ Len(Append(<<a, b, c>>, d)) = 4 /\ Len(<<a, b, c, d>>) = 4
      /\ \A i \in 1..4 : Append(<<a, b, c>>, d)[i] = <<a, b, c, d>>[i]
  OBVIOUS
<1> QED
  BY <1>1, <1>2, SeqEqual

(* Every reply of the server has one of the forms.                         *)
LEMMA ReplyForms ==
    ASSUME NEW s \in Session, NEW q \in Questions, NEW y \in RepliesTo(s, q)
    PROVE  Failed(s, q, y) \/ Succeeded(s, q, y) \/ Copies(s, q, y) \/ Executed(s, q, y)
<1>0. /\ s.tx \in TxStatus
      /\ q.ask \in {"rollback", "begin", "parse", "execute", "exec", "copy", "close", "commit"}
  BY DEF Session, Questions
<1>1. ASSUME NEW code \in {"server", "canceled"}, y = Fails(s, code)
      PROVE  Failed(s, q, y)
  BY <1>1 DEF Fails, Failed, Reply
<1>2. CASE q.ask = "rollback" \/ (q.ask = "commit" /\ s.tx = "E")
  <2>1. Replies(s, q) = {Done(s, <<Info>>, "I", {}, {})}
    BY <1>2 DEF Replies
  <2>2. CASE y = Done(s, <<Info>>, "I", {}, {})
    <3>1. y = [out |-> <<Info, Ready("I")>>,
               tx |-> "I", work |-> {}, kept |-> {}]
      BY <2>2, Appended, AppendedLast DEF Done, Reply
    <3> QED
      BY <3>1, <2>2, <1>2 DEF Succeeded
  <2> QED
    BY <2>1, <2>2, <1>1 DEF RepliesTo
<1>3. CASE q.ask = "commit" /\ s.tx # "E"
  <2>1. Replies(s, q) = {Done(s, <<Info>>, "I", {}, s.work),
                         Reply(<<Failure("server"), Ready("I")>>, "I", {}, {})}
    BY <1>3 DEF Replies
  <2>2. CASE y = Done(s, <<Info>>, "I", {}, s.work)
    <3>1. y = [out |-> <<Info, Ready("I")>>,
               tx |-> "I", work |-> {}, kept |-> s.work]
      BY <2>2, Appended, AppendedLast DEF Done, Reply
    <3> QED
      BY <3>1, <2>2, <1>3 DEF Succeeded
  <2>3. CASE y = Reply(<<Failure("server"), Ready("I")>>, "I", {}, {})
    BY <2>3, <1>3 DEF Failed, Reply
  <2> QED
    BY <2>1, <2>2, <2>3, <1>1 DEF RepliesTo
<1>4. CASE q.ask = "close"
  <2>1. Replies(s, q) = {Done(s, <<Info>>, s.tx, s.work, {})}
    BY <1>4 DEF Replies
  <2>2. CASE y = Done(s, <<Info>>, s.tx, s.work, {})
    <3>1. y = [out |-> <<Info, Ready(s.tx)>>,
               tx |-> s.tx, work |-> s.work, kept |-> {}]
      BY <2>2, Appended, AppendedLast DEF Done, Reply
    <3> QED
      BY <3>1, <2>2, <1>4 DEF Succeeded
  <2> QED
    BY <2>1, <2>2, <1>1 DEF RepliesTo
<1>5. CASE q.ask \notin {"rollback", "commit", "close"} /\ s.tx = "E"
  <2>1. Replies(s, q) = {Fails(s, "server")}
    BY <1>5 DEF Replies
  <2> QED
    BY <2>1, <1>1 DEF RepliesTo
<1>6. CASE q.ask \notin {"rollback", "commit", "close"} /\ s.tx # "E"
  <2>1. Replies(s, q) = Runs(s, q)
    BY <1>6 DEF Replies
  <2>2. CASE q.ask = "begin"
    <3>1. Runs(s, q) = {Done(s, <<Info>>, "T", s.work, {})}
      BY <2>2 DEF Runs
    <3>2. CASE y = Done(s, <<Info>>, "T", s.work, {})
      <4>1. y = [out |-> <<Info, Ready("T")>>,
                 tx |-> "T", work |-> s.work, kept |-> {}]
        BY <3>2, Appended, AppendedLast DEF Done, Reply
      <4> QED
        BY <4>1, <3>2, <2>2 DEF Succeeded
    <3> QED
      BY <2>1, <3>1, <3>2, <1>1 DEF RepliesTo
  <2>3. CASE q.ask = "parse"
    <3>1. Runs(s, q) = {Done(s, <<Info>>, s.tx, s.work, {}), Fails(s, "server")}
      BY <2>3 DEF Runs
    <3>2. CASE y = Done(s, <<Info>>, s.tx, s.work, {})
      <4>1. y = [out |-> <<Info, Ready(s.tx)>>,
                 tx |-> s.tx, work |-> s.work, kept |-> {}]
        BY <3>2, Appended, AppendedLast DEF Done, Reply
      <4> QED
        BY <4>1, <3>2, <2>3 DEF Succeeded
    <3> QED
      BY <2>1, <3>1, <3>2, <1>1 DEF RepliesTo
  <2>4. CASE q.ask = "copy"
    <3>1. Runs(s, q) = {Reply(<<Msg("copy")>>, s.tx, s.work, {})}
      BY <2>4 DEF Runs
    <3>2. CASE y = Reply(<<Msg("copy")>>, s.tx, s.work, {})
      BY <3>2, <2>4 DEF Copies, Reply
    <3> QED
      BY <2>1, <3>1, <3>2, <1>1 DEF RepliesTo
  <2>5. CASE Executes(q)
    <3> DEFINE is == ServerReads(q.arg, q.oid)
               out == <<Info, Row(q.of, is, q.format), Info>>
    <3>1. Runs(s, q) = {Fails(s, "server")} \cup
                (IF is = "refused" THEN {}
                 ELSE IF s.tx = "I" THEN {Done(s, out, "I", {}, {q.of})}
                 ELSE {Done(s, out, "T", s.work \cup {q.of}, {})})
      BY <2>5 DEF Runs, Executes
    <3>2. CASE is # "refused" /\ s.tx = "I" /\ y = Done(s, out, "I", {}, {q.of})
      <4>1. y = [out |-> <<Info, Row(q.of, is, q.format), Info, Ready("I")>>,
                 tx |-> "I", work |-> {}, kept |-> {q.of}]
        BY <3>2, Appended, AppendedLast DEF Done, Reply
      <4> QED
        BY <4>1, <3>2, <2>5 DEF Executed
    <3>3. CASE is # "refused" /\ s.tx = "T" /\ y = Done(s, out, "T", s.work \cup {q.of}, {})
      <4>1. y = [out |-> <<Info, Row(q.of, is, q.format), Info, Ready("T")>>,
                 tx |-> "T", work |-> s.work \cup {q.of}, kept |-> {}]
        BY <3>3, Appended, AppendedLast DEF Done, Reply
      <4> QED
        BY <4>1, <3>3, <2>5 DEF Executed
    <3> HIDE DEF is, out
    <3> QED
      BY <2>1, <3>1, <3>2, <3>3, <1>0, <1>1, <1>6 DEF RepliesTo, TxStatus
  <2> QED
    BY <1>0, <1>6, <2>2, <2>3, <2>4, <2>5 DEF Executes
<1> QED
  BY <1>0, <1>2, <1>3, <1>4, <1>5, <1>6

(* A reply has the shape of messages and of a session's state.             *)
LEMMA ReplyTypes ==
    ASSUME NEW s \in Session, NEW q \in Questions, NEW y \in RepliesTo(s, q)
    PROVE  /\ y.out \in Seq(Answers) /\ y.tx \in TxStatus
           /\ y.work \subseteq Statements /\ y.kept \subseteq Statements
<1>0. /\ s.tx \in TxStatus /\ s.work \subseteq Statements
      /\ q.of \in Statements /\ q.format \in Formats
  BY DEF Session, Questions
<1>1. /\ Info \in Answers /\ Msg("copy") \in Answers
      /\ \A tx \in TxStatus : Ready(tx) \in Answers
      /\ \A code \in {"server", "canceled"} : Failure(code) \in Answers
      /\ Row(q.of, ServerReads(q.arg, q.oid), q.format) \in Answers
  BY <1>0, ServerReadsValues DEF Answers, Ready, Failure, Row
<1>2. CASE Failed(s, q, y)
  <2>1. y.tx \in TxStatus /\ y.work \subseteq Statements /\ y.kept \subseteq Statements
    BY <1>0, <1>2 DEF Failed, TxStatus
  <2> QED
    BY <1>1, <1>2, <2>1 DEF Failed
<1>3. CASE Succeeded(s, q, y)
  <2>1. y.tx \in TxStatus /\ y.work \subseteq Statements /\ y.kept \subseteq Statements
    BY <1>0, <1>3 DEF Succeeded, TxStatus
  <2> QED
    BY <1>1, <1>3, <2>1 DEF Succeeded
<1>4. CASE Copies(s, q, y)
  BY <1>0, <1>1, <1>4 DEF Copies
<1>5. CASE Executed(s, q, y)
  <2>1. y.tx \in TxStatus /\ y.work \subseteq Statements /\ y.kept \subseteq Statements
    BY <1>0, <1>5 DEF Executed, TxStatus
  <2> QED
    BY <1>1, <1>5, <2>1 DEF Executed
<1> QED
  BY ReplyForms, <1>2, <1>3, <1>4, <1>5

(* What a reply writes: one end, a row only for a statement that executed. *)
LEMMA ReplyOut ==
    ASSUME NEW s \in Session, NEW q \in Questions, NEW y \in RepliesTo(s, q)
    PROVE  /\ y.out # <<>>
           /\ \A i \in 1..Len(y.out) :
                 /\ EndsLoop(y.out[i]) => i = Len(y.out)
                 /\ y.out[i].k = "error" => i = 1
                 /\ y.out[i].k = "row" =>
                       /\ i = 2 /\ Executed(s, q, y)
                       /\ y.out[i] = Row(q.of, ServerReads(q.arg, q.oid), q.format)
                 /\ y.out[i].k = "copy" => q.ask = "copy"
                 /\ y.out[i].k = "ready" => y.out[i].tx = y.tx
           /\ Failed(s, q, y) => y.out[1].k = "error"
           /\ Executed(s, q, y) => HasRow(y.out)
           /\ Copies(s, q, y) => ~HasReady(y.out)
<1> USE DEF EndsLoop, Info, Msg, Ready, Failure, Row
<1>1. CASE Failed(s, q, y)
  <2>1. PICK code \in {"server", "canceled"} : y.out = <<Failure(code), Ready(y.tx)>>
    BY <1>1 DEF Failed
  <2>2. Len(y.out) = 2 /\ y.out[1] = Failure(code) /\ y.out[2] = Ready(y.tx)
    BY <2>1
  <2>3. ~Executed(s, q, y) /\ ~Copies(s, q, y)
    BY <2>2 DEF Executed, Copies
  <2> QED
    BY <2>1, <2>2, <2>3
<1>2. CASE Succeeded(s, q, y)
  <2>1. Len(y.out) = 2 /\ y.out[1] = Info /\ y.out[2] = Ready(y.tx)
    BY <1>2 DEF Succeeded
  <2>2. ~Executed(s, q, y) /\ ~Copies(s, q, y) /\ ~Failed(s, q, y)
    BY <2>1 DEF Executed, Copies, Failed
  <2> QED
    BY <2>1, <2>2
<1>3. CASE Copies(s, q, y)
  <2>1. Len(y.out) = 1 /\ y.out[1] = Msg("copy") /\ q.ask = "copy"
    BY <1>3 DEF Copies
  <2>2. ~Executed(s, q, y) /\ ~Failed(s, q, y)
    BY <2>1 DEF Executed, Failed
  <2> QED
    BY <2>1, <2>2 DEF HasReady
<1>4. CASE Executed(s, q, y)
  <2>1. /\ Len(y.out) = 4 /\ y.out[1] = Info /\ y.out[3] = Info /\ y.out[4] = Ready(y.tx)
        /\ y.out[2] = Row(q.of, ServerReads(q.arg, q.oid), q.format)
    BY <1>4 DEF Executed
  <2>2. ~Copies(s, q, y) /\ ~Failed(s, q, y)
    BY <2>1 DEF Copies, Failed
  <2>3. HasRow(y.out)
    BY <2>1 DEF HasRow
  <2> QED
    BY <1>4, <2>1, <2>2, <2>3
<1> QED
  BY ReplyForms, <1>1, <1>2, <1>3, <1>4

-----------------------------------------------------------------------------
(* No connection is numbered NoConn.                                       *)
LEMMA NoConnIsNone == NoConn \notin Conns
BY PgWireAssumption DEF NoConn

(* The request a session works on is a request.                            *)
LEMMA FirstRequest ==
    ASSUME NEW s \in Session, s.inbox # <<>>
    PROVE  s.inbox[1] \in Questions
<1>1. s.inbox \in Seq(Questions)
  BY DEF Session
<1> QED
  BY <1>1, EmptySeq, ElementOfSeq

(* A caller's step leaves a session its relation to the callers.           *)
LEMMA SessionOfOthers ==
    ASSUME TypesOK, NEW r \in Callers, NEW y \in Caller, NEW s \in Session,
           caller' = [caller EXCEPT ![r] = y],
           y.job = caller[r].job, caller[r].asked => y.asked, SessionOK(s, caller)
    PROVE  SessionOK(s, caller')
<1>1. \A q \in Callers : caller'[q].job = caller[q].job /\ (caller[q].asked => caller'[q].asked)
  BY DEF TypesOK
<1>2. \A t \in s.work : t[1] \in Callers
  BY DEF Session, Statements
<1>3. s.inbox # <<>> => s.inbox[1].of[1] \in Callers
  BY FirstRequest DEF Statements, Questions
<1> QED
  BY <1>1, <1>2, <1>3 DEF SessionOK, RequestOK

\* What a step of caller r on connection c has to keep, if it leaves the
\* caller as y, the client's side of c as k and the session behind it as s.
Moves(r, c, y, k, s) ==
    /\ caller' = [caller EXCEPT ![r] = y]
    /\ conns' = [conns EXCEPT ![c] = k]
    /\ server' = [server EXCEPT ![c] = s]
    /\ table' = table /\ cancels' \subseteq Conns /\ cuts' \in 0..MaxCuts
    /\ \A q \in Callers : caller[q].conn = c => q = r
    /\ caller[r].conn \in {c, NoConn} /\ y.conn \in {c, NoConn}
    /\ y.at \in {"want", "done"} <=> y.conn = NoConn
    /\ y.conn = c => k.state = "open" /\ ~k.idle
    /\ y.job = caller[r].job /\ (caller[r].asked => y.asked)
    /\ \A n \in {1, 2} : Fresh(y, n) => Fresh(caller[r], n)
    /\ \A t \in Statements : Pending(s, t) =>
          \/ Pending(server[c], t)
          \/ \E n \in {1, 2} : t = <<r, n>> /\ Fresh(caller[r], n) /\ ~Fresh(y, n)
    /\ SessionOK(s, caller') /\ ConnectionOK(k, s)
    /\ JobOK(r, y, table)
    /\ y.conn = c => CallOK(r, y, k, s, table)

(* A step of one caller on one connection keeps the invariant if Moves.     *)
LEMMA OneCall ==
    ASSUME PgWireInv, NEW r \in Callers, NEW c \in Conns,
           NEW y \in Caller, NEW k \in Connection, NEW s \in Session,
           Moves(r, c, y, k, s)
    PROVE  PgWireInv'
<1> USE DEF Moves
<1>0. /\ caller \in [Callers -> Caller] /\ conns \in [Conns -> Connection]
      /\ server \in [Conns -> Session]
  BY DEF PgWireInv, TypesOK
<1>1. /\ caller'[r] = y /\ \A q \in Callers \ {r} : caller'[q] = caller[q]
      /\ conns'[c] = k /\ \A d \in Conns \ {c} : conns'[d] = conns[d]
      /\ server'[c] = s /\ \A d \in Conns \ {c} : server'[d] = server[d]
  BY <1>0
<1>2. \A q \in Callers \ {r} : caller[q].conn # c
  OBVIOUS
<1>3. TypesOK'
  BY <1>0 DEF TypesOK
<1>4. Owned'
  <2>1. \A q \in Callers : /\ caller'[q].at \in {"want", "done"} <=> caller'[q].conn = NoConn
                           /\ caller'[q].conn # NoConn =>
                                 /\ conns'[caller'[q].conn].state = "open"
                                 /\ ~conns'[caller'[q].conn].idle
    <3> SUFFICES ASSUME NEW q \in Callers
                 PROVE  /\ caller'[q].at \in {"want", "done"} <=> caller'[q].conn = NoConn
                        /\ caller'[q].conn # NoConn =>
                              /\ conns'[caller'[q].conn].state = "open"
                              /\ ~conns'[caller'[q].conn].idle
      OBVIOUS
    <3>1. CASE q = r
      BY <3>1, <1>1
    <3>2. CASE q # r
      <4>1. caller[q].conn # NoConn => caller[q].conn \in Conns \ {c}
        BY <3>2, <1>0, <1>2 DEF Caller
      <4> QED
        BY <3>2, <4>1, <1>1 DEF PgWireInv, Owned
    <3> QED
      BY <3>1, <3>2
  <2>2. \A p, q \in Callers : caller'[p].conn = caller'[q].conn => p = q \/ caller'[p].conn = NoConn
    BY <1>1, <1>2 DEF PgWireInv, Owned
  <2> QED
    BY <2>1, <2>2 DEF Owned
<1>5. SessionsOK'
  <2> SUFFICES ASSUME NEW d \in Conns
               PROVE  SessionOK(server'[d], caller') /\ ConnectionOK(conns'[d], server'[d])
    BY DEF SessionsOK
  <2>1. CASE d = c
    BY <2>1, <1>1
  <2>2. CASE d # c
    <3>1. server[d] \in Session /\ SessionOK(server[d], caller) /\ ConnectionOK(conns[d], server[d])
      BY <1>0 DEF PgWireInv, SessionsOK
    <3>2. SessionOK(server[d], caller')
      BY <3>1, SessionOfOthers DEF PgWireInv
    <3> QED
      BY <2>2, <3>1, <3>2, <1>1
  <2> QED
    BY <2>1, <2>2
<1>6. EffectsOK'
  <2>1. table' \in [Statements -> {0, 1}]
    BY DEF PgWireInv, EffectsOK
  <2>2. ASSUME NEW d \in Conns, NEW t \in Statements, Pending(server'[d], t)
        PROVE  \/ Pending(server[d], t)
               \/ d = c /\ \E n \in {1, 2} : t = <<r, n>> /\ Fresh(caller[r], n) /\ ~Fresh(y, n)
    BY <2>2, <1>1
  <2>3. ASSUME NEW d \in Conns, NEW t \in Statements, Pending(server'[d], t)
        PROVE  table'[t] = 0 /\ \A e \in Conns : Pending(server'[e], t) => e = d
    <3>1. CASE \E n \in {1, 2} : t = <<r, n>> /\ Fresh(caller[r], n) /\ ~Fresh(y, n)
      <4>1. PICK n \in {1, 2} : t = <<r, n>> /\ Fresh(caller[r], n)
        BY <3>1
      <4>2. table[t] = 0 /\ \A e \in Conns : ~Pending(server[e], t)
        BY <4>1 DEF PgWireInv, EffectsOK
      <4> QED
        BY <4>2, <2>2, <2>3
    <3>2. CASE ~ \E n \in {1, 2} : t = <<r, n>> /\ Fresh(caller[r], n) /\ ~Fresh(y, n)
      <4>1. \A e \in Conns : Pending(server'[e], t) => Pending(server[e], t)
        BY <2>2, <3>2
      <4> QED
        BY <4>1, <2>3 DEF PgWireInv, EffectsOK
    <3> QED
      BY <3>1, <3>2
  <2>4. ASSUME NEW q \in Callers, NEW n \in {1, 2}, Fresh(caller'[q], n)
        PROVE  table'[<<q, n>>] = 0 /\ \A e \in Conns : ~Pending(server'[e], <<q, n>>)
    <3>1. <<q, n>> \in Statements
      BY DEF Statements
    <3>2. Fresh(caller[q], n)
      BY <2>4, <1>1
    <3>3. table[<<q, n>>] = 0 /\ \A e \in Conns : ~Pending(server[e], <<q, n>>)
      BY <3>2 DEF PgWireInv, EffectsOK
    <3>4. ~ \E m \in {1, 2} : <<q, n>> = <<r, m>> /\ Fresh(caller[r], m) /\ ~Fresh(y, m)
      BY <2>4, <1>1
    <3> QED
      BY <3>1, <3>3, <3>4, <2>2
  <2>5. ASSUME NEW q \in Callers, caller'[q].job = "tx"
        PROVE  /\ table'[<<q, 1>>] = table'[<<q, 2>>]
               /\ ~caller'[q].asked => table'[<<q, 1>>] = 0
    BY <2>5, <1>1 DEF PgWireInv, EffectsOK
  <2> QED
    BY <2>1, <2>3, <2>4, <2>5 DEF EffectsOK
<1>7. CallsOK'
  <2> SUFFICES ASSUME NEW q \in Callers
               PROVE  /\ JobOK(q, caller'[q], table')
                      /\ caller'[q].conn # NoConn =>
                            CallOK(q, caller'[q], conns'[caller'[q].conn],
                                   server'[caller'[q].conn], table')
    BY DEF CallsOK
  <2>1. CASE q = r
    BY <2>1, <1>1
  <2>2. CASE q # r
    <3>1. caller[q].conn # NoConn => caller[q].conn \in Conns \ {c}
      BY <2>2, <1>0, <1>2 DEF Caller
    <3> QED
      BY <2>2, <3>1, <1>1 DEF PgWireInv, CallsOK
  <2> QED
    BY <2>1, <2>2
<1> QED
  BY <1>3, <1>4, <1>5, <1>6, <1>7 DEF PgWireInv

(* A step of one session and its link, seen by the call that holds it.     *)
LEMMA OneSession ==
    ASSUME PgWireInv, NEW c \in Conns, NEW s \in Session,
           UNCHANGED <<caller, conns>>, server' = [server EXCEPT ![c] = s],
           cancels' \subseteq Conns, cuts' \in 0..MaxCuts,
           SessionOK(s, caller), ConnectionOK(conns[c], s),
           EffectsOK', \A q \in Callers : JobOK(q, caller[q], table'),
           \A q \in Callers : caller[q].conn = c =>
              CallOK(q, caller[q], conns[c], s, table'),
           \A q \in Callers : caller[q].conn \in Conns \ {c} =>
              CallOK(q, caller[q], conns[caller[q].conn], server[caller[q].conn], table')
    PROVE  PgWireInv'
<1>0. /\ caller \in [Callers -> Caller] /\ server \in [Conns -> Session]
      /\ server'[c] = s /\ \A d \in Conns \ {c} : server'[d] = server[d]
  BY DEF PgWireInv, TypesOK
<1>1. TypesOK'
  BY <1>0 DEF PgWireInv, TypesOK
<1>2. Owned'
  BY DEF PgWireInv, Owned
<1>3. SessionsOK'
  BY <1>0 DEF PgWireInv, SessionsOK
<1>4. CallsOK'
  <2> SUFFICES ASSUME NEW q \in Callers, caller[q].conn # NoConn
               PROVE  CallOK(q, caller[q], conns[caller[q].conn], server'[caller[q].conn], table')
    BY DEF CallsOK
  <2>1. caller[q].conn \in Conns
    BY <1>0 DEF Caller
  <2> QED
    BY <1>0, <2>1
<1> QED
  BY <1>1, <1>2, <1>3, <1>4 DEF PgWireInv

(* Effects are kept by a step of a session that leaves less pending.       *)
LEMMA EffectsKept ==
    ASSUME PgWireInv, NEW c \in Conns, NEW s \in Session,
           UNCHANGED <<caller, table>>, server' = [server EXCEPT ![c] = s],
           \A t \in Statements : Pending(s, t) => Pending(server[c], t)
    PROVE  EffectsOK'
<1>1. \A d \in Conns, t \in Statements : Pending(server'[d], t) => Pending(server[d], t)
  BY DEF PgWireInv, TypesOK
<1>2. \A q \in Callers, n \in {1, 2} : <<q, n>> \in Statements
  BY DEF Statements
<1> QED
  BY <1>1, <1>2 DEF PgWireInv, EffectsOK

(* A CancelRequest stops whatever the session is at (CancelArrives).       *)
LEMMA CancelArrivesKeeps ==
    ASSUME PgWireInv, NEW c \in Conns, CancelArrives(c)
    PROVE  PgWireInv'
<1> DEFINE s == [server[c] EXCEPT !.killed = server[c].inbox # <<>>]
<1>0. server[c] \in Session /\ s \in Session
  BY DEF PgWireInv, TypesOK, Session
<1>1. /\ s.link = server[c].link /\ s.tx = server[c].tx /\ s.work = server[c].work
      /\ s.inbox = server[c].inbox /\ s.outbox = server[c].outbox
  BY <1>0 DEF Session
<1>2. server' = [server EXCEPT ![c] = s]
  BY DEF CancelArrives
<1>3. \A t \in Statements : Pending(s, t) => Pending(server[c], t)
  BY <1>1 DEF Pending
<1>4. EffectsOK'
  BY <1>0, <1>2, <1>3, EffectsKept DEF CancelArrives
<1>5. SessionOK(s, caller) /\ ConnectionOK(conns[c], s)
  <2>1. SessionOK(server[c], caller) /\ ConnectionOK(conns[c], server[c])
    BY DEF PgWireInv, SessionsOK
  <2>2. conns[c].state = "none" => s = NoSession
    <3> SUFFICES ASSUME server[c] = NoSession
                 PROVE  s = NoSession
      BY <2>1 DEF ConnectionOK
    <3>1. s.inbox = <<>> /\ server[c].inbox = <<>>
      BY <1>0, <1>1 DEF NoSession
    <3>3. s.killed = (server[c].inbox # <<>>)
      BY <1>0 DEF Session
    <3>4. ~s.killed
      BY <3>1, <3>3
    <3>2. NoSession \in Session /\ NoSession.killed = FALSE
      BY <1>0 DEF NoSession
    <3> QED
      BY <3>1, <3>2, <3>4, <1>0, <1>1 DEF Session
  <2> QED
    BY <2>1, <2>2, <1>1 DEF SessionOK, RequestOK, ConnectionOK
<1>6. \A q \in Callers : caller[q].conn = c => CallOK(q, caller[q], conns[c], s, table)
  <2> SUFFICES ASSUME NEW q \in Callers, caller[q].conn = c
               PROVE  CallOK(q, caller[q], conns[c], s, table)
    OBVIOUS
  <2>1. CallOK(q, caller[q], conns[c], server[c], table)
    BY NoConnIsNone DEF PgWireInv, CallsOK
  <2> QED
    <3>1. StartupOK(caller[q], conns[c], s)
      BY <2>1, <1>1 DEF CallOK, StartupOK
    <3>2. ReadingOK(q, caller[q], conns[c], s, table)
      BY <2>1, <1>1 DEF CallOK, ReadingOK
    <3>3. ReturnedOK(q, caller[q], conns[c], s, table)
      BY <2>1, <1>1 DEF CallOK, ReturnedOK
    <3> QED
      BY <3>1, <3>2, <3>3 DEF CallOK
<1>7. \A q \in Callers : JobOK(q, caller[q], table)
  BY DEF PgWireInv, CallsOK
<1>8. \A q \in Callers : caller[q].conn \in Conns \ {c} =>
         CallOK(q, caller[q], conns[caller[q].conn], server[caller[q].conn], table)
  BY NoConnIsNone DEF PgWireInv, CallsOK
<1> HIDE DEF s
<1> QED
  BY <1>0, <1>2, <1>4, <1>5, <1>6, <1>7, <1>8, OneSession DEF CancelArrives, PgWireInv, TypesOK

(* A session ends with its client (SessionEnds).                           *)
LEMMA SessionEndsKeeps ==
    ASSUME PgWireInv, NEW c \in Conns, SessionEnds(c)
    PROVE  PgWireInv'
<1> DEFINE s == [NoSession EXCEPT !.outbox = server[c].outbox]
<1>0. /\ server[c] \in Session /\ s \in Session
      /\ ~s.link /\ s.tx = "I" /\ s.work = {} /\ s.inbox = <<>> /\ s.outbox = server[c].outbox
  BY EmptySeq DEF PgWireInv, TypesOK, Session, NoSession, TxStatus
<1>1. server' = [server EXCEPT ![c] = s] /\ ~server[c].link
  BY DEF SessionEnds
<1> HIDE DEF s
<1>2. \A t \in Statements : Pending(s, t) => Pending(server[c], t)
  BY <1>0 DEF Pending
<1>3. EffectsOK'
  BY <1>0, <1>1, <1>2, EffectsKept DEF SessionEnds
<1>4. SessionOK(s, caller) /\ ConnectionOK(conns[c], s)
  <2>1. ConnectionOK(conns[c], server[c])
    BY DEF PgWireInv, SessionsOK
  <2>2. conns[c].state = "none" => s = NoSession
    <3> SUFFICES ASSUME server[c] = NoSession
                 PROVE  s = NoSession
      BY <2>1 DEF ConnectionOK
    <3> QED
      BY <1>1, <1>0 DEF SessionEnds, s, NoSession
  <2> QED
    BY <2>1, <2>2, <1>0 DEF SessionOK, ConnectionOK
<1>5. \A q \in Callers : caller[q].conn = c => CallOK(q, caller[q], conns[c], s, table)
  <2> SUFFICES ASSUME NEW q \in Callers, caller[q].conn = c
               PROVE  CallOK(q, caller[q], conns[c], s, table)
    OBVIOUS
  <2>1. CallOK(q, caller[q], conns[c], server[c], table)
    BY NoConnIsNone DEF PgWireInv, CallsOK
  <2>2. StartupOK(caller[q], conns[c], s)
    BY <2>1, <1>0 DEF CallOK, StartupOK
  <2>3. ReadingOK(q, caller[q], conns[c], s, table)
    BY <2>1, <1>0, <1>1 DEF CallOK, ReadingOK
  <2>4. ReturnedOK(q, caller[q], conns[c], s, table)
    BY <2>1, <1>0, <1>1 DEF CallOK, ReturnedOK
  <2> QED
    BY <2>2, <2>3, <2>4 DEF CallOK
<1>6. \A q \in Callers : JobOK(q, caller[q], table)
  BY DEF PgWireInv, CallsOK
<1>7. \A q \in Callers : caller[q].conn \in Conns \ {c} =>
         CallOK(q, caller[q], conns[caller[q].conn], server[caller[q].conn], table)
  BY NoConnIsNone DEF PgWireInv, CallsOK
<1> QED
  BY <1>0, <1>1, <1>3, <1>4, <1>5, <1>6, <1>7, OneSession DEF SessionEnds, PgWireInv, TypesOK

(* A message of a prefix is the message of the whole.                      *)
LEMMA Prefix ==
    ASSUME NEW S, NEW o \in Seq(S), NEW k \in 0..Len(o)
    PROVE  /\ SubSeq(o, 1, k) \in Seq(S) /\ Len(SubSeq(o, 1, k)) = k
           /\ \A i \in 1..k : SubSeq(o, 1, k)[i] = o[i]
           /\ k = Len(o) => SubSeq(o, 1, k) = o
<1>1. k \in Int /\ Len(o) \in Nat /\ \A i \in 1..k : o[i] \in S
  BY LenProperties, ElementOfSeq
<1>2. /\ SubSeq(o, 1, k) \in Seq(S) /\ Len(SubSeq(o, 1, k)) = k
      /\ \A i \in 1..k : SubSeq(o, 1, k)[i] = o[i]
  BY <1>1, SubSeqProperties
<1> QED
  BY <1>2, SubSeqFull

(* A connection is lost (Cut).                                             *)
LEMMA CutKeeps ==
    ASSUME PgWireInv, NEW c \in Conns, Cut(c)
    PROVE  PgWireInv'
<1>0. server[c] \in Session /\ server[c].outbox \in Seq(Messages)
  BY DEF PgWireInv, TypesOK, Session
<1>1. PICK k \in 0..Len(server[c].outbox), arrives \in BOOLEAN :
         server' = [server EXCEPT ![c].link = FALSE, ![c].outbox = SubSeq(@, 1, k),
                                  ![c].inbox = IF arrives THEN @ ELSE <<>>]
  BY DEF Cut
<1> DEFINE o == server[c].outbox
           p == SubSeq(o, 1, k)
           s == [server[c] EXCEPT !.link = FALSE, !.outbox = p,
                                  !.inbox = IF arrives THEN @ ELSE <<>>]
<1>2. /\ p \in Seq(Messages) /\ Len(p) = k /\ \A i \in 1..k : p[i] = o[i]
      /\ k = Len(o) => p = o
      /\ o = <<>> => p = <<>>
  <2>1. Len(o) \in Nat /\ (o = <<>> => Len(o) = 0)
    BY <1>0, LenProperties, EmptySeq
  <2> QED
    BY <1>0, <1>1, <2>1, Prefix
<1>3. server' = [server EXCEPT ![c] = s]
  BY <1>1 DEF PgWireInv, TypesOK
<1>4. /\ s \in Session
      /\ ~s.link /\ s.tx = server[c].tx /\ s.work = server[c].work /\ s.outbox = p
      /\ s.inbox = server[c].inbox \/ s.inbox = <<>>
  BY <1>0, <1>2, EmptySeq DEF Session
<1> HIDE DEF s
<1>5. \A t \in Statements : Pending(s, t) => Pending(server[c], t)
  BY <1>4 DEF Pending
<1>6. EffectsOK'
  BY <1>3, <1>4, <1>5, EffectsKept DEF Cut
<1>7. SessionOK(s, caller) /\ ConnectionOK(conns[c], s)
  <2>1. SessionOK(server[c], caller) /\ ConnectionOK(conns[c], server[c])
    BY DEF PgWireInv, SessionsOK
  <2>2. conns[c].state # "none"
    BY <2>1 DEF ConnectionOK, Cut, NoSession
  <2>3. SessionOK(s, caller)
    BY <2>1, <1>2, <1>4, EmptySeq DEF SessionOK, RequestOK
  <2> QED
    BY <2>1, <2>2, <2>3, <1>2, <1>4 DEF ConnectionOK, Cut
<1>8. \A q \in Callers : caller[q].conn = c => CallOK(q, caller[q], conns[c], s, table)
  <2> SUFFICES ASSUME NEW q \in Callers, caller[q].conn = c
               PROVE  CallOK(q, caller[q], conns[c], s, table)
    OBVIOUS
  <2> DEFINE x == caller[q]
  <2> HIDE DEF x, p
  <2>1. CallOK(q, x, conns[c], server[c], table)
    BY NoConnIsNone DEF PgWireInv, CallsOK, x
  <2>2. StartupOK(x, conns[c], s)
    BY <2>1, <1>2, <1>4, EmptySeq DEF CallOK, StartupOK
  <2>3. ReadingOK(q, x, conns[c], s, table)
    <3> SUFFICES ASSUME x.at = "reading"
                 PROVE  ReadingOK(q, x, conns[c], s, table)
      BY DEF ReadingOK
    <3>1. ReadingOK(q, x, conns[c], server[c], table) /\ Len(o) \in Nat
      BY <2>1, <1>0, LenProperties DEF CallOK
    <3>2. UnreadOK(q, x, o)
      BY <3>1 DEF ReadingOK
    <3>3. UnreadOK(q, x, p)
      <4> SUFFICES ASSUME NEW i \in 1..k
                   PROVE  /\ p[i] \in Answers
                          /\ EndsLoop(p[i]) => i = Len(p)
                          /\ p[i].k = "error" => i = 1
                          /\ p[i].k = "row" =>
                                /\ x.doing \in {"run", "stmt"}
                                /\ Own(q, x, [of |-> p[i].of, is |-> DecodeValue(p[i], x.format)])
                                /\ \A j \in 1..Len(p) : p[j].k = "row" => j = i
                          /\ p[i].k = "copy" => x.job = "copy"
        BY <1>2 DEF UnreadOK
      <4>1. i \in 1..Len(o) /\ p[i] = o[i] /\ \A j \in 1..Len(p) : j \in 1..Len(o) /\ p[j] = o[j]
        BY <3>1, <1>2
      <4> QED
        BY <3>1, <3>2, <4>1, <1>2 DEF UnreadOK
    <3>4. Clean(x, p) /\ HasReady(p) => p = o
      <4> SUFFICES ASSUME NEW i \in 1..k, p[i].k = "ready"
                   PROVE  k = Len(o)
        BY <1>2 DEF HasReady
      <4>1. i \in 1..Len(o) /\ EndsLoop(o[i])
        BY <1>2, <3>1 DEF EndsLoop
      <4>2. i = Len(o)
        BY <3>2, <4>1 DEF UnreadOK
      <4> QED
        BY <3>1, <4>2
    <3> QED
      BY <3>1, <3>3, <3>4, <1>4 DEF ReadingOK
  <2>4. ReturnedOK(q, x, conns[c], s, table)
    BY <2>1, <1>2, <1>4 DEF CallOK, ReturnedOK
  <2> QED
    BY <2>2, <2>3, <2>4 DEF CallOK, x
<1>9. \A q \in Callers : JobOK(q, caller[q], table)
  BY DEF PgWireInv, CallsOK
<1>10. \A q \in Callers : caller[q].conn \in Conns \ {c} =>
         CallOK(q, caller[q], conns[caller[q].conn], server[caller[q].conn], table)
  BY NoConnIsNone DEF PgWireInv, CallsOK
<1>11. cuts' \in 0..MaxCuts
  BY PgWireAssumption DEF PgWireInv, TypesOK, Cut
<1> QED
  BY <1>3, <1>4, <1>6, <1>7, <1>8, <1>9, <1>10, <1>11, OneSession DEF Cut, PgWireInv, TypesOK

-----------------------------------------------------------------------------
(* What a reply keeps for good was pending.                                *)
LEMMA KeptWasPending ==
    ASSUME NEW s \in Session, s.inbox # <<>>,
           NEW y \in RepliesTo(s, s.inbox[1]), NEW t \in Statements
    PROVE  /\ t \in y.kept => Pending(s, t)
           /\ t \in y.work => Pending(s, t) /\ t \notin y.kept
<1> DEFINE q == s.inbox[1]
<1>1. q \in Questions
  BY FirstRequest
<1> HIDE DEF q
<1>2. Failed(s, q, y) \/ Succeeded(s, q, y) \/ Copies(s, q, y) \/ Executed(s, q, y)
  BY <1>1, ReplyForms DEF q
<1>3. Executes(q) => Pending(s, q.of)
  BY DEF Pending, q
<1>4. \A u \in s.work : Pending(s, u)
  BY DEF Pending
<1> QED
  BY <1>2, <1>3, <1>4 DEF Failed, Succeeded, Copies, Executed

(* A statement that took effect stays in effect.                           *)
LEMMA TableGrows ==
    ASSUME PgWireInv, NEW c \in Conns, NEW kept \in SUBSET Statements,
           \A t \in kept : Pending(server[c], t),
           table' = [t \in Statements |-> table[t] + IF t \in kept THEN 1 ELSE 0]
    PROVE  /\ table' \in [Statements -> {0, 1}]
           /\ \A t \in Statements : table'[t] = IF t \in kept THEN 1 ELSE table[t]
           /\ \A t \in Statements : table[t] = 1 => table'[t] = 1
           /\ \A r \in Callers : \A x : Counted(r, x, table) => Counted(r, x, table')
<1>1. table \in [Statements -> {0, 1}] /\ \A t \in kept : table[t] = 0
  BY DEF PgWireInv, EffectsOK
<1>2. \A t \in Statements : table'[t] = IF t \in kept THEN 1 ELSE table[t]
  BY <1>1
<1>3. \A t \in Statements : table[t] = 1 => table'[t] = 1
  BY <1>1, <1>2
<1>4. \A r \in Callers : <<r, 1>> \in Statements /\ <<r, 2>> \in Statements
  BY DEF Statements
<1> QED
  BY <1>1, <1>2, <1>3, <1>4 DEF Counted

(* A call keeps what it knows when the table grows.                        *)
LEMMA TableKeepsCalls ==
    ASSUME NEW r \in Callers, NEW x, NEW k, NEW s, NEW t, NEW u,
           Counted(r, x, t) => Counted(r, x, u),
           t[<<r, 1>>] = 1 => u[<<r, 1>>] = 1
    PROVE  /\ JobOK(r, x, t) => JobOK(r, x, u)
           /\ CallOK(r, x, k, s, t) => CallOK(r, x, k, s, u)
<1>1. JobOK(r, x, t) => JobOK(r, x, u)
  BY DEF JobOK
<1>2. ReadingOK(r, x, k, s, t) => ReadingOK(r, x, k, s, u)
  BY DEF ReadingOK
<1>3. ReturnedOK(r, x, k, s, t) => ReturnedOK(r, x, k, s, u)
  BY DEF ReturnedOK
<1> QED
  BY <1>1, <1>2, <1>3 DEF CallOK

(* The effects after a reply.                                              *)
LEMMA AnswerEffects ==
    ASSUME PgWireInv, NEW c \in Conns, server[c].inbox # <<>>,
           NEW y \in RepliesTo(server[c], server[c].inbox[1]), NEW z \in Session,
           z.work = y.work, z.inbox = <<>>,
           server' = [server EXCEPT ![c] = z], caller' = caller,
           table' = [t \in Statements |-> table[t] + IF t \in y.kept THEN 1 ELSE 0]
    PROVE  EffectsOK'
<1> DEFINE s == server[c]
           q == s.inbox[1]
<1>0. s \in Session /\ q \in Questions /\ y.kept \subseteq Statements /\ SessionOK(s, caller)
  BY FirstRequest, ReplyTypes DEF PgWireInv, TypesOK, SessionsOK
<1>1. \A t \in y.kept : Pending(s, t)
  BY <1>0, KeptWasPending
<1>2. /\ table' \in [Statements -> {0, 1}]
      /\ \A t \in Statements : table'[t] = IF t \in y.kept THEN 1 ELSE table[t]
  BY <1>0, <1>1, TableGrows
<1>3. server'[c] = z /\ \A d \in Conns \ {c} : server'[d] = server[d]
  BY DEF PgWireInv, TypesOK
<1>4. ASSUME NEW d \in Conns, NEW t \in Statements, Pending(server'[d], t)
      PROVE  Pending(server[d], t) /\ t \notin y.kept
  <2>1. CASE d = c
    <3>1. t \in y.work
      BY <2>1, <1>3, <1>4 DEF Pending
    <3> QED
      BY <2>1, <3>1, <1>0, KeptWasPending
  <2>2. CASE d # c
    BY <2>2, <1>1, <1>3, <1>4 DEF PgWireInv, EffectsOK
  <2> QED
    BY <2>1, <2>2
<1>5. ASSUME NEW d \in Conns, NEW t \in Statements, Pending(server'[d], t)
      PROVE  table'[t] = 0 /\ \A e \in Conns : Pending(server'[e], t) => e = d
  BY <1>2, <1>4, <1>5 DEF PgWireInv, EffectsOK
<1>6. ASSUME NEW r \in Callers, NEW n \in {1, 2}, Fresh(caller[r], n)
      PROVE  table'[<<r, n>>] = 0 /\ \A e \in Conns : ~Pending(server'[e], <<r, n>>)
  <2>1. <<r, n>> \in Statements
    BY DEF Statements
  <2>2. table[<<r, n>>] = 0 /\ \A e \in Conns : ~Pending(server[e], <<r, n>>)
    BY <1>6 DEF PgWireInv, EffectsOK
  <2> QED
    BY <2>1, <2>2, <1>1, <1>2, <1>4
<1>7. ASSUME NEW r \in Callers, caller[r].job = "tx"
      PROVE  /\ table'[<<r, 1>>] = table'[<<r, 2>>]
             /\ ~caller[r].asked => table'[<<r, 1>>] = 0
  <2>0. /\ <<r, 1>> \in Statements /\ <<r, 2>> \in Statements
        /\ table[<<r, 1>>] = table[<<r, 2>>] /\ (~caller[r].asked => table[<<r, 1>>] = 0)
    BY <1>7 DEF PgWireInv, EffectsOK, Statements
  <2>1. RequestOK(s, q, caller)
    BY <1>0 DEF SessionOK
  <2>2. CASE <<r, 1>> \notin y.kept /\ <<r, 2>> \notin y.kept
    BY <2>0, <2>2, <1>2
  <2>3. CASE Executed(s, q, y) /\ y.kept # {}
    <3>1. y.kept = {q.of} /\ s.tx = "I" /\ Executes(q)
      BY <2>3 DEF Executed
    <3>2. caller[q.of[1]].job # "tx"
      BY <2>1, <3>1 DEF RequestOK
    <3> QED
      BY <2>2, <3>1, <3>2, <1>7
  <2>4. CASE Succeeded(s, q, y) /\ y.kept # {}
    <3>1. q.ask = "commit" /\ y.kept = s.work
      BY <2>4 DEF Succeeded
    <3>2. s.work = {<<q.of[1], 1>>, <<q.of[1], 2>>} /\ caller[q.of[1]].asked
      BY <2>1, <3>1 DEF RequestOK
    <3>3. CASE r = q.of[1]
      BY <3>1, <3>2, <3>3, <2>0, <1>2
    <3>4. CASE r # q.of[1]
      BY <2>2, <3>1, <3>2, <3>4
    <3> QED
      BY <3>3, <3>4
  <2>5. y.kept = {} \/ Executed(s, q, y) \/ Succeeded(s, q, y)
    BY <1>0, ReplyForms DEF Failed, Copies
  <2> QED
    BY <2>2, <2>3, <2>4, <2>5
<1> HIDE DEF s, q
<1> QED
  BY <1>2, <1>5, <1>6, <1>7 DEF EffectsOK

(* The messages of a reply, as the loop will read them.                    *)
LEMMA AnswerUnread ==
    ASSUME NEW r \in Callers, NEW x \in Caller, NEW s \in Session, NEW q \in Questions,
           NEW y \in RepliesTo(s, q), NEW t,
           x.at = "reading", JobOK(r, x, t), Matches(r, x, q)
    PROVE  UnreadOK(r, x, y.out)
<1>0. y.out \in Seq(Answers)
  BY ReplyTypes
<1> SUFFICES ASSUME NEW i \in 1..Len(y.out)
             PROVE  /\ y.out[i] \in Answers
                    /\ EndsLoop(y.out[i]) => i = Len(y.out)
                    /\ y.out[i].k = "error" => i = 1
                    /\ y.out[i].k = "row" =>
                         /\ x.doing \in {"run", "stmt"}
                         /\ Own(r, x, [of |-> y.out[i].of, is |-> DecodeValue(y.out[i], x.format)])
                         /\ \A j \in 1..Len(y.out) : y.out[j].k = "row" => j = i
                    /\ y.out[i].k = "copy" => x.job = "copy"
  BY DEF UnreadOK
<1>1. y.out[i] \in Answers
  BY <1>0, ElementOfSeq
<1>2. x.doing \in {"reset", "begin", "prepare", "run", "stmt", "close",
                   "rollback", "commit", "endfailed"}
  BY DEF Caller, JobOK
<1>3. ASSUME y.out[i].k = "row"
      PROVE  /\ x.doing \in {"run", "stmt"}
             /\ Own(r, x, [of |-> y.out[i].of, is |-> DecodeValue(y.out[i], x.format)])
             /\ \A j \in 1..Len(y.out) : y.out[j].k = "row" => j = i
  <2>1. /\ i = 2 /\ Executed(s, q, y)
        /\ y.out[i] = Row(q.of, ServerReads(q.arg, q.oid), q.format)
        /\ \A j \in 1..Len(y.out) : y.out[j].k = "row" => j = 2
    BY <1>3, ReplyOut
  <2>2. q.ask \in {"exec", "execute"} /\ ServerReads(q.arg, q.oid) # "refused"
    BY <2>1 DEF Executed, Executes
  <2>3. x.doing \in {"run", "stmt"}
    BY <1>2, <2>2 DEF Matches
  <2>4. q.of = <<r, 1>> \/ (x.job = "tx" /\ q.of = <<r, 2>>)
    BY <2>3 DEF Matches, JobOK, Caller
  <2>5. ASSUME x.job = "query"
        PROVE  DecodeValue(y.out[i], x.format) = x.arg.value.is
    <3>1. x.doing = "run"
      BY <2>3, <2>5 DEF JobOK
    <3>2. /\ q.arg = EncodeParam(x.arg.value, x.arg.oid) /\ q.arg # Unencodable
          /\ q.oid = x.arg.oid /\ q.format = x.format
      BY <2>5, <3>1 DEF Matches
    <3>3. x.arg \in Args
      BY DEF Caller
    <3>4. ServerReads(q.arg, q.oid) = x.arg.value.is
      BY <2>2, <3>2, <3>3, EncodeParamKeeps
    <3> QED
      BY <2>1, <3>2, <3>4 DEF DecodeValue, Row
  <2> QED
    BY <2>1, <2>3, <2>4, <2>5 DEF Own, Row
<1>4. ASSUME y.out[i].k = "copy"
      PROVE  x.job = "copy"
  <2>1. q.ask = "copy"
    BY <1>4, ReplyOut
  <2> QED
    BY <1>2, <2>1 DEF Matches
<1> QED
  BY <1>1, <1>3, <1>4, ReplyOut

(* A call in its loop, when the server has replied.                        *)
LEMMA AnswerToCall ==
    ASSUME PgWireInv, NEW c \in Conns, server[c].inbox # <<>>, server[c].link,
           NEW r \in Callers, caller[r].conn = c, caller[r].at = "reading",
           NEW y \in RepliesTo(server[c], server[c].inbox[1]), NEW z \in Session,
           z.link, z.tx = y.tx, z.work = y.work, z.inbox = <<>>, z.outbox = y.out,
           table' = [t \in Statements |-> table[t] + IF t \in y.kept THEN 1 ELSE 0]
    PROVE  ReadingOK(r, caller[r], conns[c], z, table')
<1> DEFINE s == server[c]
           q == s.inbox[1]
           x == caller[r]
<1>0. /\ s \in Session /\ q \in Questions /\ x \in Caller
      /\ SessionOK(s, caller) /\ JobOK(r, x, table)
      /\ y.kept \subseteq Statements
  BY FirstRequest, ReplyTypes DEF PgWireInv, TypesOK, SessionsOK, CallsOK
<1>1. RequestOK(s, q, caller) /\ ReadingOK(r, x, conns[c], s, table)
  BY <1>0, NoConnIsNone DEF SessionOK, PgWireInv, CallsOK, CallOK
<1>2. Matches(r, x, q) /\ ~conns[c].bad
  BY <1>1 DEF ReadingOK
<1>3. \A t \in Statements : table'[t] = IF t \in y.kept THEN 1 ELSE table[t]
  BY <1>0, KeptWasPending, TableGrows
<1>4. <<r, 1>> \in Statements /\ <<r, 2>> \in Statements
  BY DEF Statements
<1> HIDE DEF q, x
<1>5. y \in RepliesTo(s, q) /\ x.at = "reading" /\ s.link /\ s.inbox # <<>>
  BY DEF q, x
<1> HIDE DEF s
<1>6. UnreadOK(r, x, y.out)
  BY <1>0, <1>2, <1>5, AnswerUnread
<1>7. Failed(s, q, y) \/ Succeeded(s, q, y) \/ Copies(s, q, y) \/ Executed(s, q, y)
  BY <1>0, <1>5, ReplyForms
<1>8. /\ \A i \in 1..Len(y.out) : y.out[i].k = "ready" => y.out[i].tx = y.tx
      /\ Clean(x, y.out) => ~Failed(s, q, y)
      /\ Executed(s, q, y) => HasRow(y.out)
      /\ Copies(s, q, y) => ~HasReady(y.out)
  BY <1>0, <1>5, ReplyOut DEF Clean
<1>9. x.doing = "reset" /\ Clean(x, y.out) => y.tx = "I"
  BY <1>2, <1>7, <1>8 DEF Matches, Succeeded, Copies, Executed, Executes
<1>10. x.doing = "begin" /\ Clean(x, y.out) => y.tx = "T" /\ y.work = {}
  <2> SUFFICES ASSUME x.doing = "begin", Clean(x, y.out)
               PROVE  y.tx = "T" /\ y.work = {}
    OBVIOUS
  <2>1. q.ask = "begin"
    BY <1>2 DEF Matches
  <2>2. s.work = {}
    BY <2>1, <1>0, <1>1 DEF RequestOK, SessionOK
  <2> QED
    BY <2>1, <2>2, <1>7, <1>8 DEF Succeeded, Copies, Executed, Executes
<1>11. x.doing \in {"prepare", "run", "close"} => y.tx = "I"
  <2> SUFFICES ASSUME x.doing \in {"prepare", "run", "close"}
               PROVE  y.tx = "I"
    OBVIOUS
  <2>1. s.tx = "I"
    BY <1>1, <1>5 DEF ReadingOK
  <2>2. q.ask \notin {"begin"}
    <3>1. x.job \in {"exec", "query", "tx", "copy"}
      BY <1>0, PgWireAssumption DEF Caller
    <3> QED
      BY <3>1, <1>2 DEF Matches
  <2> QED
    BY <2>1, <2>2, <1>7 DEF Failed, Succeeded, Copies, Executed
<1>12. x.doing = "stmt" =>
          /\ y.tx # "I"
          /\ y.tx = "T" => y.work = Work(r, x.n) /\ Len(x.rows) = x.n - 1 /\ HasRow(y.out)
  <2> SUFFICES ASSUME x.doing = "stmt"
               PROVE  /\ y.tx # "I"
                      /\ y.tx = "T" => /\ y.work = Work(r, x.n) /\ Len(x.rows) = x.n - 1
                                       /\ HasRow(y.out)
    OBVIOUS
  <2>1. q.ask = "exec" /\ q.of = <<r, x.n>> /\ x.n \in {1, 2}
    BY <1>0, <1>2 DEF Matches, Caller
  <2>2. /\ s.tx # "I"
        /\ s.tx = "T" => s.work = Work(r, x.n - 1) /\ Len(x.rows) = x.n - 1
    BY <1>1, <1>5 DEF ReadingOK
  <2>3. Failed(s, q, y) \/ Executed(s, q, y)
    BY <2>1, <1>7 DEF Succeeded, Copies
  <2>4. CASE Failed(s, q, y)
    BY <2>1, <2>2, <2>4 DEF Failed
  <2>5. CASE Executed(s, q, y)
    <3>1. s.tx = "T" /\ y.tx = "T" /\ y.work = s.work \cup {<<r, x.n>>}
      BY <2>1, <2>2, <2>5 DEF Executed
    <3>2. Work(r, x.n - 1) \cup {<<r, x.n>>} = Work(r, x.n)
      BY <2>1 DEF Work
    <3> QED
      BY <3>1, <3>2, <2>2, <2>5, <1>8
  <2> QED
    BY <2>3, <2>4, <2>5
<1>13. x.doing = "run" /\ Clean(x, y.out) /\ HasReady(y.out) =>
          /\ x.job # "copy" /\ table'[<<r, 1>>] = 1
          /\ Len(x.rows) = 0 /\ HasRow(y.out)
  <2> SUFFICES ASSUME x.doing = "run", Clean(x, y.out), HasReady(y.out)
               PROVE  /\ x.job # "copy" /\ table'[<<r, 1>>] = 1
                      /\ Len(x.rows) = 0 /\ HasRow(y.out)
    OBVIOUS
  <2>1. q.ask = (IF x.job = "query" THEN "execute" ELSE x.job) /\ q.of = <<r, 1>>
    BY <1>2 DEF Matches
  <2>2. x.job \in {"exec", "query", "copy"}
    BY <1>0, <1>5, PgWireAssumption DEF Caller, JobOK
  <2>3. Executed(s, q, y)
    BY <2>1, <2>2, <1>7, <1>8 DEF Succeeded
  <2>4. x.rows = <<>> /\ s.tx = "I"
    BY <1>1, <1>5 DEF ReadingOK
  <2>5. y.kept = {<<r, 1>>}
    BY <2>1, <2>3, <2>4 DEF Executed
  <2>6. x.job # "copy"
    BY <2>1, <2>3 DEF Executed, Executes
  <2> QED
    BY <2>3, <2>4, <2>5, <2>6, <1>3, <1>4, <1>8, EmptySeq
<1>14. x.doing = "commit" /\ Clean(x, y.out) => Counted(r, x, table')
  <2> SUFFICES ASSUME x.doing = "commit", Clean(x, y.out)
               PROVE  Counted(r, x, table')
    OBVIOUS
  <2>1. q.ask = "commit" /\ q.of = <<r, 1>>
    BY <1>2 DEF Matches
  <2>2. s.tx = "T" /\ s.work = {<<r, 1>>, <<r, 2>>}
    BY <2>1, <1>1 DEF RequestOK
  <2>3. Succeeded(s, q, y)
    BY <2>1, <1>7, <1>8 DEF Copies, Executed, Executes
  <2>4. y.kept = {<<r, 1>>, <<r, 2>>}
    BY <2>1, <2>2, <2>3 DEF Succeeded
  <2>5. x.job = "tx" /\ Len(x.rows) = 2
    BY <1>0, <1>1, <1>5 DEF JobOK, ReadingOK
  <2> QED
    BY <2>4, <2>5, <1>3, <1>4 DEF Counted
<1>15. ReadingOK(r, x, conns[c], z, table')
  BY <1>2, <1>6, <1>8, <1>9, <1>10, <1>11, <1>12, <1>13, <1>14 DEF ReadingOK
<1> QED
  BY <1>15 DEF x

(* The server replies to a request (ServerAnswers).                        *)
LEMMA ServerAnswersKeeps ==
    ASSUME PgWireInv, NEW c \in Conns, ServerAnswers(c)
    PROVE  PgWireInv'
<1> DEFINE s == server[c]
           q == s.inbox[1]
<1>0. s \in Session /\ s.inbox # <<>> /\ Head(s.inbox) = q
  BY DEF PgWireInv, TypesOK, ServerAnswers, Session
<1>1. PICK y \in Replies(s, q) \cup (IF s.killed THEN {Fails(s, "canceled")} ELSE {}) :
         /\ server' = [server EXCEPT ![c] =
               [s EXCEPT !.inbox = Tail(@), !.killed = FALSE, !.tx = y.tx, !.work = y.work,
                         !.outbox = IF s.link THEN @ \o y.out ELSE @]]
         /\ table' = [t \in Statements |-> table[t] + IF t \in y.kept THEN 1 ELSE 0]
  BY <1>0 DEF ServerAnswers
<1> DEFINE z == [s EXCEPT !.inbox = Tail(@), !.killed = FALSE, !.tx = y.tx, !.work = y.work,
                          !.outbox = IF s.link THEN @ \o y.out ELSE @]
<1>2. y \in RepliesTo(s, q)
  BY <1>1 DEF RepliesTo
<1>3. /\ q \in Questions /\ SessionOK(s, caller) /\ ConnectionOK(conns[c], s)
      /\ y.out \in Seq(Answers) /\ y.tx \in TxStatus
      /\ y.work \subseteq Statements /\ y.kept \subseteq Statements
  BY <1>0, <1>2, FirstRequest, ReplyTypes DEF PgWireInv, SessionsOK
<1>4. Tail(s.inbox) = <<>> /\ s.outbox = <<>> /\ RequestOK(s, q, caller)
  <2>1. s.inbox \in Seq(Questions) /\ Len(s.inbox) \in Nat \ {0} /\ Len(s.inbox) <= 1
    BY <1>0, <1>3, EmptySeq DEF Session, SessionOK
  <2>2. Tail(s.inbox) \in Seq(Questions) /\ Len(Tail(s.inbox)) = Len(s.inbox) - 1
    BY <2>1, <1>0, HeadTailProperties, Zenon
  <2> QED
    BY <2>1, <2>2, <1>0, <1>3, EmptySeq DEF SessionOK
<1>5. y.out \in Seq(Messages) /\ <<>> \o y.out = y.out
  BY <1>3, SeqMonotonic, ConcatEmptySeq DEF Messages
<1>6. /\ z \in Session
      /\ z.link = s.link /\ z.tx = y.tx /\ z.work = y.work /\ z.inbox = <<>>
      /\ z.outbox = (IF s.link THEN y.out ELSE <<>>)
  BY <1>0, <1>3, <1>4, <1>5, EmptySeq DEF Session
<1>7. server' = [server EXCEPT ![c] = z]
  BY <1>1
<1> HIDE DEF z
<1>8. EffectsOK'
  <2>1. /\ server[c].inbox # <<>> /\ y \in RepliesTo(server[c], server[c].inbox[1])
        /\ z.work = y.work /\ z.inbox = <<>> /\ caller' = caller
    BY <1>0, <1>2, <1>6 DEF ServerAnswers
  <2>2. table' = [t \in Statements |-> table[t] + IF t \in y.kept THEN 1 ELSE 0]
    BY <1>1
  <2> QED
    BY <2>1, <2>2, <1>6, <1>7, AnswerEffects
<1>9. Failed(s, q, y) \/ Succeeded(s, q, y) \/ Copies(s, q, y) \/ Executed(s, q, y)
  BY <1>0, <1>2, <1>3, ReplyForms
<1>10. SessionOK(z, caller)
  <2>1. y.tx = "I" => y.work = {}
    <3>1. s.tx = "I" => s.work = {}
      BY <1>3 DEF SessionOK
    <3>2. q.ask = "begin" => s.tx = "I"
      BY <1>4 DEF RequestOK
    <3> HIDE DEF s, q
    <3> QED
      BY <1>9, <3>1, <3>2 DEF Failed, Succeeded, Copies, Executed
  <2>2. \A t \in y.work : caller[t[1]].job = "tx"
    <3>1. \A t \in s.work : caller[t[1]].job = "tx"
      BY <1>3 DEF SessionOK
    <3>2. Executes(q) /\ s.tx # "I" => caller[q.of[1]].job = "tx"
      BY <1>4 DEF RequestOK
    <3> HIDE DEF s, q
    <3> QED
      BY <1>9, <3>1, <3>2 DEF Failed, Succeeded, Copies, Executed
  <2> QED
    BY <1>6, <2>1, <2>2, EmptySeq DEF SessionOK
<1>11. ConnectionOK(conns[c], z)
  <2>1. conns[c].state # "none"
    BY <1>0, <1>3 DEF ConnectionOK, NoSession
  <2> QED
    BY <2>1, <1>0, <1>3, <1>6 DEF ConnectionOK
<1>12. \A r \in Callers : /\ Counted(r, caller[r], table) => Counted(r, caller[r], table')
                          /\ table[<<r, 1>>] = 1 => table'[<<r, 1>>] = 1
  <2>1. \A t \in y.kept : Pending(server[c], t)
    BY <1>0, <1>2, <1>3, KeptWasPending
  <2>2. \A r \in Callers : <<r, 1>> \in Statements
    BY DEF Statements
  <2> QED
    BY <1>1, <1>3, <2>1, <2>2, TableGrows
<1>13. \A r \in Callers : JobOK(r, caller[r], table')
  BY <1>12, TableKeepsCalls DEF PgWireInv, CallsOK
<1>14. \A r \in Callers : caller[r].conn \in Conns \ {c} =>
          CallOK(r, caller[r], conns[caller[r].conn], server[caller[r].conn], table')
  BY <1>12, TableKeepsCalls, NoConnIsNone DEF PgWireInv, CallsOK
<1>15. ASSUME NEW r \in Callers, caller[r].conn = c
       PROVE  CallOK(r, caller[r], conns[c], z, table')
  <2>1. CallOK(r, caller[r], conns[c], s, table)
    BY <1>15, NoConnIsNone DEF PgWireInv, CallsOK
  <2>2. StartupOK(caller[r], conns[c], z)
    BY <2>1, <1>0 DEF CallOK, StartupOK
  <2>3. ReturnedOK(r, caller[r], conns[c], z, table')
    <3>1. caller[r].at = "returned" => ~s.link /\ conns[c].bad /\ caller[r].err # ""
      BY <2>1, <1>0 DEF CallOK, ReturnedOK
    <3> QED
      BY <3>1, <1>6 DEF ReturnedOK
  <2>4. ReadingOK(r, caller[r], conns[c], z, table')
    <3>1. CASE caller[r].at # "reading"
      BY <3>1 DEF ReadingOK
    <3>2. CASE caller[r].at = "reading" /\ s.link
      BY <3>2, <1>0, <1>1, <1>2, <1>6, <1>15, AnswerToCall
    <3>3. CASE caller[r].at = "reading" /\ ~s.link
      <4>1. ~conns[c].bad
        BY <2>1, <3>3 DEF CallOK, ReadingOK
      <4>2. UnreadOK(r, caller[r], z.outbox) /\ ~Clean(caller[r], z.outbox)
        BY <1>6, <3>3, EmptySeq DEF UnreadOK, Clean
      <4> QED
        BY <4>1, <4>2, <3>3, <1>6 DEF ReadingOK
    <3> QED
      BY <3>1, <3>2, <3>3
  <2> QED
    BY <2>2, <2>3, <2>4 DEF CallOK
<1> QED
  BY <1>6, <1>7, <1>8, <1>10, <1>11, <1>13, <1>14, <1>15, OneSession
     DEF ServerAnswers, PgWireInv, TypesOK

-----------------------------------------------------------------------------
(* The same call, apart from where it is and what it was told.             *)
Alike(x, y) ==
    /\ y.job = x.job /\ y.arg = x.arg /\ y.conn = x.conn /\ y.n = x.n /\ y.rows = x.rows
    /\ y.format = x.format /\ y.asked = x.asked /\ y.verdict = x.verdict

(* A step of a caller that holds no connection.                            *)
LEMMA CallAside ==
    ASSUME PgWireInv, NEW r \in Callers, NEW y \in Caller,
           caller' = [caller EXCEPT ![r] = y],
           UNCHANGED <<conns, server, cancels, table, cuts>>,
           caller[r].conn = NoConn, y.conn = NoConn, y.at \in {"want", "done"},
           y.job = caller[r].job, caller[r].asked => y.asked,
           \A n \in {1, 2} : Fresh(y, n) => Fresh(caller[r], n), JobOK(r, y, table)
    PROVE  PgWireInv'
<1>0. /\ caller \in [Callers -> Caller] /\ caller'[r] = y
      /\ \A q \in Callers \ {r} : caller'[q] = caller[q]
  BY DEF PgWireInv, TypesOK
<1>1. TypesOK'
  BY <1>0 DEF PgWireInv, TypesOK
<1>2. Owned'
  BY <1>0 DEF PgWireInv, Owned
<1>3. SessionsOK'
  <2> SUFFICES ASSUME NEW d \in Conns
               PROVE  SessionOK(server[d], caller')
    BY DEF PgWireInv, SessionsOK
  <2> QED
    BY SessionOfOthers DEF PgWireInv, SessionsOK, TypesOK
<1>4. EffectsOK'
  <2>1. \A q \in Callers, n \in {1, 2} : Fresh(caller'[q], n) => Fresh(caller[q], n)
    BY <1>0
  <2>2. \A q \in Callers : /\ caller'[q].job = caller[q].job
                           /\ caller[q].asked => caller'[q].asked
    BY <1>0
  <2> QED
    BY <2>1, <2>2 DEF PgWireInv, EffectsOK
<1>5. CallsOK'
  BY <1>0 DEF PgWireInv, CallsOK
<1> QED
  BY <1>1, <1>2, <1>3, <1>4, <1>5 DEF PgWireInv

(* Calls that are alike at one place satisfy the same.                     *)
LEMMA AlikeCalls ==
    ASSUME NEW r \in Callers, NEW x, NEW y, NEW t, Alike(x, y), y.at = x.at, y.doing = x.doing,
           JobOK(r, x, t)
    PROVE  JobOK(r, y, t) /\ \A n \in {1, 2} : Fresh(y, n) => Fresh(x, n)
<1>1. \A row : Own(r, x, row) => Own(r, y, row)
  BY DEF Alike, Own
<1>2. Counted(r, x, t) => Counted(r, y, t)
  BY DEF Alike, Counted
<1> QED
  BY <1>1, <1>2 DEF Alike, JobOK, Fresh

(* A context ends (DeadlinePasses).                                        *)
LEMMA DeadlinePassesKeeps ==
    ASSUME PgWireInv, NEW r \in Callers, DeadlinePasses(r)
    PROVE  PgWireInv'
<1> DEFINE x == caller[r]
           y == [x EXCEPT !.ctx = "expired"]
           c == x.conn
<1>0. /\ x \in Caller /\ y \in Caller /\ Alike(x, y)
      /\ y.at = x.at /\ y.doing = x.doing /\ y.err = x.err
  <2>1. x \in Caller
    BY DEF PgWireInv, TypesOK
  <2> HIDE DEF x
  <2>2. y \in Caller
    BY <2>1 DEF Caller
  <2>3. /\ y.job = x.job /\ y.arg = x.arg /\ y.conn = x.conn /\ y.n = x.n /\ y.rows = x.rows
        /\ y.format = x.format /\ y.asked = x.asked /\ y.verdict = x.verdict
        /\ y.at = x.at /\ y.doing = x.doing /\ y.err = x.err
    BY <2>1 DEF Caller
  <2> QED
    BY <2>1, <2>2, <2>3 DEF Alike
<1>1. /\ caller' = [caller EXCEPT ![r] = y] /\ UNCHANGED <<conns, server, cancels, table, cuts>>
      /\ cancels \subseteq Conns /\ cuts \in 0..MaxCuts
  BY DEF DeadlinePasses, PgWireInv, TypesOK
<1>2. JobOK(r, x, table) /\ (x.conn # NoConn => CallOK(r, x, conns[c], server[c], table))
  BY DEF PgWireInv, CallsOK
<1>3. /\ x.at \in {"want", "done"} <=> x.conn = NoConn
      /\ x.conn # NoConn => conns[c].state = "open" /\ ~conns[c].idle
      /\ \A q \in Callers : x.conn = caller[q].conn => r = q \/ x.conn = NoConn
  BY DEF PgWireInv, Owned
<1> HIDE DEF x, y
<1>4. JobOK(r, y, table) /\ \A n \in {1, 2} : Fresh(y, n) => Fresh(x, n)
  BY <1>0, <1>2, AlikeCalls
<1>5. CASE x.conn = NoConn
  BY <1>0, <1>1, <1>3, <1>4, <1>5, CallAside DEF Alike, x
<1>6. CASE x.conn # NoConn
  <2>1. c \in Conns /\ conns[c] \in Connection /\ server[c] \in Session
    BY <1>0, <1>6 DEF Caller, PgWireInv, TypesOK
  <2>2. conns' = [conns EXCEPT ![c] = conns[c]] /\ server' = [server EXCEPT ![c] = server[c]]
    BY <1>1, <2>1 DEF PgWireInv, TypesOK
  <2>3. SessionOK(server[c], caller') /\ ConnectionOK(conns[c], server[c])
    <3>1. SessionOK(server[c], caller) /\ ConnectionOK(conns[c], server[c])
      BY <2>1 DEF PgWireInv, SessionsOK
    <3> QED
      BY <3>1, <2>1, <1>0, <1>1, SessionOfOthers DEF Alike, x, PgWireInv
  <2>4. CallOK(r, y, conns[c], server[c], table)
    <3>0. CallOK(r, x, conns[c], server[c], table)
      BY <1>2, <1>6
    <3>1. /\ \A row : Own(r, x, row) => Own(r, y, row)
          /\ Counted(r, x, table) => Counted(r, y, table)
          /\ \A o : Clean(y, o) => Clean(x, o)
          /\ \A q : Matches(r, x, q) => Matches(r, y, q)
      BY <1>0 DEF Alike, Own, Counted, Clean, Matches
    <3>2. StartupOK(y, conns[c], server[c])
      BY <3>0, <1>0 DEF CallOK, StartupOK
    <3>3. ReadingOK(r, y, conns[c], server[c], table)
      <4>1. \A o : UnreadOK(r, x, o) => UnreadOK(r, y, o)
        BY <3>1, <1>0 DEF UnreadOK, Alike
      <4> QED
        BY <3>0, <3>1, <4>1, <1>0 DEF CallOK, ReadingOK, Alike
    <3>4. ReturnedOK(r, y, conns[c], server[c], table)
      BY <3>0, <3>1, <1>0 DEF CallOK, ReturnedOK, Alike
    <3> QED
      BY <3>2, <3>3, <3>4 DEF CallOK
  <2>5. y.conn = c /\ y.job = x.job /\ (x.asked => y.asked)
    BY <1>0 DEF Alike
  <2>6. \A q \in Callers : caller[q].conn = c => q = r
    BY <1>3, <1>6
  <2> QED
    <3>1. Moves(r, c, y, conns[c], server[c])
      BY <1>0, <1>1, <1>3, <1>4, <1>6, <2>1, <2>2, <2>3, <2>4, <2>5, <2>6 DEF Moves, x
    <3> QED
      BY <3>1, <1>0, <2>1, OneCall
<1> QED
  BY <1>5, <1>6

(* What the invariant says of a call that holds a connection.              *)
LEMMA Held ==
    ASSUME PgWireInv, NEW r \in Callers, caller[r].conn # NoConn
    PROVE  LET x == caller[r]
               c == x.conn
           IN  /\ x \in Caller /\ c \in Conns
               /\ conns[c] \in Connection /\ server[c] \in Session
               /\ conns[c].state = "open" /\ ~conns[c].idle
               /\ \A q \in Callers : caller[q].conn = c => q = r
               /\ SessionOK(server[c], caller) /\ ConnectionOK(conns[c], server[c])
               /\ JobOK(r, x, table) /\ CallOK(r, x, conns[c], server[c], table)
               /\ cancels \subseteq Conns /\ cuts \in 0..MaxCuts
<1>1. /\ caller \in [Callers -> Caller] /\ conns \in [Conns -> Connection]
      /\ server \in [Conns -> Session] /\ cancels \subseteq Conns /\ cuts \in 0..MaxCuts
  BY DEF PgWireInv, TypesOK
<1>2. caller[r] \in Caller
  BY <1>1
<1>3. caller[r].conn \in Conns
  BY <1>2 DEF Caller
<1> QED
  BY <1>1, <1>2, <1>3 DEF PgWireInv, Owned, SessionsOK, CallsOK

(* The caller that entered a loop, as Send leaves it.                      *)
Reads(x, doing) == [x EXCEPT !.doing = doing, !.err = "", !.at = "reading"]

(* Waiting for a message changes a call's place and what it told (Await).  *)
LEMMA Awaits ==
    ASSUME PgWireInv, NEW r \in Callers, NEW x \in Caller, x.conn \in Conns, Await(r, x)
    PROVE  /\ cancels' \subseteq Conns /\ cuts' \in 0..MaxCuts
           /\ \E y \in Caller :
                 /\ caller' = [caller EXCEPT ![r] = y]
                 /\ Alike(x, y) /\ y.at = "reading" /\ y.doing = x.doing /\ y.err = x.err
                 /\ y.ctx = x.ctx
<1> DEFINE tells == Late(x) /\ ~x.told
           y == [x EXCEPT !.at = "reading", !.told = @ \/ tells]
<1>1. caller' = [caller EXCEPT ![r] = y]
  BY DEF Await
<1>2. cancels' \subseteq Conns /\ cuts' \in 0..MaxCuts
  BY PgWireAssumption DEF Await, PgWireInv, TypesOK
<1>3. y \in Caller
  <2>1. (x.told \/ tells) \in BOOLEAN
    OBVIOUS
  <2> QED
    BY <2>1 DEF Caller
<1>4. Alike(x, y) /\ y.at = "reading" /\ y.doing = x.doing /\ y.err = x.err /\ y.ctx = x.ctx
  BY DEF Alike, Caller
<1> QED
  BY <1>1, <1>2, <1>3, <1>4

(* The call returns and its connection goes back (Conclude, HandBack).     *)
LEMMA Concludes ==
    ASSUME PgWireInv, NEW r \in Callers, NEW x \in Caller, NEW verdict \in {"", "ok", "failed"},
           caller[r].at = "returned", x.conn = caller[r].conn, x.job = caller[r].job,
           x.arg = caller[r].arg, x.n = caller[r].n, x.rows = caller[r].rows,
           x.asked = caller[r].asked,
           verdict = "ok" => x.job # "copy" /\ Counted(r, x, table),
           Conclude(r, x, verdict)
    PROVE  PgWireInv'
<1> DEFINE c == x.conn
           y == [x EXCEPT !.at = "done", !.conn = NoConn, !.verdict = verdict]
<1>1. HandBack(r, y, c)
  BY DEF Conclude, Caller, Errs
<1>2. caller[r].conn # NoConn
  BY DEF PgWireInv, Owned
<1> DEFINE k == conns[c]
           s == server[c]
<1>3. /\ c \in Conns /\ k \in Connection /\ s \in Session
      /\ k.state = "open" /\ ~k.idle /\ \A q \in Callers : caller[q].conn = c => q = r
      /\ SessionOK(s, caller) /\ ConnectionOK(k, s)
      /\ JobOK(r, caller[r], table) /\ ReturnedOK(r, caller[r], k, s, table)
      /\ cancels \subseteq Conns /\ cuts \in 0..MaxCuts
  BY <1>2, Held DEF CallOK
<1>4. /\ y \in Caller /\ y.conn = NoConn /\ y.at = "done" /\ y.verdict = verdict
      /\ y.job = x.job /\ y.arg = x.arg /\ y.n = x.n /\ y.rows = x.rows /\ y.asked = x.asked
  BY DEF Caller
<1>5. caller' = [caller EXCEPT ![r] = y] /\ UNCHANGED <<cancels, table, cuts>>
  BY <1>1 DEF HandBack
<1> HIDE DEF y
<1>6. JobOK(r, y, table)
  <2>1. \A row : Own(r, caller[r], row) => Own(r, y, row)
    BY <1>4 DEF Own
  <2>2. Counted(r, x, table) => Counted(r, y, table)
    BY <1>4 DEF Counted
  <2> QED
    BY <1>3, <1>4, <2>1, <2>2 DEF JobOK
<1>10. y.job = caller[r].job /\ (caller[r].asked => y.asked) /\ y.conn # c
  BY <1>3, <1>4, NoConnIsNone
<1>7. \A n \in {1, 2} : ~Fresh(y, n)
  BY <1>4 DEF Fresh
<1>8. CASE IsValid(c)
  <2> DEFINE l == [k EXCEPT !.idle = TRUE]
  <2>1. /\ l \in Connection /\ l.idle /\ l.state = "open" /\ l.bad = k.bad /\ l.tx = k.tx
    BY <1>3 DEF Connection
  <2>2. conns' = [conns EXCEPT ![c] = l] /\ server' = [server EXCEPT ![c] = s]
    BY <1>1, <1>3, <1>8 DEF HandBack, PgWireInv, TypesOK
  <2>3. ~k.bad /\ k.tx # "E"
    BY <1>8 DEF IsValid
  <2>4. ConnectionOK(l, s)
    BY <1>3, <2>1, <2>3 DEF ConnectionOK, ReturnedOK
  <2>5. SessionOK(s, caller')
    BY <1>3, <1>4, <1>5, SessionOfOthers DEF PgWireInv
  <2> HIDE DEF l, k, s
  <2> QED
    <3>1. \A t \in Statements : Pending(s, t) => Pending(server[c], t)
      BY DEF s
    <3>2. Moves(r, c, y, l, s)
      BY <3>1, <1>3, <1>4, <1>5, <1>6, <1>7, <1>10, <2>1, <2>2, <2>4, <2>5 DEF Moves
    <3> QED
      BY <3>2, <1>3, <1>4, <2>1, OneCall
<1>9. CASE ~IsValid(c)
  <2> DEFINE l == [k EXCEPT !.state = "closed"]
             z == [s EXCEPT !.link = FALSE, !.outbox = <<>>]
  <2>1. l \in Connection /\ ~l.idle /\ l.state = "closed"
    BY <1>3 DEF Connection
  <2>7. s \in Session
    BY <1>3
  <2>8. <<>> \in Seq(Messages)
    BY EmptySeq
  <2> HIDE DEF s
  <2>2. /\ z \in Session /\ ~z.link /\ z.outbox = <<>> /\ z.inbox = s.inbox /\ z.tx = s.tx
        /\ z.work = s.work
    BY <2>7, <2>8 DEF Session
  <2>3. conns' = [conns EXCEPT ![c] = l] /\ server' = [server EXCEPT ![c] = z]
    BY <1>1, <1>3, <1>9 DEF HandBack, PgWireInv, TypesOK, s
  <2> HIDE DEF l, z
  <2>4. ConnectionOK(l, z)
    BY <1>3, <2>1, <2>2 DEF ConnectionOK
  <2>5. SessionOK(z, caller')
    <3>1. SessionOK(s, caller')
      BY <1>3, <1>4, <1>5, SessionOfOthers DEF PgWireInv
    <3> QED
      BY <3>1, <2>2 DEF SessionOK, RequestOK
  <2>6. \A t \in Statements : Pending(z, t) => Pending(server[c], t)
    BY <2>2 DEF Pending, s
  <2> HIDE DEF k
  <2> QED
    <3>1. Moves(r, c, y, l, z)
      BY <1>3, <1>4, <1>5, <1>6, <1>7, <1>10, <2>1, <2>2, <2>3, <2>4, <2>5, <2>6 DEF Moves
    <3> QED
      BY <3>1, <1>3, <1>4, <2>1, <2>2, OneCall
<1> QED
  BY <1>8, <1>9

\* What a caller that sends q must find the session in, if there is one.
MaySend(r, x, doing, q, s) ==
    /\ q.of[1] = r /\ RequestOK(s, q, [caller EXCEPT ![r] = x])
    /\ doing \in {"prepare", "run", "close"} => s.tx = "I"
    /\ doing = "stmt" =>
          /\ s.tx # "I"
          /\ s.tx = "T" => s.work = Work(r, x.n - 1) /\ Len(x.rows) = x.n - 1

\* Caller r, as x, has connection c to itself; it leaves the client's side as k.
Sender(r, c, x, k) ==
    /\ conns' = [conns EXCEPT ![c] = k] /\ table' = table /\ x.conn = c
    /\ \A p \in Callers : caller[p].conn = c => p = r
    /\ caller[r].conn \in {c, NoConn}
    /\ k.state = "open" /\ ~k.idle /\ ~k.bad
    /\ server[c].inbox = <<>> /\ server[c].outbox = <<>>
    /\ x.job = caller[r].job /\ (caller[r].asked => x.asked)

(* A request is written and its loop entered (Send).                       *)
LEMMA Sends ==
    ASSUME PgWireInv, NEW r \in Callers, NEW c \in Conns, NEW x \in Caller,
           NEW k \in Connection, NEW doing, NEW q \in Questions,
           Reads(x, doing) \in Caller,
           Send(r, x, doing, q), Sender(r, c, x, k),
           JobOK(r, Reads(x, doing), table),
           \A n \in {1, 2} : Fresh(Reads(x, doing), n) => Fresh(caller[r], n),
           Matches(r, Reads(x, doing), q),
           Executes(q) => \E n \in {1, 2} : /\ q.of = <<r, n>> /\ Fresh(caller[r], n)
                                            /\ ~Fresh(Reads(x, doing), n),
           server[c].link => MaySend(r, x, doing, q, server[c]),
           doing = "run" => x.rows = <<>>,
           server[c].link /\ doing = "commit" => Len(x.rows) = 2
    PROVE  PgWireInv'
<1> USE DEF Sender
<1> DEFINE w == Reads(x, doing)
           v == [x EXCEPT !.doing = doing, !.told = FALSE, !.err = ""]
           s == server[c]
           z == [s EXCEPT !.inbox = IF s.link THEN Append(@, q) ELSE @]
<1>0. /\ caller \in [Callers -> Caller] /\ s \in Session
      /\ SessionOK(s, caller) /\ ConnectionOK(conns[c], s)
  BY DEF PgWireInv, TypesOK, SessionsOK
<1>1. /\ w \in Caller /\ w.at = "reading" /\ w.doing = doing /\ w.err = "" /\ w.conn = c
      /\ w.job = x.job /\ w.arg = x.arg /\ w.n = x.n /\ w.rows = x.rows
      /\ w.format = x.format /\ w.asked = x.asked /\ w.verdict = x.verdict
  BY DEF Reads, Caller
<1>2. /\ v \in Caller /\ Alike(w, v) /\ v.doing = doing /\ v.err = "" /\ v.conn = c
  <2>1. w.doing \in {"", "reset", "begin", "prepare", "run", "stmt", "close", "rollback", "commit",
                    "endfailed"}
    BY <1>1 DEF Caller
  <2>4. doing \in {"", "reset", "begin", "prepare", "run", "stmt", "close", "rollback", "commit",
                  "endfailed"}
    BY <1>1, <2>1
  <2> HIDE DEF w
  <2>2. v \in Caller
    <3>1. [x EXCEPT !.doing = doing] \in Caller
      BY <2>4 DEF Caller
    <3>2. \A u \in Caller : [u EXCEPT !.told = FALSE] \in Caller
      BY DEF Caller
    <3>4. \A u \in Caller : [u EXCEPT !.err = ""] \in Caller
      <4>1. "" \in Errs
        BY DEF Errs
      <4> QED
        BY <4>1 DEF Caller
    <3>3. v = [[[x EXCEPT !.doing = doing] EXCEPT !.told = FALSE] EXCEPT !.err = ""]
      BY DEF Caller
    <3> QED
      BY <3>1, <3>2, <3>3, <3>4
  <2>3. /\ v.job = x.job /\ v.arg = x.arg /\ v.n = x.n /\ v.rows = x.rows /\ v.doing = doing
        /\ v.format = x.format /\ v.asked = x.asked /\ v.verdict = x.verdict /\ v.err = ""
        /\ v.conn = c
    BY DEF Caller
  <2> QED
    BY <1>1, <2>2, <2>3 DEF Alike
<1>3. server' = [server EXCEPT ![c] = z] /\ Await(r, v)
  BY <1>0 DEF Send, PgWireInv, TypesOK
<1> HIDE DEF v, w
<1>4. /\ cancels' \subseteq Conns /\ cuts' \in 0..MaxCuts
      /\ \E y \in Caller :
            /\ caller' = [caller EXCEPT ![r] = y]
            /\ Alike(v, y) /\ y.at = "reading" /\ y.doing = v.doing /\ y.err = v.err
            /\ y.ctx = v.ctx
  BY <1>2, <1>3, Awaits
<1>5. PICK y \in Caller :
            /\ caller' = [caller EXCEPT ![r] = y]
            /\ Alike(v, y) /\ y.at = "reading" /\ y.doing = v.doing /\ y.err = v.err
            /\ y.ctx = v.ctx
  BY <1>4
<1>6. /\ Alike(w, y) /\ y.at = w.at /\ y.doing = w.doing /\ y.err = "" /\ y.conn = c
      /\ y.job = x.job /\ y.n = x.n /\ y.rows = x.rows /\ y.asked = x.asked
  BY <1>1, <1>2, <1>5 DEF Alike
<1>7. /\ z \in Session /\ z.link = s.link /\ z.tx = s.tx /\ z.work = s.work /\ z.outbox = <<>>
      /\ z.inbox = (IF s.link THEN Append(s.inbox, q) ELSE s.inbox)
  <2>1. s.inbox \in Seq(Questions) /\ Append(s.inbox, q) \in Seq(Questions)
    BY <1>0, AppendProperties DEF Session
  <2> HIDE DEF s
  <2> QED
    BY <1>0, <2>1 DEF Session, s
<1>8. IF s.link THEN z.inbox # <<>> /\ z.inbox[1] = q /\ Len(z.inbox) = 1 ELSE z.inbox = <<>>
  <2>1. Append(<<>>, q) # <<>> /\ Append(<<>>, q)[1] = q /\ Len(Append(<<>>, q)) = 1
    OBVIOUS
  <2> QED
    BY <2>1, <1>7
<1> HIDE DEF z, s
<1>9. JobOK(r, y, table) /\ \A n \in {1, 2} : Fresh(y, n) => Fresh(w, n)
  BY <1>6, AlikeCalls DEF w
<1>10. SessionOK(z, caller')
  <2>1. SessionOK(s, caller')
    BY <1>0, <1>5, <1>6, SessionOfOthers DEF PgWireInv
  <2>2. CASE s.link
    <3>1. RequestOK(s, q, [caller EXCEPT ![r] = x]) /\ q.of[1] = r
      BY <2>2 DEF MaySend, s
    <3>2. caller'[r] = y /\ [caller EXCEPT ![r] = x][r] = x
      BY <1>0, <1>5
    <3>3. RequestOK(z, q, caller')
      <4> DEFINE cs == [caller EXCEPT ![r] = x]
      <4>1. cs[r].job = caller'[r].job /\ cs[r].asked = caller'[r].asked
        BY <3>2, <1>6
      <4>2. RequestOK(s, q, cs) /\ q.of[1] = r
        BY <3>1
      <4> HIDE DEF cs
      <4> QED
        BY <4>1, <4>2, <1>7 DEF RequestOK
    <3> QED
      BY <2>1, <2>2, <3>3, <1>7, <1>8 DEF SessionOK
  <2>3. CASE ~s.link
    BY <2>1, <2>3, <1>7, <1>8, EmptySeq DEF SessionOK
  <2> QED
    BY <2>2, <2>3
<1>11. ConnectionOK(k, z)
  BY <1>7 DEF ConnectionOK
<1>12. ReadingOK(r, y, k, z, table)
  <2>1. UnreadOK(r, y, z.outbox) /\ ~Clean(y, z.outbox)
    BY <1>7, EmptySeq DEF UnreadOK, Clean
  <2>2. Matches(r, y, q)
    <3>1. Matches(r, w, q)
      BY DEF w
    <3> QED
      BY <3>1, <1>6 DEF Matches, Alike
  <2>3. /\ z.inbox # <<>> => z.inbox[1] = q /\ s.link
        /\ z.link => z.inbox # <<>> /\ s.link
    BY <1>7, <1>8
  <2>4. s.link /\ doing \in {"prepare", "run", "close"} => s.tx = "I"
    BY DEF MaySend, s
  <2>5. s.link /\ doing = "stmt" =>
          /\ s.tx # "I"
          /\ s.tx = "T" => s.work = Work(r, x.n - 1) /\ Len(x.rows) = x.n - 1
    BY DEF MaySend, s
  <2>6. y.doing = doing
    BY <1>1, <1>6
  <2>7. s.link /\ doing = "commit" => Len(x.rows) = 2
    BY DEF s
  <2> QED
    BY <2>1, <2>2, <2>3, <2>4, <2>5, <2>6, <2>7, <1>6, <1>7 DEF ReadingOK
<1>13. CallOK(r, y, k, z, table)
  <2>1. y.at = "reading"
    BY <1>5
  <2> QED
    BY <2>1, <1>12 DEF CallOK, StartupOK, ReturnedOK
<1>14. ASSUME NEW t \in Statements, Pending(z, t), ~Pending(s, t)
       PROVE  \E n \in {1, 2} : t = <<r, n>> /\ Fresh(caller[r], n) /\ ~Fresh(y, n)
  <2>1. Executes(q) /\ q.of = t
    BY <1>14, <1>7, <1>8 DEF Pending
  <2>2. PICK n \in {1, 2} : q.of = <<r, n>> /\ Fresh(caller[r], n) /\ ~Fresh(w, n)
    BY <2>1 DEF w
  <2>3. ~Fresh(y, n)
    BY <2>2, <1>9
  <2> QED
    BY <2>1, <2>2, <2>3
<1>15. \A n \in {1, 2} : Fresh(y, n) => Fresh(caller[r], n)
  BY <1>9 DEF w
<1>16. server' = [server EXCEPT ![c] = z]
  BY <1>3
<1>17. y.at = "reading"
  BY <1>5
<1>18. Moves(r, c, y, k, z)
  BY <1>4, <1>5, <1>6, <1>9, <1>10, <1>11, <1>13, <1>14, <1>15, <1>16, <1>17, NoConnIsNone
     DEF Moves, s
<1> QED
  BY <1>7, <1>18, OneCall

Doings == {"", "reset", "begin", "prepare", "run", "stmt", "close", "rollback", "commit",
           "endfailed"}

(* The caller that entered a loop, field by field.                         *)
LEMMA ReadsForm ==
    ASSUME NEW x \in Caller, NEW doing \in Doings
    PROVE  LET w == Reads(x, doing)
           IN  /\ w \in Caller /\ w.at = "reading" /\ w.doing = doing /\ w.err = ""
               /\ w.conn = x.conn /\ w.job = x.job /\ w.arg = x.arg /\ w.n = x.n
               /\ w.rows = x.rows /\ w.format = x.format /\ w.asked = x.asked
               /\ w.verdict = x.verdict
<1>1. [x EXCEPT !.doing = doing] \in Caller
  BY DEF Caller, Doings
<1>2. \A u \in Caller : [u EXCEPT !.at = "reading"] \in Caller
  BY DEF Caller
<1>3. \A u \in Caller : [u EXCEPT !.err = ""] \in Caller
  <2>1. "" \in Errs
    BY DEF Errs
  <2> QED
    BY <2>1 DEF Caller
<1>4. Reads(x, doing) = [[[x EXCEPT !.doing = doing] EXCEPT !.err = ""] EXCEPT !.at = "reading"]
  BY DEF Caller, Reads
<1>5. Reads(x, doing) \in Caller
  BY <1>1, <1>2, <1>3, <1>4
<1> QED
  BY <1>5 DEF Reads, Caller

\* Sending what is no statement of the caller's: neither executes nor commits.
LEMMA SendsAside ==
    ASSUME PgWireInv, NEW r \in Callers, NEW c \in Conns, NEW x \in Caller,
           NEW k \in Connection,
           NEW doing \in {"reset", "begin", "prepare", "close", "rollback", "endfailed"},
           Sender(r, c, x, k),
           Send(r, x, doing, Request(
              CASE doing = "begin" -> "begin" [] doing = "prepare" -> "parse"
                [] doing = "close" -> "close" [] OTHER -> "rollback", <<r, 1>>)),
           JobOK(r, Reads(x, doing), table),
           doing \in {"reset", "begin", "prepare"} => \A n \in {1, 2} : Fresh(caller[r], n),
           doing \in {"begin", "prepare", "close"} /\ server[c].link => server[c].tx = "I"
    PROVE  PgWireInv'
<1> DEFINE ask == CASE doing = "begin" -> "begin" [] doing = "prepare" -> "parse"
                    [] doing = "close" -> "close" [] OTHER -> "rollback"
           q == Request(ask, <<r, 1>>)
<1>1. ask \in {"begin", "parse", "close", "rollback"} /\ (ask = "begin" => doing = "begin")
  OBVIOUS
<1>2. q \in Questions /\ q.ask = ask /\ q.of = <<r, 1>> /\ q.of[1] = r
  <2>1. ask \in {"rollback", "begin", "parse", "exec", "copy", "close", "commit"}
    BY <1>1
  <2> HIDE DEF ask
  <2> QED
    BY <2>1 DEF Request, Questions, Statements, Formats
<1>3. doing \in Doings
  BY DEF Doings
<1>4. Matches(r, Reads(x, doing), q)
  <2>1. Reads(x, doing).doing = doing
    BY <1>3, ReadsForm
  <2> HIDE DEF q
  <2> QED
    BY <1>2, <2>1 DEF Matches
<1>5. ~Executes(q) /\ q.ask # "commit"
  BY <1>1, <1>2 DEF Executes
<1> HIDE DEF q
<1>6. server[c].link => MaySend(r, x, doing, q, server[c])
  BY <1>1, <1>2, <1>5 DEF MaySend, RequestOK
<1>7. \A n \in {1, 2} : Fresh(Reads(x, doing), n) => Fresh(caller[r], n)
  BY <1>3, ReadsForm DEF Fresh
<1>8. Send(r, x, doing, q)
  BY DEF q
<1> QED
  BY <1>2, <1>3, <1>4, <1>5, <1>6, <1>7, <1>8, ReadsForm, Sends

(* A caller by itself, when it enters a loop.                              *)
LEMMA JobWhileReading ==
    ASSUME NEW r \in Callers, NEW x \in Caller, NEW doing \in Doings,
           \A i \in 1..Len(x.rows) : Own(r, x, x.rows[i]),
           x.job # "tx" => x.n = 1,
           x.verdict = "ok" => doing = "close" /\ x.job # "copy" /\ Counted(r, x, table),
           doing \in {"begin", "stmt", "commit", "rollback", "endfailed"} => x.job = "tx",
           doing = "run" => x.job # "tx",
           doing \in {"prepare", "close"} => x.job = "query",
           doing \in {"reset", "begin", "prepare"} => x.n = 1 /\ x.rows = <<>>,
           doing = "commit" => x.n = 2, doing # ""
    PROVE  JobOK(r, Reads(x, doing), table)
<1> DEFINE w == Reads(x, doing)
<1>1. /\ w.at = "reading" /\ w.doing = doing /\ w.job = x.job /\ w.arg = x.arg /\ w.n = x.n
      /\ w.rows = x.rows /\ w.verdict = x.verdict
  BY ReadsForm
<1> HIDE DEF w
<1>2. (\A row : Own(r, x, row) => Own(r, w, row)) /\ (Counted(r, x, table) => Counted(r, w, table))
  BY <1>1 DEF Own, Counted
<1>3. JobOK(r, w, table)
  BY <1>1, <1>2 DEF JobOK
<1> QED
  BY <1>3 DEF w

(* The first request of a job (Begin).                                     *)
LEMMA BeginKeeps ==
    ASSUME PgWireInv, NEW r \in Callers, NEW c \in Conns, NEW x \in Caller,
           NEW k \in Connection, Sender(r, c, x, k), Begin(r, x),
           x.n = 1, x.rows = <<>>, x.verdict # "ok",
           \A n \in {1, 2} : Fresh(caller[r], n),
           server[c].link => server[c].tx = "I"
    PROVE  PgWireInv'
<1>0. \A i \in 1..Len(x.rows) : Own(r, x, x.rows[i])
  BY EmptySeq
<1>1. CASE x.job = "tx"
  <2>1. Send(r, x, "begin", Request("begin", <<r, 1>>))
    BY <1>1 DEF Begin
  <2>2. JobOK(r, Reads(x, "begin"), table)
    BY <1>0, <1>1, JobWhileReading DEF Doings
  <2> QED
    BY <2>1, <2>2, SendsAside
<1>2. CASE x.job = "query"
  <2>1. Send(r, x, "prepare", Request("parse", <<r, 1>>))
    BY <1>2 DEF Begin
  <2>2. JobOK(r, Reads(x, "prepare"), table)
    BY <1>0, <1>2, JobWhileReading DEF Doings
  <2> QED
    BY <2>1, <2>2, SendsAside
<1>3. CASE x.job \in {"exec", "copy"}
  <2> DEFINE q == Request(x.job, <<r, 1>>)
  <2>1. Send(r, x, "run", q)
    BY <1>3 DEF Begin
  <2>2. JobOK(r, Reads(x, "run"), table)
    BY <1>0, <1>3, JobWhileReading DEF Doings
  <2>3. q \in Questions /\ q.ask = x.job /\ q.of = <<r, 1>> /\ q.of[1] = r
    BY <1>3 DEF Request, Questions, Statements, Formats
  <2> HIDE DEF q
  <2>4. /\ Reads(x, "run") \in Caller /\ Reads(x, "run").doing = "run"
        /\ Reads(x, "run").at = "reading" /\ Reads(x, "run").job = x.job
    <3>1. "run" \in Doings
      BY DEF Doings
    <3> QED
      BY <3>1, ReadsForm
  <2>5. Matches(r, Reads(x, "run"), q)
    BY <1>3, <2>3, <2>4 DEF Matches
  <2>6. \A n \in {1, 2} : ~Fresh(Reads(x, "run"), n)
    BY <2>4 DEF Fresh
  <2>7. server[c].link => MaySend(r, x, "run", q, server[c])
    <3>1. caller \in [Callers -> Caller]
      BY DEF PgWireInv, TypesOK
    <3> QED
      BY <1>3, <2>3, <3>1 DEF MaySend, RequestOK
  <2>8. Executes(q) => \E n \in {1, 2} : /\ q.of = <<r, n>> /\ Fresh(caller[r], n)
                                          /\ ~Fresh(Reads(x, "run"), n)
    BY <2>3, <2>6
  <2> QED
    BY <2>1, <2>2, <2>3, <2>4, <2>5, <2>6, <2>7, <2>8, Sends
<1> QED
  BY <1>1, <1>2, <1>3, PgWireAssumption DEF Caller

(* A caller whose loop has returned may send on its connection.            *)
LEMMA ReturnedSends ==
    ASSUME PgWireInv, NEW r \in Callers, NEW x \in Caller, caller[r].at = "returned",
           ~conns[x.conn].bad, x.conn = caller[r].conn, x.job = caller[r].job,
           caller[r].asked => x.asked, UNCHANGED <<conns, table>>
    PROVE  /\ x.conn \in Conns /\ conns[x.conn] \in Connection
           /\ Sender(r, x.conn, x, conns[x.conn])
           /\ JobOK(r, caller[r], table)
           /\ ReturnedOK(r, caller[r], conns[x.conn], server[x.conn], table)
           /\ server[x.conn].link => conns[x.conn].tx = server[x.conn].tx
           /\ SessionOK(server[x.conn], caller)
<1>1. caller[r].conn # NoConn
  BY DEF PgWireInv, Owned
<1>2. /\ x.conn \in Conns /\ conns[x.conn] \in Connection /\ conns[x.conn].state = "open"
      /\ ~conns[x.conn].idle /\ \A q \in Callers : caller[q].conn = x.conn => q = r
      /\ JobOK(r, caller[r], table) /\ SessionOK(server[x.conn], caller)
      /\ ReturnedOK(r, caller[r], conns[x.conn], server[x.conn], table)
  BY <1>1, Held DEF CallOK
<1>3. conns' = [conns EXCEPT ![x.conn] = conns[x.conn]]
  BY <1>2 DEF PgWireInv, TypesOK
<1> QED
  BY <1>2, <1>3 DEF Sender, ReturnedOK

(* The steps of a call, one lemma each.                                    *)
LEMMA ConnectedKeeps ==
    ASSUME PgWireInv, NEW r \in Callers, Connected(r)
    PROVE  PgWireInv'
<1> DEFINE x == caller[r]
           c == x.conn
<1>1. x.at = "connected" /\ Begin(r, x) /\ UNCHANGED <<conns, table>>
  BY DEF Connected
<1>2. x.conn # NoConn
  BY <1>1 DEF PgWireInv, Owned
<1>3. /\ x \in Caller /\ c \in Conns /\ conns[c] \in Connection
      /\ conns[c].state = "open" /\ ~conns[c].idle
      /\ \A q \in Callers : caller[q].conn = c => q = r
      /\ JobOK(r, x, table) /\ StartupOK(x, conns[c], server[c])
  BY <1>2, Held DEF CallOK
<1>4. conns' = [conns EXCEPT ![c] = conns[c]]
  BY <1>1, <1>3 DEF PgWireInv, TypesOK
<1>5. Sender(r, c, x, conns[c]) /\ server[c].tx = "I"
  BY <1>1, <1>3, <1>4 DEF Sender, StartupOK
<1>6. /\ x.n = 1 /\ x.rows = <<>> /\ \A n \in {1, 2} : Fresh(x, n)
      /\ x.verdict # "ok"
  BY <1>1, <1>3 DEF JobOK, Fresh
<1> QED
  BY <1>1, <1>3, <1>5, <1>6, BeginKeeps

LEMMA TakeIdleKeeps ==
    ASSUME PgWireInv, NEW r \in Callers, TakeIdle(r)
    PROVE  PgWireInv'
<1>1. PICK c \in Idle :
         LET x == [caller[r] EXCEPT !.conn = c]
         IN  /\ conns' = [conns EXCEPT ![c].idle = FALSE]
             /\ IF NeedsRollback(c) THEN Send(r, x, "reset", Request("rollback", <<r, 1>>))
                ELSE Begin(r, x)
  BY DEF TakeIdle
<1> DEFINE x == [caller[r] EXCEPT !.conn = c]
           k == [conns[c] EXCEPT !.idle = FALSE]
<1>2. /\ c \in Conns /\ conns[c] \in Connection /\ conns[c].state = "open" /\ conns[c].idle
      /\ server[c] \in Session /\ ConnectionOK(conns[c], server[c])
      /\ caller[r] \in Caller /\ caller[r].at = "want" /\ JobOK(r, caller[r], table)
  BY DEF Idle, Opened, PgWireInv, TypesOK, SessionsOK, CallsOK, TakeIdle
<1>3. caller[r].conn = NoConn /\ \A q \in Callers : caller[q].conn # c
  BY <1>2, NoConnIsNone DEF PgWireInv, Owned
<1>4. /\ k \in Connection /\ k.state = "open" /\ ~k.idle /\ k.bad = conns[c].bad
  BY <1>2 DEF Connection
<1>5. /\ x \in Caller /\ x.conn = c /\ x.job = caller[r].job /\ x.n = caller[r].n
      /\ x.rows = caller[r].rows /\ x.asked = caller[r].asked /\ x.verdict = caller[r].verdict
      /\ x.arg = caller[r].arg
  BY <1>2 DEF Caller
<1>6. conns' = [conns EXCEPT ![c] = k] /\ table' = table
  BY <1>1, <1>2 DEF TakeIdle, PgWireInv, TypesOK
<1>7. /\ IF NeedsRollback(c) THEN Send(r, x, "reset", Request("rollback", <<r, 1>>))
         ELSE Begin(r, x)
  BY <1>1
<1> HIDE DEF x, k
<1>8. Sender(r, c, x, k)
  BY <1>2, <1>3, <1>4, <1>5, <1>6 DEF Sender, ConnectionOK
<1>9. x.n = 1 /\ x.rows = <<>> /\ \A n \in {1, 2} : Fresh(caller[r], n)
  BY <1>2, <1>5 DEF JobOK, Fresh
<1>10. x.verdict # "ok"
  BY <1>2, <1>5 DEF JobOK
<1>11. CASE NeedsRollback(c)
  <2>1. JobOK(r, Reads(x, "reset"), table)
    BY <1>5, <1>9, <1>10, EmptySeq, JobWhileReading DEF Doings
  <2> QED
    BY <1>2, <1>4, <1>5, <1>7, <1>8, <1>9, <1>11, <2>1, SendsAside
<1>12. CASE ~NeedsRollback(c)
  <2>1. server[c].link => server[c].tx = "I"
    BY <1>2, <1>12 DEF NeedsRollback, ConnectionOK
  <2> QED
    BY <1>2, <1>4, <1>5, <1>7, <1>8, <1>9, <1>10, <1>12, <2>1, BeginKeeps
<1> QED
  BY <1>11, <1>12

LEMMA CloseStatementKeeps ==
    ASSUME PgWireInv, NEW r \in Callers, NEW x \in Caller, CloseStatement(r, x),
           caller[r].at = "returned", caller[r].doing \in {"prepare", "run"},
           ~conns[x.conn].bad, x.conn = caller[r].conn, x.job = caller[r].job,
           x.arg = caller[r].arg, x.n = caller[r].n, x.rows = caller[r].rows,
           x.asked = caller[r].asked, x.job = "query",
           x.verdict = "ok" => x.job # "copy" /\ Counted(r, x, table)
    PROVE  PgWireInv'
<1>1. Send(r, x, "close", Request("close", <<r, 1>>)) /\ UNCHANGED <<conns, table>>
  BY DEF CloseStatement
<1>2. /\ x.conn \in Conns /\ conns[x.conn] \in Connection
      /\ Sender(r, x.conn, x, conns[x.conn]) /\ JobOK(r, caller[r], table)
      /\ ReturnedOK(r, caller[r], conns[x.conn], server[x.conn], table)
  BY <1>1, ReturnedSends
<1>3. JobOK(r, Reads(x, "close"), table)
  <2>1. \A i \in 1..Len(x.rows) : Own(r, x, x.rows[i])
    BY <1>2 DEF JobOK, Own
  <2>2. x.n = 1
    BY <1>2 DEF JobOK
  <2> QED
    BY <2>1, <2>2, JobWhileReading DEF Doings
<1>4. server[x.conn].link => server[x.conn].tx = "I"
  BY <1>2 DEF ReturnedOK
<1> QED
  BY <1>1, <1>2, <1>3, <1>4, SendsAside

LEMMA RollBackKeeps ==
    ASSUME PgWireInv, NEW r \in Callers, NEW x \in Caller, RollBack(r, x),
           caller[r].at = "returned", x.conn = caller[r].conn, x.job = caller[r].job,
           x.arg = caller[r].arg, x.rows = caller[r].rows, x.verdict = caller[r].verdict,
           x.asked = caller[r].asked, x.job = "tx",
           x.n = caller[r].n \/ ~conns[x.conn].bad
    PROVE  PgWireInv'
<1>1. CASE conns[x.conn].bad
  <2>1. Conclude(r, x, "failed")
    BY <1>1 DEF RollBack
  <2> QED
    BY <1>1, <2>1, Concludes
<1>2. CASE ~conns[x.conn].bad
  <2>1. Send(r, x, "rollback", Request("rollback", <<r, 1>>)) /\ UNCHANGED <<conns, table>>
    BY <1>2 DEF RollBack
  <2>2. /\ x.conn \in Conns /\ conns[x.conn] \in Connection
        /\ Sender(r, x.conn, x, conns[x.conn]) /\ JobOK(r, caller[r], table)
    BY <1>2, <2>1, ReturnedSends
  <2>3. JobOK(r, Reads(x, "rollback"), table)
    <3>1. \A i \in 1..Len(x.rows) : Own(r, x, x.rows[i])
      BY <2>2 DEF JobOK, Own
    <3>2. x.verdict # "ok"
      BY <2>2 DEF JobOK
    <3> QED
      BY <3>1, <3>2, JobWhileReading DEF Doings
  <2> QED
    BY <2>1, <2>2, <2>3, SendsAside
<1> QED
  BY <1>1, <1>2

LEMMA StatementKeeps ==
    ASSUME PgWireInv, NEW r \in Callers, NEW x \in Caller, Statement(r, x),
           caller[r].at = "returned", x.conn = caller[r].conn, x.job = caller[r].job,
           x.arg = caller[r].arg, x.rows = caller[r].rows, x.verdict = caller[r].verdict,
           x.asked = caller[r].asked, x.job = "tx", ~conns[x.conn].bad,
           \A n \in {1, 2} : x.n <= n => Fresh(caller[r], n),
           server[x.conn].link =>
              /\ server[x.conn].tx # "I"
              /\ server[x.conn].tx = "T" =>
                    server[x.conn].work = Work(r, x.n - 1) /\ Len(x.rows) = x.n - 1
    PROVE  PgWireInv'
<1>1. CASE x.ctx = "expired"
  <2>1. RollBack(r, x)
    BY <1>1 DEF Statement
  <2> QED
    BY <2>1, RollBackKeeps
<1>2. CASE x.ctx # "expired"
  <2> DEFINE q == Request("exec", <<r, x.n>>)
             w == Reads(x, "stmt")
  <2>1. Send(r, x, "stmt", q) /\ UNCHANGED <<conns, table>>
    BY <1>2 DEF Statement
  <2>2. /\ x.conn \in Conns /\ conns[x.conn] \in Connection
        /\ Sender(r, x.conn, x, conns[x.conn]) /\ JobOK(r, caller[r], table)
    BY <2>1, ReturnedSends
  <2>3. JobOK(r, w, table)
    <3>1. \A i \in 1..Len(x.rows) : Own(r, x, x.rows[i])
      BY <2>2 DEF JobOK, Own
    <3>2. x.verdict # "ok"
      BY <2>2 DEF JobOK
    <3> QED
      BY <3>1, <3>2, JobWhileReading DEF Doings
  <2>4. x.n \in {1, 2}
    BY DEF Caller
  <2>5. q \in Questions /\ q.ask = "exec" /\ q.of = <<r, x.n>> /\ q.of[1] = r
    BY <2>4 DEF Request, Questions, Statements, Formats
  <2>6. w \in Caller /\ w.doing = "stmt" /\ w.at = "reading" /\ w.job = x.job /\ w.n = x.n
    <3>1. "stmt" \in Doings
      BY DEF Doings
    <3> QED
      BY <3>1, ReadsForm
  <2> HIDE DEF q, w
  <2>7. Matches(r, w, q)
    BY <2>5, <2>6 DEF Matches
  <2>8. /\ \A n \in {1, 2} : Fresh(w, n) => Fresh(caller[r], n)
        /\ ~Fresh(w, x.n) /\ Fresh(caller[r], x.n)
    BY <2>4, <2>6 DEF Fresh
  <2>9. server[x.conn].link => MaySend(r, x, "stmt", q, server[x.conn])
    <3>1. caller \in [Callers -> Caller]
      BY DEF PgWireInv, TypesOK
    <3> QED
      BY <2>5, <3>1 DEF MaySend, RequestOK
  <2>10. \E n \in {1, 2} : q.of = <<r, n>> /\ Fresh(caller[r], n) /\ ~Fresh(w, n)
    BY <2>4, <2>5, <2>8
  <2> QED
    BY <2>1, <2>2, <2>3, <2>5, <2>6, <2>7, <2>8, <2>9, <2>10, Sends DEF w
<1> QED
  BY <1>1, <1>2

LEMMA CommitKeeps ==
    ASSUME PgWireInv, NEW r \in Callers, Returned(r, "stmt"), caller[r].n = 2,
           Commit(r, caller[r])
    PROVE  PgWireInv'
<1> DEFINE x == caller[r]
<1>0. x \in Caller /\ x.at = "returned" /\ x.doing = "stmt" /\ JobOK(r, x, table) /\ x.job = "tx"
  BY DEF PgWireInv, TypesOK, CallsOK, JobOK, Returned
<1>1. CASE x.ctx = "expired"
  <2>1. RollBack(r, x)
    BY <1>1 DEF Commit
  <2> QED
    BY <1>0, <2>1, RollBackKeeps
<1>2. CASE x.ctx # "expired" /\ conns[x.conn].bad
  <2>1. Conclude(r, x, "failed")
    BY <1>2 DEF Commit
  <2> QED
    BY <1>0, <2>1, Concludes
<1>3. CASE x.ctx # "expired" /\ ~conns[x.conn].bad
  <2>0. UNCHANGED <<conns, table>>
    BY <1>3 DEF Commit
  <2>3. x.verdict # "ok" /\ \A i \in 1..Len(x.rows) : Own(r, x, x.rows[i])
    BY <1>0 DEF JobOK
  <2>1. CASE conns[x.conn].tx = "E"
    <3>1. Send(r, x, "endfailed", Request("rollback", <<r, 1>>))
      BY <1>3, <2>1 DEF Commit
    <3>2. /\ x.conn \in Conns /\ conns[x.conn] \in Connection
          /\ Sender(r, x.conn, x, conns[x.conn])
      BY <1>0, <1>3, <2>0, ReturnedSends
    <3>3. JobOK(r, Reads(x, "endfailed"), table)
      BY <1>0, <2>3, JobWhileReading DEF Doings
    <3> QED
      BY <1>0, <3>1, <3>2, <3>3, SendsAside
  <2>2. CASE conns[x.conn].tx # "E"
    <3> DEFINE y == [x EXCEPT !.asked = TRUE]
               q == Request("commit", <<r, 1>>)
               w == Reads(y, "commit")
    <3>1. Send(r, y, "commit", q)
      BY <1>3, <2>2 DEF Commit
    <3>2. /\ y \in Caller /\ y.asked = TRUE /\ y.job = x.job /\ y.conn = x.conn /\ y.n = x.n
          /\ y.rows = x.rows /\ y.arg = x.arg /\ y.verdict = x.verdict
      BY <1>0 DEF Caller
    <3> HIDE DEF y
    <3>3. /\ y.conn \in Conns /\ conns[y.conn] \in Connection
          /\ Sender(r, y.conn, y, conns[y.conn])
          /\ ReturnedOK(r, x, conns[y.conn], server[y.conn], table)
          /\ server[y.conn].link => conns[y.conn].tx = server[y.conn].tx
      BY <1>0, <1>3, <2>0, <3>2, ReturnedSends
    <3>4. JobOK(r, w, table)
      <4>1. (\A i \in 1..Len(y.rows) : Own(r, y, y.rows[i])) /\ y.verdict # "ok"
        BY <1>0, <3>2 DEF JobOK, Own
      <4> QED
        BY <1>0, <3>2, <4>1, JobWhileReading DEF Doings
    <3>5. q \in Questions /\ q.ask = "commit" /\ q.of = <<r, 1>> /\ q.of[1] = r
      BY DEF Request, Questions, Statements, Formats
    <3>6. w \in Caller /\ w.doing = "commit" /\ w.at = "reading"
      <4>1. "commit" \in Doings
        BY DEF Doings
      <4> QED
        BY <4>1, <3>2, ReadsForm
    <3> HIDE DEF q, w
    <3>7. Matches(r, w, q) /\ ~Executes(q)
      BY <3>5, <3>6 DEF Matches, Executes
    <3>8. \A n \in {1, 2} : ~Fresh(w, n)
      BY <3>6 DEF Fresh
    <3>9. server[y.conn].link =>
             /\ server[y.conn].tx = "T" /\ server[y.conn].work = {<<r, 1>>, <<r, 2>>}
             /\ Len(y.rows) = 2
      <4>1. server[y.conn].tx \in {"I", "T", "E"}
        BY <3>3 DEF PgWireInv, TypesOK, Session, TxStatus
      <4>2. server[y.conn].link =>
                /\ server[y.conn].tx # "I"
                /\ server[y.conn].tx = "T" =>
                      server[y.conn].work = Work(r, 2) /\ Len(x.rows) = 2
        BY <1>0, <1>3, <3>2, <3>3 DEF ReturnedOK
      <4>3. server[y.conn].link => server[y.conn].tx # "E"
        BY <2>2, <3>2, <3>3
      <4>4. Work(r, 2) = {<<r, 1>>, <<r, 2>>}
        BY DEF Work
      <4> QED
        BY <3>2, <4>1, <4>2, <4>3, <4>4
    <3>10. server[y.conn].link => MaySend(r, y, "commit", q, server[y.conn])
      <4> DEFINE cs == [caller EXCEPT ![r] = y]
      <4>1. cs[r] = y
        BY DEF PgWireInv, TypesOK
      <4>2. cs[r].job = "tx" /\ cs[r].asked
        BY <1>0, <3>2, <4>1
      <4> HIDE DEF cs
      <4>3. server[y.conn].link => RequestOK(server[y.conn], q, cs)
        BY <3>5, <3>7, <3>9, <4>2 DEF RequestOK
      <4> QED
        BY <3>5, <4>3 DEF MaySend, cs
    <3> QED
      BY <3>1, <3>2, <3>3, <3>4, <3>5, <3>6, <3>7, <3>8, <3>9, <3>10, Sends DEF w
  <2> QED
    BY <2>1, <2>2
<1> QED
  BY <1>1, <1>2, <1>3

(* What the invariant says of a call whose loop has returned.              *)
LEMMA AtReturn ==
    ASSUME PgWireInv, NEW r \in Callers, caller[r].at = "returned"
    PROVE  LET x == caller[r]
           IN  /\ x \in Caller /\ x.conn \in Conns /\ JobOK(r, x, table)
               /\ ReturnedOK(r, x, conns[x.conn], server[x.conn], table)
               /\ conns[x.conn].bad => x.err # ""
<1>1. caller[r].conn # NoConn
  BY DEF PgWireInv, Owned
<1> QED
  BY <1>1, Held DEF CallOK, ReturnedOK

LEMMA AfterBeginKeeps ==
    ASSUME PgWireInv, NEW r \in Callers, AfterBegin(r)
    PROVE  PgWireInv'
<1> DEFINE x == caller[r]
<1>1. x.at = "returned" /\ x.doing = "begin"
  BY DEF AfterBegin, Returned
<1>2. /\ x \in Caller /\ x.conn \in Conns /\ JobOK(r, x, table)
      /\ ReturnedOK(r, x, conns[x.conn], server[x.conn], table)
      /\ conns[x.conn].bad => x.err # ""
  BY <1>1, AtReturn
<1>3. x.job = "tx" /\ x.n = 1 /\ x.rows = <<>> /\ \A n \in {1, 2} : Fresh(x, n)
  BY <1>1, <1>2 DEF JobOK, Fresh
<1>4. CASE x.err = ""
  <2>1. Statement(r, x)
    BY <1>4 DEF AfterBegin
  <2>2. server[x.conn].link =>
              /\ server[x.conn].tx # "I"
              /\ server[x.conn].tx = "T" =>
                    server[x.conn].work = Work(r, x.n - 1) /\ Len(x.rows) = x.n - 1
    <3>1. server[x.conn].link => server[x.conn].tx = "T" /\ server[x.conn].work = Work(r, 0)
      BY <1>1, <1>2, <1>4 DEF ReturnedOK, Work
    <3>2. x.n - 1 = 0 /\ Len(x.rows) = 0
      BY <1>3
    <3> QED
      BY <3>1, <3>2
  <2> QED
    BY <1>1, <1>2, <1>3, <1>4, <2>1, <2>2, StatementKeeps
<1>5. CASE x.err # ""
  <2>1. Conclude(r, x, "failed")
    BY <1>5 DEF AfterBegin
  <2> QED
    BY <1>1, <1>2, <2>1, Concludes
<1> QED
  BY <1>4, <1>5

LEMMA AfterStatementKeeps ==
    ASSUME PgWireInv, NEW r \in Callers, AfterStatement(r)
    PROVE  PgWireInv'
<1> DEFINE x == caller[r]
<1>1. x.at = "returned" /\ x.doing = "stmt" /\ Returned(r, "stmt")
  BY DEF AfterStatement, Returned
<1>2. /\ x \in Caller /\ x.conn \in Conns /\ JobOK(r, x, table) /\ x.job = "tx"
      /\ ReturnedOK(r, x, conns[x.conn], server[x.conn], table)
  BY <1>1, AtReturn DEF JobOK
<1>3. CASE x.n = 1 /\ ~conns[x.conn].bad /\ Statement(r, [x EXCEPT !.n = 2])
  <2> DEFINE y == [x EXCEPT !.n = 2]
  <2>1. Statement(r, y)
    BY <1>3
  <2>2. /\ y \in Caller /\ y.n = 2 /\ y.asked = x.asked /\ y.job = x.job /\ y.conn = x.conn
        /\ y.rows = x.rows /\ y.arg = x.arg /\ y.verdict = x.verdict
    BY <1>2 DEF Caller
  <2> HIDE DEF y
  <2>3. \A n \in {1, 2} : y.n <= n => Fresh(x, n)
    BY <1>1, <1>3, <2>2 DEF Fresh
  <2>4. server[y.conn].link =>
              /\ server[y.conn].tx # "I"
              /\ server[y.conn].tx = "T" =>
                    server[y.conn].work = Work(r, y.n - 1) /\ Len(y.rows) = y.n - 1
    <3>1. server[x.conn].link =>
              /\ server[x.conn].tx # "I"
              /\ server[x.conn].tx = "T" =>
                    server[x.conn].work = Work(r, x.n) /\ Len(x.rows) = x.n
      BY <1>1, <1>2, <1>3 DEF ReturnedOK
    <3>2. y.n - 1 = x.n
      BY <1>3, <2>2
    <3> QED
      BY <3>1, <3>2, <2>2
  <2> QED
    BY <1>1, <1>2, <1>3, <2>1, <2>2, <2>3, <2>4, StatementKeeps
<1>4. CASE x.n = 2 /\ Commit(r, x)
  BY <1>1, <1>4, CommitKeeps
<1>5. CASE x.err # "" /\ RollBack(r, x)
  BY <1>1, <1>2, <1>5, RollBackKeeps
<1> QED
  BY <1>3, <1>4, <1>5 DEF AfterStatement

LEMMA AfterEndKeeps ==
    ASSUME PgWireInv, NEW r \in Callers, AfterEnd(r)
    PROVE  PgWireInv'
<1> DEFINE x == caller[r]
<1>1. x.at = "returned"
  BY DEF AfterEnd, Returned
<1>2. /\ x \in Caller /\ ReturnedOK(r, x, conns[x.conn], server[x.conn], table)
  BY <1>1, AtReturn
<1>3. CASE x.doing = "commit" /\ Conclude(r, x, Verdict(x))
  <2>1. Verdict(x) \in {"ok", "failed"} /\ (Verdict(x) = "ok" => x.err = "")
    BY DEF Verdict
  <2>2. Verdict(x) = "ok" => x.job # "copy" /\ Counted(r, x, table)
    BY <1>1, <1>2, <1>3, <2>1 DEF ReturnedOK
  <2> QED
    BY <1>1, <1>2, <1>3, <2>1, <2>2, Concludes
<1>4. CASE Conclude(r, x, "failed")
  BY <1>1, <1>2, <1>4, Concludes
<1> QED
  BY <1>3, <1>4 DEF AfterEnd, Returned

LEMMA AfterCloseKeeps ==
    ASSUME PgWireInv, NEW r \in Callers, AfterClose(r)
    PROVE  PgWireInv'
<1> DEFINE x == caller[r]
           y == [x EXCEPT !.err = ""]
<1>1. x.at = "returned" /\ Conclude(r, y, x.verdict)
  BY DEF AfterClose, Returned
<1>2. /\ x \in Caller /\ JobOK(r, x, table)
  BY <1>1, AtReturn
<1>3. y \in Caller
  <2>1. "" \in Errs
    BY DEF Errs
  <2> QED
    BY <1>2, <2>1 DEF Caller
<1>4. /\ y.asked = x.asked /\ y.job = x.job /\ y.conn = x.conn /\ y.n = x.n
      /\ y.rows = x.rows /\ y.arg = x.arg
  BY <1>2 DEF Caller
<1> HIDE DEF y
<1>5. x.verdict \in {"", "ok", "failed"}
  BY <1>2 DEF Caller
<1>6. x.verdict = "ok" => y.job # "copy" /\ Counted(r, y, table)
  BY <1>2, <1>4 DEF JobOK, Counted
<1> QED
  BY <1>1, <1>3, <1>4, <1>5, <1>6, Concludes

LEMMA AfterRunKeeps ==
    ASSUME PgWireInv, NEW r \in Callers, AfterRun(r)
    PROVE  PgWireInv'
<1> DEFINE x == caller[r]
           v == Verdict(x)
           y == [x EXCEPT !.verdict = v]
<1>1. x.at = "returned" /\ x.doing = "run"
  BY DEF AfterRun, Returned
<1>2. /\ x \in Caller /\ ReturnedOK(r, x, conns[x.conn], server[x.conn], table)
  BY <1>1, AtReturn
<1>3. Verdict(x) \in {"ok", "failed"} /\ (Verdict(x) = "ok" => x.err = "")
  BY DEF Verdict
<1>4. Verdict(x) = "ok" => x.job # "copy" /\ Counted(r, x, table)
  BY <1>1, <1>2, <1>3 DEF ReturnedOK
<1>5. CASE x.job = "query" /\ ~conns[x.conn].bad
  <2>1. CloseStatement(r, y)
    BY <1>5 DEF AfterRun
  <2>2. /\ y \in Caller /\ y.asked = x.asked /\ y.job = x.job /\ y.conn = x.conn /\ y.n = x.n
        /\ y.rows = x.rows /\ y.arg = x.arg /\ y.verdict = v
    <3>1. x \in Caller /\ v \in {"ok", "failed"}
      BY <1>2, <1>3
    <3> HIDE DEF x, v
    <3> QED
      BY <3>1 DEF Caller
  <2> HIDE DEF y
  <2>3. y.verdict = "ok" => y.job # "copy" /\ Counted(r, y, table)
    BY <1>4, <2>2 DEF Counted
  <2> QED
    BY <1>1, <1>5, <2>1, <2>2, <2>3, CloseStatementKeeps
<1>6. CASE ~(x.job = "query" /\ ~conns[x.conn].bad)
  <2>1. Conclude(r, x, Verdict(x))
    BY <1>6 DEF AfterRun
  <2> QED
    BY <1>1, <1>2, <1>3, <1>4, <2>1, Concludes
<1> QED
  BY <1>5, <1>6

LEMMA AfterResetKeeps ==
    ASSUME PgWireInv, NEW r \in Callers, AfterReset(r)
    PROVE  PgWireInv'
<1> DEFINE x == caller[r]
           c == x.conn
<1>1. x.at = "returned" /\ x.doing = "reset"
  BY DEF AfterReset, Returned
<1>2. /\ x \in Caller /\ c \in Conns /\ JobOK(r, x, table)
      /\ ReturnedOK(r, x, conns[c], server[c], table)
      /\ conns[c].bad => x.err # ""
  BY <1>1, AtReturn
<1>3. x.n = 1 /\ x.rows = <<>> /\ \A n \in {1, 2} : Fresh(x, n)
  BY <1>1, <1>2 DEF JobOK, Fresh
<1>4. CASE x.err = ""
  <2>1. Begin(r, x) /\ UNCHANGED <<conns, table>>
    BY <1>4 DEF AfterReset
  <2>2. conns[c] \in Connection /\ Sender(r, c, x, conns[c])
    BY <1>1, <1>2, <1>4, <2>1, ReturnedSends
  <2>3. server[c].link => server[c].tx = "I"
    BY <1>1, <1>2, <1>4 DEF ReturnedOK
  <2>4. x.verdict # "ok"
    BY <1>1, <1>2 DEF JobOK
  <2> QED
    BY <1>2, <1>3, <2>1, <2>2, <2>3, <2>4, BeginKeeps
<1>5. CASE x.err # ""
  <2> DEFINE k == [conns[c] EXCEPT !.state = "closed", !.bad = TRUE]
             s == [server[c] EXCEPT !.link = FALSE, !.outbox = <<>>]
             y == [x EXCEPT !.at = "want", !.conn = NoConn, !.err = ""]
  <2>1. x.conn # NoConn
    BY <1>1 DEF PgWireInv, Owned
  <2>2. /\ conns[c] \in Connection /\ server[c] \in Session /\ ~conns[c].idle
        /\ \A q \in Callers : caller[q].conn = c => q = r
        /\ SessionOK(server[c], caller)
        /\ cancels \subseteq Conns /\ cuts \in 0..MaxCuts
    BY <2>1, Held
  <2>3. k \in Connection /\ ~k.idle /\ k.state = "closed"
    BY <2>2 DEF Connection
  <2>4. /\ s \in Session /\ ~s.link /\ s.outbox = <<>> /\ s.inbox = server[c].inbox
        /\ s.tx = server[c].tx /\ s.work = server[c].work
    <3>1. <<>> \in Seq(Messages)
      BY EmptySeq
    <3> QED
      BY <2>2, <3>1 DEF Session
  <2>5. /\ y \in Caller /\ y.at = "want" /\ y.conn = NoConn /\ y.job = x.job /\ y.arg = x.arg
        /\ y.n = x.n /\ y.rows = x.rows /\ y.asked = x.asked /\ y.verdict = x.verdict
    <3>1. "" \in Errs
      BY DEF Errs
    <3> QED
      BY <1>2, <3>1 DEF Caller
  <2>6. /\ caller' = [caller EXCEPT ![r] = y] /\ conns' = [conns EXCEPT ![c] = k]
        /\ server' = [server EXCEPT ![c] = s] /\ UNCHANGED <<cancels, table, cuts>>
    BY <1>2, <1>5 DEF AfterReset, PgWireInv, TypesOK
  <2> HIDE DEF k, s, y
  <2>7. SessionOK(s, caller')
    <3>1. SessionOK(server[c], caller')
      BY <2>2, <2>5, <2>6, SessionOfOthers DEF PgWireInv
    <3> QED
      BY <3>1, <2>4 DEF SessionOK, RequestOK
  <2>8. ConnectionOK(k, s)
    BY <2>3, <2>4 DEF ConnectionOK
  <2>9. JobOK(r, y, table)
    <3>1. \A i \in 1..Len(y.rows) : Own(r, y, y.rows[i])
      BY <1>3, <2>5
    <3>2. y.verdict # "ok"
      BY <1>1, <1>2, <2>5 DEF JobOK
    <3> QED
      BY <1>3, <2>5, <3>1, <3>2 DEF JobOK
  <2>10. \A t \in Statements : Pending(s, t) => Pending(server[c], t)
    BY <2>4 DEF Pending
  <2>11. Moves(r, c, y, k, s)
    BY <1>2, <1>3, <2>2, <2>5, <2>6, <2>7, <2>8, <2>9, <2>10, NoConnIsNone DEF Moves
  <2> QED
    BY <1>2, <2>3, <2>4, <2>5, <2>11, OneCall
<1> QED
  BY <1>4, <1>5

LEMMA AfterPrepareKeeps ==
    ASSUME PgWireInv, NEW r \in Callers, AfterPrepare(r)
    PROVE  PgWireInv'
<1> DEFINE x == caller[r]
           c == x.conn
           oid == x.arg.oid
           bound == EncodeParam(x.arg.value, oid)
<1>1. x.at = "returned" /\ x.doing = "prepare"
  BY DEF AfterPrepare, Returned
<1>2. /\ x \in Caller /\ c \in Conns /\ JobOK(r, x, table)
      /\ ReturnedOK(r, x, conns[c], server[c], table)
      /\ conns[c].bad => x.err # ""
  BY <1>1, AtReturn
<1>3. x.n = 1 /\ x.rows = <<>> /\ x.job = "query" /\ \A n \in {1, 2} : Fresh(x, n)
  BY <1>1, <1>2 DEF JobOK, Fresh
<1>4. CASE x.err # ""
  <2>1. Conclude(r, x, "failed")
    BY <1>4 DEF AfterPrepare
  <2> QED
    BY <1>1, <1>2, <2>1, Concludes
<1>5. CASE x.err = "" /\ bound = Unencodable
  <2> DEFINE y == [x EXCEPT !.verdict = "failed"]
  <2>1. CloseStatement(r, y)
    BY <1>5 DEF AfterPrepare
  <2>2. /\ y \in Caller /\ y.asked = x.asked /\ y.job = x.job /\ y.conn = x.conn /\ y.n = x.n
        /\ y.rows = x.rows /\ y.arg = x.arg /\ y.verdict = "failed"
    BY <1>2 DEF Caller
  <2> HIDE DEF y
  <2> QED
    BY <1>1, <1>2, <1>3, <1>5, <2>1, <2>2, CloseStatementKeeps
<1>6. CASE x.err = "" /\ bound # Unencodable
  <2> DEFINE y == [x EXCEPT !.format = ResultFormat(oid)]
             q == [ask |-> "execute", of |-> <<r, 1>>, arg |-> bound,
                   format |-> ResultFormat(oid), oid |-> oid]
             w == Reads(y, "run")
  <2>1. Send(r, y, "run", q) /\ UNCHANGED <<conns, table>>
    BY <1>6 DEF AfterPrepare
  <2>2. ResultFormat(oid) \in Formats /\ x.arg \in Args
    BY <1>2 DEF ResultFormat, Formats, Caller
  <2>3. /\ y \in Caller /\ y.asked = x.asked /\ y.job = x.job /\ y.conn = x.conn /\ y.n = x.n
        /\ y.rows = x.rows /\ y.arg = x.arg /\ y.verdict = x.verdict
        /\ y.format = ResultFormat(oid)
    BY <1>2, <2>2 DEF Caller
  <2>4. /\ q \in Questions /\ q.ask = "execute" /\ q.of = <<r, 1>> /\ q.of[1] = r
        /\ q.arg = bound /\ q.format = ResultFormat(oid) /\ q.oid = oid
    BY <2>2 DEF Questions, Statements
  <2> HIDE DEF y, q
  <2>5. conns[c] \in Connection /\ Sender(r, c, y, conns[c])
    BY <1>1, <1>2, <1>6, <2>1, <2>3, ReturnedSends
  <2>6. /\ w \in Caller /\ w.doing = "run" /\ w.at = "reading" /\ w.job = x.job
        /\ w.arg = x.arg /\ w.format = ResultFormat(oid)
    <3>1. "run" \in Doings
      BY DEF Doings
    <3> QED
      BY <3>1, <2>3, ReadsForm
  <2>7. JobOK(r, w, table)
    <3>1. \A i \in 1..Len(y.rows) : Own(r, y, y.rows[i])
      BY <1>3, <2>3
    <3>2. y.verdict # "ok"
      BY <1>1, <1>2, <2>3 DEF JobOK
    <3> QED
      BY <1>3, <2>3, <3>1, <3>2, JobWhileReading DEF Doings
  <2> HIDE DEF w
  <2>8. Matches(r, w, q)
    BY <1>3, <1>6, <2>4, <2>6 DEF Matches
  <2>9. \A n \in {1, 2} : ~Fresh(w, n)
    BY <2>6 DEF Fresh
  <2>10. server[c].link => MaySend(r, y, "run", q, server[c])
    <3> DEFINE cs == [caller EXCEPT ![r] = y]
    <3>1. cs[r].job = "query"
      BY <1>3, <2>3 DEF PgWireInv, TypesOK
    <3>2. server[c].link => server[c].tx = "I"
      BY <1>1, <1>2 DEF ReturnedOK
    <3> HIDE DEF cs
    <3>3. server[c].link => RequestOK(server[c], q, cs)
      BY <2>4, <3>1, <3>2 DEF RequestOK
    <3> QED
      BY <2>4, <3>2, <3>3 DEF MaySend, cs
  <2>11. \E n \in {1, 2} : q.of = <<r, n>> /\ Fresh(caller[r], n) /\ ~Fresh(w, n)
    BY <1>3, <2>4, <2>9
  <2> QED
    BY <1>2, <1>3, <2>1, <2>3, <2>4, <2>5, <2>6, <2>7, <2>8, <2>9, <2>10, <2>11, Sends DEF w
<1> QED
  BY <1>4, <1>5, <1>6

LEMMA TurnedAwayKeeps ==
    ASSUME PgWireInv, NEW r \in Callers, TurnedAway(r)
    PROVE  PgWireInv'
<1> DEFINE x == caller[r]
           y == [x EXCEPT !.at = "done", !.verdict = "failed"]
<1>1. /\ x \in Caller /\ x.at = "want" /\ x.conn = NoConn /\ JobOK(r, x, table)
  BY DEF TurnedAway, PgWireInv, TypesOK, Owned, CallsOK
<1>2. /\ y \in Caller /\ y.at = "done" /\ y.conn = NoConn /\ y.job = x.job /\ y.arg = x.arg
      /\ y.n = x.n /\ y.rows = x.rows /\ y.asked = x.asked /\ y.verdict = "failed"
  BY <1>1 DEF Caller
<1>3. caller' = [caller EXCEPT ![r] = y] /\ UNCHANGED <<conns, server, cancels, table, cuts>>
  BY <1>1 DEF TurnedAway, PgWireInv, TypesOK
<1> HIDE DEF y
<1>4. JobOK(r, y, table)
  BY <1>1, <1>2, EmptySeq DEF JobOK
<1>5. \A n \in {1, 2} : ~Fresh(y, n)
  BY <1>2 DEF Fresh
<1> QED
  BY <1>1, <1>2, <1>3, <1>4, <1>5, CallAside

LEMMA DialKeeps ==
    ASSUME PgWireInv, NEW r \in Callers, Dial(r)
    PROVE  PgWireInv'
<1>1. PICK c \in Conns, greeting \in Greetings, tls \in {"S", "N", "E", "untrusted"} :
        /\ conns[c].state = "none"
        /\ conns' = [conns EXCEPT ![c].state = "open"]
        /\ server' = [server EXCEPT ![c].link = TRUE,
               ![c].outbox = IF SSLMode = "disable" THEN greeting
                             ELSE <<[k |-> "tls", answer |-> tls]>> \o greeting]
        /\ caller' = [caller EXCEPT ![r].at = "startup", ![r].conn = c, ![r].scram = "none"]
  BY DEF Dial
<1> DEFINE x == caller[r]
           hello == [k |-> "tls", answer |-> tls]
           o == IF SSLMode = "disable" THEN greeting ELSE <<hello>> \o greeting
           k == [conns[c] EXCEPT !.state = "open"]
           s == [server[c] EXCEPT !.link = TRUE, !.outbox = o]
           y == [x EXCEPT !.at = "startup", !.conn = c, !.scram = "none"]
<1>2. /\ conns[c] = NoConnection /\ server[c] = NoSession /\ conns[c] \in Connection
      /\ server[c] \in Session
      /\ x \in Caller /\ x.at = "want" /\ x.conn = NoConn /\ JobOK(r, x, table)
      /\ cancels \subseteq Conns /\ cuts \in 0..MaxCuts
  BY <1>1 DEF Dial, PgWireInv, TypesOK, SessionsOK, ConnectionOK, Owned, CallsOK
<1>3. \A q \in Callers : caller[q].conn # c
  BY <1>1, <1>2, NoConnIsNone DEF PgWireInv, Owned
<1>4. /\ greeting \in Seq(Messages)
      /\ \A i \in 1..Len(greeting) : greeting[i].k = "ready" =>
            i = Len(greeting) /\ greeting[i].tx = "I"
  <2>1. greeting \in Seq({greeting[i] : i \in DOMAIN greeting})
    BY GreetingsAssumption
  <2>2. {greeting[i] : i \in DOMAIN greeting} \subseteq Messages
    BY DEF Messages
  <2>3. greeting \in Seq(Messages) /\ DOMAIN greeting = 1..Len(greeting)
    BY <2>1, <2>2
  <2> QED
    BY <2>3, GreetingsAssumption
<1>5. /\ o \in Seq(Messages)
      /\ \A i \in 1..Len(o) : o[i].k = "ready" => i = Len(o) /\ o[i].tx = "I"
  <2>1. CASE SSLMode = "disable"
    BY <1>4, <2>1
  <2>2. CASE SSLMode # "disable"
    <3>1. hello \in Messages /\ hello.k = "tls"
      BY DEF Messages
    <3> HIDE DEF hello
    <3>2. <<hello>> \in Seq(Messages) /\ Len(<<hello>>) = 1 /\ <<hello>>[1] = hello
      BY <3>1
    <3>3. /\ o \in Seq(Messages) /\ Len(o) = 1 + Len(greeting)
          /\ o[1] = hello /\ \A i \in 1..Len(o) : i # 1 => o[i] = greeting[i - 1]
      BY <1>4, <2>2, <3>2, ConcatProperties
    <3>4. Len(greeting) \in Nat
      BY <1>4, LenProperties
    <3> HIDE DEF o
    <3>5. ASSUME NEW i \in 1..Len(o), o[i].k = "ready"
          PROVE  i = Len(o) /\ o[i].tx = "I"
      <4>1. i # 1
        BY <3>1, <3>3, <3>5
      <4>2. i - 1 \in 1..Len(greeting) /\ o[i] = greeting[i - 1]
        BY <4>1, <3>3, <3>4
      <4> QED
        BY <4>2, <3>3, <3>4, <3>5, <1>4
    <3> QED
      BY <3>3, <3>5
  <2> QED
    BY <2>1, <2>2
<1>6. k \in Connection /\ k.state = "open" /\ ~k.idle /\ ~k.bad
  <2>1. ~conns[c].idle /\ ~conns[c].bad
    BY <1>2 DEF NoConnection
  <2>2. /\ k \in Connection /\ k.state = "open" /\ k.idle = conns[c].idle
        /\ k.bad = conns[c].bad
    BY <1>2 DEF Connection
  <2> QED
    BY <2>1, <2>2
<1> HIDE DEF o
<1>7. /\ s \in Session /\ s.outbox = o /\ s.inbox = <<>> /\ s.tx = "I" /\ s.work = {}
  <2>1. server[c].inbox = <<>> /\ server[c].tx = "I" /\ server[c].work = {}
    BY <1>2 DEF NoSession
  <2> QED
    BY <1>2, <1>5, <2>1 DEF Session
<1>8. /\ y \in Caller /\ y.at = "startup" /\ y.conn = c /\ y.job = x.job /\ y.arg = x.arg
      /\ y.n = x.n /\ y.rows = x.rows /\ y.asked = x.asked /\ y.verdict = x.verdict
  BY <1>2 DEF Caller
<1>9. /\ caller' = [caller EXCEPT ![r] = y] /\ conns' = [conns EXCEPT ![c] = k]
      /\ server' = [server EXCEPT ![c] = s] /\ UNCHANGED <<cancels, table, cuts>>
  BY <1>1 DEF Dial, PgWireInv, TypesOK, o
<1> HIDE DEF k, s, y
<1>10. SessionOK(s, caller') /\ ConnectionOK(k, s)
  BY <1>6, <1>7, EmptySeq DEF SessionOK, ConnectionOK
<1>11. JobOK(r, y, table)
  <2>1. y.rows = <<>> /\ \A i \in 1..Len(y.rows) : Own(r, y, y.rows[i])
    BY <1>2, <1>8 DEF JobOK
  <2>2. y.verdict # "ok"
    BY <1>2, <1>8 DEF JobOK
  <2> QED
    BY <1>2, <1>8, <2>1, <2>2 DEF JobOK
<1>12. CallOK(r, y, k, s, table)
  <2>1. StartupOK(y, k, s)
    BY <1>5, <1>6, <1>7, <1>8 DEF StartupOK
  <2> QED
    BY <1>8, <2>1 DEF CallOK, ReadingOK, ReturnedOK
<1>13. /\ \A n \in {1, 2} : Fresh(caller[r], n)
       /\ \A t \in Statements : ~Pending(s, t)
  BY <1>2, <1>7 DEF Fresh, Pending
<1>14. Moves(r, c, y, k, s)
  BY <1>2, <1>3, <1>6, <1>8, <1>9, <1>10, <1>11, <1>12, <1>13, NoConnIsNone DEF Moves
<1> QED
  BY <1>6, <1>7, <1>8, <1>14, OneCall

LEMMA ConnectFailsKeeps ==
    ASSUME PgWireInv, NEW r \in Callers, caller[r].at = "startup", ConnectFails(r)
    PROVE  PgWireInv'
<1> DEFINE x == caller[r]
           c == x.conn
           k == [conns[c] EXCEPT !.state = "closed", !.bad = TRUE]
           y == [x EXCEPT !.at = "done", !.conn = NoConn, !.verdict = "failed"]
<1>1. x.conn # NoConn
  BY DEF PgWireInv, Owned
<1>2. /\ x \in Caller /\ c \in Conns /\ conns[c] \in Connection /\ ~conns[c].idle
      /\ \A q \in Callers : caller[q].conn = c => q = r
      /\ JobOK(r, x, table)
      /\ cancels \subseteq Conns /\ cuts \in 0..MaxCuts
  BY <1>1, Held
<1>3. k \in Connection /\ ~k.idle /\ k.state = "closed"
  BY <1>2 DEF Connection
<1>4. /\ NoSession \in Session /\ ~NoSession.link /\ NoSession.outbox = <<>>
      /\ NoSession.inbox = <<>> /\ NoSession.tx = "I" /\ NoSession.work = {}
  BY EmptySeq DEF NoSession, Session, TxStatus
<1>5. /\ y \in Caller /\ y.at = "done" /\ y.conn = NoConn /\ y.job = x.job /\ y.arg = x.arg
      /\ y.n = x.n /\ y.rows = x.rows /\ y.asked = x.asked /\ y.verdict = "failed"
  BY <1>2 DEF Caller
<1>6. /\ caller' = [caller EXCEPT ![r] = y] /\ conns' = [conns EXCEPT ![c] = k]
      /\ server' = [server EXCEPT ![c] = NoSession] /\ UNCHANGED <<cancels, table, cuts>>
  BY <1>2 DEF ConnectFails, PgWireInv, TypesOK
<1> HIDE DEF k, y
<1>7. SessionOK(NoSession, caller') /\ ConnectionOK(k, NoSession)
  BY <1>3, <1>4, EmptySeq DEF SessionOK, ConnectionOK
<1>8. JobOK(r, y, table)
  <2>1. y.rows = <<>> /\ \A i \in 1..Len(y.rows) : Own(r, y, y.rows[i])
    BY <1>2, <1>5 DEF JobOK
  <2> QED
    BY <1>2, <1>5, <2>1 DEF JobOK
<1>9. (\A n \in {1, 2} : ~Fresh(y, n)) /\ (\A t \in Statements : ~Pending(NoSession, t))
  BY <1>4, <1>5 DEF Fresh, Pending
<1>10. Moves(r, c, y, k, NoSession)
  BY <1>2, <1>3, <1>5, <1>6, <1>7, <1>8, <1>9, NoConnIsNone DEF Moves
<1> QED
  BY <1>2, <1>3, <1>4, <1>5, <1>10, OneCall

LEMMA StartupTimesOutKeeps ==
    ASSUME PgWireInv, NEW r \in Callers, StartupTimesOut(r)
    PROVE  PgWireInv'
BY ConnectFailsKeeps DEF StartupTimesOut

LEMMA ReadFailsKeeps ==
    ASSUME PgWireInv, NEW r \in Callers, ReadFails(r)
    PROVE  PgWireInv'
<1> DEFINE x == caller[r]
           c == x.conn
           k == [conns[c] EXCEPT !.bad = TRUE]
           s == server[c]
           e == FirstErr(x, ReadFailure)
           y == [x EXCEPT !.at = "returned", !.err = e]
<1>0. x.at = "reading" /\ s.outbox = <<>> /\ ~s.link
  BY DEF ReadFails
<1>1. x.conn # NoConn
  BY <1>0 DEF PgWireInv, Owned
<1>2. /\ x \in Caller /\ c \in Conns /\ conns[c] \in Connection /\ ~conns[c].idle
      /\ conns[c].state = "open" /\ s \in Session
      /\ \A q \in Callers : caller[q].conn = c => q = r
      /\ JobOK(r, x, table) /\ SessionOK(s, caller)
      /\ cancels \subseteq Conns /\ cuts \in 0..MaxCuts
  BY <1>1, Held
<1>3. k \in Connection /\ ~k.idle /\ k.state = "open" /\ k.bad
  BY <1>2 DEF Connection
<1>4. e \in Errs /\ e # ""
  BY <1>2 DEF FirstErr, ReadFailure, Errs, Caller
<1>5. /\ caller' = [caller EXCEPT ![r] = y] /\ conns' = [conns EXCEPT ![c] = k]
      /\ server' = [server EXCEPT ![c] = s] /\ UNCHANGED <<cancels, table, cuts>>
  BY <1>2 DEF ReadFails, PgWireInv, TypesOK
<1> HIDE DEF e
<1>6. /\ y \in Caller /\ y.at = "returned" /\ y.conn = c /\ y.job = x.job /\ y.arg = x.arg
      /\ y.n = x.n /\ y.rows = x.rows /\ y.asked = x.asked /\ y.verdict = x.verdict
      /\ y.doing = x.doing /\ y.err # ""
  BY <1>2, <1>4 DEF Caller
<1> HIDE DEF k, y
<1>7. SessionOK(s, caller') /\ ConnectionOK(k, s)
  <2>1. SessionOK(s, caller')
    BY <1>2, <1>5, <1>6, SessionOfOthers DEF PgWireInv
  <2> QED
    BY <2>1, <1>3 DEF ConnectionOK
<1>8. JobOK(r, y, table)
  <2>1. \A i \in 1..Len(y.rows) : Own(r, y, y.rows[i])
    BY <1>2, <1>6 DEF JobOK, Own
  <2>2. y.verdict = "ok" => y.job # "copy" /\ Counted(r, y, table) /\ y.doing = "close"
    BY <1>0, <1>2, <1>6 DEF JobOK, Counted
  <2> QED
    BY <1>0, <1>2, <1>6, <2>1, <2>2 DEF JobOK
<1>9. \A n \in {1, 2} : Fresh(y, n) => Fresh(x, n)
  BY <1>0, <1>6 DEF Fresh
<1>10. CallOK(r, y, k, s, table)
  BY <1>0, <1>3, <1>6 DEF CallOK, StartupOK, ReadingOK, ReturnedOK
<1>11. Moves(r, c, y, k, s)
  BY <1>2, <1>3, <1>5, <1>6, <1>7, <1>8, <1>9, <1>10, NoConnIsNone DEF Moves
<1> QED
  BY <1>2, <1>3, <1>6, <1>11, OneCall

LEMMA StartupKeeps ==
    ASSUME PgWireInv, NEW r \in Callers, Startup(r)
    PROVE  PgWireInv'
<1> DEFINE x == caller[r]
           c == x.conn
           o == server[c].outbox
           m == Head(o)
           k == [conns[c] EXCEPT !.tls = @ \/ (m.k = "tls" /\ m.answer = "S"),
                                 !.pid = @ \/ m.k = "key",
                                 !.strict = IF m.k = "param" THEN m.strict ELSE @,
                                 !.tx = IF m.k = "ready" THEN m.tx ELSE @]
           s == [server[c] EXCEPT !.outbox = Tail(@)]
           at == IF m.k = "ready" THEN "connected" ELSE "startup"
           scram == IF m.k # "auth" \/ m.code # "sasl" THEN x.scram
                    ELSE Mechanism(m, conns[c].tls)
           y == [x EXCEPT !.at = at, !.scram = scram]
<1>0. x.at = "startup" /\ o # <<>>
  BY DEF Startup
<1>1. x.conn # NoConn
  BY <1>0 DEF PgWireInv, Owned
<1>2. /\ x \in Caller /\ c \in Conns /\ conns[c] \in Connection /\ ~conns[c].idle
      /\ conns[c].state = "open" /\ server[c] \in Session
      /\ \A q \in Callers : caller[q].conn = c => q = r
      /\ JobOK(r, x, table) /\ SessionOK(server[c], caller) /\ StartupOK(x, conns[c], server[c])
      /\ cancels \subseteq Conns /\ cuts \in 0..MaxCuts
  BY <1>1, Held DEF CallOK
<1>3. CASE Refused(m, x, conns[c])
  <2>1. ConnectFails(r)
    BY <1>3 DEF Startup
  <2> QED
    BY <1>0, <2>1, ConnectFailsKeeps
<1>4. CASE ~Refused(m, x, conns[c])
  <2>1. /\ o \in Seq(Messages) /\ m = o[1] /\ m \in Messages /\ Len(o) \in Nat /\ Len(o) >= 1
        /\ Tail(o) \in Seq(Messages) /\ Len(Tail(o)) = Len(o) - 1
        /\ \A i \in 1..Len(Tail(o)) : Tail(o)[i] = o[i + 1]
    <3>1. o \in Seq(Messages)
      BY <1>2 DEF Session
    <3> HIDE DEF o
    <3> QED
      BY <3>1, <1>0, EmptySeq, HeadTailProperties, ElementOfSeq, LenProperties
  <2>2. m.k = "ready" => m.tx = "I" /\ Len(o) = 1
    <3>1. \A i \in 1..Len(o) : o[i].k = "ready" => i = Len(o) /\ o[i].tx = "I"
      BY <1>0, <1>2 DEF StartupOK
    <3>2. 1 \in 1..Len(o)
      BY <2>1
    <3> QED
      BY <2>1, <3>1, <3>2
  <2>3. m.k = "param" => m.strict \in BOOLEAN
    <3>1. CASE m \in Answers \cup [k : {"tls"}, answer : {"S", "N", "E", "untrusted"}]
      BY <3>1 DEF Answers, Info, Msg
    <3>2. CASE \E g \in Greetings : \E i \in DOMAIN g : m = g[i]
      BY <3>2, GreetingsAssumption
    <3> QED
      BY <2>1, <3>1, <3>2 DEF Messages
  <2>4. /\ k \in Connection /\ k.state = "open" /\ ~k.idle /\ k.bad = conns[c].bad
        /\ m.k = "ready" => k.tx = "I"
    <3>2. (IF m.k = "ready" THEN m.tx ELSE conns[c].tx) \in TxStatus
      BY <1>2, <2>2 DEF Connection, TxStatus
    <3>3. (IF m.k = "param" THEN m.strict ELSE conns[c].strict) \in BOOLEAN
      BY <1>2, <2>3 DEF Connection
    <3> DEFINE tls == conns[c].tls \/ (m.k = "tls" /\ m.answer = "S")
               pid == conns[c].pid \/ m.k = "key"
               strict == IF m.k = "param" THEN m.strict ELSE conns[c].strict
               tx == IF m.k = "ready" THEN m.tx ELSE conns[c].tx
               z == conns[c]
    <3>4. /\ tls \in BOOLEAN /\ pid \in BOOLEAN /\ strict \in BOOLEAN /\ tx \in TxStatus
          /\ m.k = "ready" => tx = "I"
      BY <2>2, <3>2, <3>3
    <3>5. k = [z EXCEPT !.tls = tls, !.pid = pid, !.strict = strict, !.tx = tx]
      OBVIOUS
    <3>6. z \in Connection /\ z.state = "open" /\ ~z.idle /\ z.bad = conns[c].bad
      BY <1>2
    <3> HIDE DEF tls, pid, strict, tx, k, z, m
    <3> QED
      BY <3>4, <3>5, <3>6 DEF Connection
  <2>5. /\ s \in Session /\ s.outbox = Tail(o) /\ s.inbox = server[c].inbox
        /\ s.link = server[c].link /\ s.tx = server[c].tx /\ s.work = server[c].work
    <3> DEFINE z == server[c]
               p == Tail(o)
    <3>1. z \in Session /\ p \in Seq(Messages) /\ s = [z EXCEPT !.outbox = p]
      BY <1>2, <2>1
    <3> HIDE DEF z, p, s
    <3>2. /\ s \in Session /\ s.outbox = p /\ s.inbox = z.inbox
          /\ s.link = z.link /\ s.tx = z.tx /\ s.work = z.work
      BY <3>1 DEF Session
    <3> QED
      BY <3>2 DEF z, p
  <2>6. /\ at \in {"startup", "connected"} /\ (at = "connected" => m.k = "ready")
        /\ scram \in {"none", "plain", "plus"}
    BY <1>2 DEF Mechanism, Caller
  <2>7. /\ caller' = [caller EXCEPT ![r].at = IF m.k = "ready" THEN "connected" ELSE @,
                                    ![r].scram = IF m.k # "auth" \/ m.code # "sasl" THEN @
                                                 ELSE Mechanism(m, conns[c].tls)]
        /\ conns' = [conns EXCEPT ![c] = k]
        /\ server' = [server EXCEPT ![c].outbox = Tail(@)]
        /\ UNCHANGED <<cancels, table, cuts>>
    BY <1>4 DEF Startup
  <2>8. caller' = [caller EXCEPT ![r] = y]
    BY <1>0, <2>7 DEF PgWireInv, TypesOK
  <2>9. server' = [server EXCEPT ![c] = s]
    BY <1>2, <2>7 DEF PgWireInv, TypesOK
  <2> HIDE DEF at, scram
  <2>10. /\ y \in Caller /\ y.at = at /\ y.conn = c /\ y.job = x.job /\ y.arg = x.arg
         /\ y.n = x.n /\ y.rows = x.rows /\ y.asked = x.asked /\ y.verdict = x.verdict
    <3>1. x \in Caller /\ at \in {"startup", "connected"} /\ scram \in {"none", "plain", "plus"}
      BY <1>2, <2>6
    <3> HIDE DEF x
    <3> QED
      BY <3>1 DEF Caller
  <2> HIDE DEF k, s, y
  <2>11. SessionOK(s, caller') /\ ConnectionOK(k, s)
    <3>1. SessionOK(server[c], caller')
      BY <1>2, <2>8, <2>10, SessionOfOthers DEF PgWireInv
    <3>2. server[c].inbox = <<>>
      BY <1>0, <1>2 DEF SessionOK
    <3> QED
      BY <3>1, <3>2, <2>4, <2>5 DEF SessionOK, ConnectionOK
  <2>12. JobOK(r, y, table)
    <3>1. y.rows = <<>> /\ \A i \in 1..Len(y.rows) : Own(r, y, y.rows[i])
      BY <1>0, <1>2, <2>10 DEF JobOK
    <3>2. y.verdict # "ok"
      BY <1>0, <1>2, <2>10 DEF JobOK
    <3> QED
      BY <1>0, <1>2, <2>6, <2>10, <3>1, <3>2 DEF JobOK
  <2>13. CallOK(r, y, k, s, table)
    <3>1. \A i \in 1..Len(s.outbox) : s.outbox[i].k = "ready" =>
                i = Len(s.outbox) /\ s.outbox[i].tx = "I"
      <4> SUFFICES ASSUME NEW i \in 1..Len(Tail(o)), Tail(o)[i].k = "ready"
                   PROVE  i = Len(Tail(o)) /\ Tail(o)[i].tx = "I"
        BY <2>5
      <4>1. i + 1 \in 1..Len(o) /\ Tail(o)[i] = o[i + 1]
        BY <2>1
      <4> QED
        BY <4>1, <1>0, <1>2, <2>1 DEF StartupOK
    <3>2. at = "connected" => s.outbox = <<>> /\ k.tx = "I"
      <4>1. Len(o) = 1 => Tail(o) = <<>>
        <5> DEFINE p == Tail(o)
        <5>1. p \in Seq(Messages) /\ (Len(o) = 1 => Len(p) = 0)
          BY <2>1
        <5> HIDE DEF p
        <5>2. Len(o) = 1 => p = <<>>
          BY <5>1, EmptySeq
        <5> QED
          BY <5>2 DEF p
      <4> QED
        BY <4>1, <2>2, <2>4, <2>5, <2>6
    <3>3. StartupOK(y, k, s)
      BY <1>0, <1>2, <2>4, <2>5, <2>6, <2>10, <3>1, <3>2 DEF StartupOK
    <3> QED
      BY <2>6, <2>10, <3>3 DEF CallOK, ReadingOK, ReturnedOK
  <2>14. \A n \in {1, 2} : Fresh(x, n)
    BY <1>0 DEF Fresh
  <2>15. \A t \in Statements : Pending(s, t) => Pending(server[c], t)
    BY <2>5 DEF Pending
  <2>16. Moves(r, c, y, k, s)
    BY <1>2, <2>4, <2>6, <2>7, <2>8, <2>9, <2>10, <2>11, <2>12, <2>13, <2>14, <2>15, NoConnIsNone
       DEF Moves
  <2> QED
    BY <1>2, <2>4, <2>5, <2>10, <2>16, OneCall
<1> QED
  BY <1>3, <1>4

(* The caller that read message m.                                         *)
Heard(x, m) ==
    [x EXCEPT !.err = Reported(x, m),
              !.rows = IF m.k = "row" /\ x.doing \in {"run", "stmt"}
                       THEN Append(@, [of |-> m.of, is |-> DecodeValue(m, x.format)])
                       ELSE @]

(* An error that was read is reported, and so is one from before.          *)
LEMMA ReportedForm ==
    ASSUME NEW x \in Caller, NEW m \in Answers
    PROVE  /\ Reported(x, m) \in Errs
           /\ Reported(x, m) = "" => x.err = "" /\ m.k # "error" /\ m.k # "copy"
<1>1. x.err \in Errs
  BY DEF Caller
<1>2. m.k = "error" => m.code \in {"server", "canceled"}
  BY DEF Answers, Info, Msg
<1> QED
  BY <1>1, <1>2 DEF Reported, FirstErr, Errs

(* The caller that read message m, field by field.                         *)
LEMMA HeardForm ==
    ASSUME NEW r \in Callers, NEW x \in Caller, NEW m \in Answers,
           m.k = "row" =>
              /\ x.doing \in {"run", "stmt"}
              /\ Own(r, x, [of |-> m.of, is |-> DecodeValue(m, x.format)]),
           JobOK(r, x, table), x.at = "reading"
    PROVE  LET y == Heard(x, m)
           IN  /\ y \in Caller /\ y.job = x.job /\ y.arg = x.arg /\ y.at = x.at
               /\ y.conn = x.conn /\ y.doing = x.doing /\ y.n = x.n /\ y.ctx = x.ctx
               /\ y.format = x.format /\ y.asked = x.asked /\ y.verdict = x.verdict
               /\ y.err = Reported(x, m)
               /\ Len(y.rows) = Len(x.rows) + (IF m.k = "row" THEN 1 ELSE 0)
               /\ m.k # "row" => y.rows = x.rows
               /\ Len(x.rows) \in Nat
               /\ \A z : z.job = y.job /\ z.arg = y.arg /\ z.rows = y.rows =>
                     \A i \in 1..Len(z.rows) : Own(r, z, z.rows[i])
<1> DEFINE row == [of |-> m.of, is |-> DecodeValue(m, x.format)]
           err == Reported(x, m)
           seen == IF m.k = "row" THEN Append(x.rows, row) ELSE x.rows
           y == [x EXCEPT !.err = err, !.rows = seen]
<1>0. Heard(x, m) = y
  BY DEF Heard
<1>1. err \in Errs
  BY ReportedForm
<1>2. x.rows \in Seq(RowsOf) /\ Len(x.rows) \in Nat
  BY LenProperties DEF Caller
<1>3. m.k = "row" => row \in RowsOf
  <2> SUFFICES ASSUME m.k = "row" PROVE row \in RowsOf
    OBVIOUS
  <2>1. m.of \in Statements /\ m.is \in Values
    BY DEF Answers, Info, Msg
  <2>2. DecodeValue(m, x.format) \in Values
    BY <2>1 DEF DecodeValue, Values
  <2> QED
    BY <2>1, <2>2 DEF RowsOf
<1> HIDE DEF row
<1>4. /\ seen \in Seq(RowsOf)
      /\ Len(seen) = Len(x.rows) + (IF m.k = "row" THEN 1 ELSE 0)
      /\ \A i \in 1..Len(seen) : \/ i \in 1..Len(x.rows) /\ seen[i] = x.rows[i]
                                 \/ m.k = "row" /\ seen[i] = row
  <2> DEFINE q == x.rows
             l == Append(q, row)
  <2>1. q \in Seq(RowsOf) /\ Len(q) \in Nat
    BY <1>2
  <2> HIDE DEF q
  <2>2. CASE m.k = "row"
    <3>1. /\ l \in Seq(RowsOf) /\ Len(l) = Len(q) + 1
          /\ \A i \in 1..Len(q) : l[i] = q[i]
          /\ l[Len(q) + 1] = row
      BY <1>3, <2>1, <2>2, AppendProperties
    <3>2. \A i \in 1..Len(l) : i \in 1..Len(q) \/ i = Len(q) + 1
      BY <2>1, <3>1
    <3>3. seen = l
      BY <2>2 DEF q
    <3> QED
      BY <2>2, <3>1, <3>2, <3>3 DEF q
  <2>3. CASE m.k # "row"
    BY <2>1, <2>3 DEF q
  <2> QED
    BY <2>2, <2>3
<1>5. m.k # "row" => seen = x.rows
  OBVIOUS
<1> HIDE DEF seen, err
<1>6. y \in Caller
  <2>1. \A u \in Caller : [u EXCEPT !.err = err] \in Caller
    BY <1>1 DEF Caller
  <2>2. \A u \in Caller : [u EXCEPT !.rows = seen] \in Caller
    BY <1>4 DEF Caller
  <2>3. y = [[x EXCEPT !.err = err] EXCEPT !.rows = seen]
    BY DEF Caller
  <2> QED
    BY <2>1, <2>2, <2>3
<1>7. /\ y.job = x.job /\ y.arg = x.arg /\ y.at = x.at /\ y.conn = x.conn
      /\ y.doing = x.doing /\ y.n = x.n /\ y.ctx = x.ctx
      /\ y.format = x.format /\ y.asked = x.asked /\ y.verdict = x.verdict
      /\ y.err = err /\ y.rows = seen
  BY DEF Caller
<1> HIDE DEF y
<1>8. ASSUME NEW z, z.job = y.job, z.arg = y.arg, z.rows = y.rows, NEW i \in 1..Len(z.rows)
      PROVE  Own(r, z, z.rows[i])
  <2>1. \A a : Own(r, x, a) => Own(r, z, a)
    BY <1>7, <1>8 DEF Own
  <2>2. \A j \in 1..Len(x.rows) : Own(r, x, x.rows[j])
    BY DEF JobOK
  <2>3. m.k = "row" => Own(r, x, row)
    BY DEF row
  <2> QED
    BY <2>1, <2>2, <2>3, <1>4, <1>7, <1>8
<1> QED
  BY <1>0, <1>2, <1>4, <1>5, <1>6, <1>7, <1>8 DEF err

\* The rest of a loop's messages, once the first of them is read.
LEMMA UnreadRest ==
    ASSUME NEW r \in Callers, NEW x, NEW o \in Seq(Messages), o # <<>>, UnreadOK(r, x, o)
    PROVE  LET m == Head(o)
               p == Tail(o)
           IN  /\ m = o[1] /\ m \in Answers /\ p \in Seq(Messages)
               /\ UnreadOK(r, x, p)
               /\ \A i \in 1..Len(p) : /\ i + 1 \in 1..Len(o) /\ p[i] = o[i + 1]
                                       /\ p[i].k # "error"
               /\ EndsLoop(m) => p = <<>> /\ ~HasRow(o) /\ (m.k = "ready" => HasReady(o))
               /\ m.k = "row" => HasRow(o) /\ ~HasRow(p)
               /\ m.k # "row" => (HasRow(o) <=> HasRow(p))
               /\ HasReady(p) => HasReady(o)
               /\ m.k = "row" =>
                     /\ x.doing \in {"run", "stmt"}
                     /\ Own(r, x, [of |-> m.of, is |-> DecodeValue(m, x.format)])
               /\ m.k = "copy" => x.job = "copy"
<1> DEFINE m == Head(o)
           p == Tail(o)
<1>1. /\ m = o[1] /\ p \in Seq(Messages) /\ Len(o) \in Nat /\ Len(o) >= 1
      /\ Len(p) = Len(o) - 1 /\ \A i \in 1..Len(p) : p[i] = o[i + 1]
  BY EmptySeq, HeadTailProperties, LenProperties
<1>2. 1 \in 1..Len(o)
  BY <1>1
<1> HIDE DEF m, p
<1>3. \A i \in 1..Len(p) : i + 1 \in 1..Len(o) /\ i + 1 # 1 /\ p[i] = o[i + 1]
  BY <1>1
<1>4. \A j \in 1..Len(o) : j = 1 \/ (j - 1 \in 1..Len(p) /\ o[j] = p[j - 1])
  BY <1>1, <1>3
<1>5. m \in Answers
  BY <1>1, <1>2 DEF UnreadOK
<1>6. \A i \in 1..Len(p) : p[i].k # "error"
  BY <1>3 DEF UnreadOK
<1>7. UnreadOK(r, x, p)
  <2> SUFFICES ASSUME NEW i \in 1..Len(p)
               PROVE  /\ p[i] \in Answers
                      /\ EndsLoop(p[i]) => i = Len(p)
                      /\ p[i].k = "error" => i = 1
                      /\ p[i].k = "row" =>
                           /\ x.doing \in {"run", "stmt"}
                           /\ Own(r, x, [of |-> p[i].of, is |-> DecodeValue(p[i], x.format)])
                           /\ \A j \in 1..Len(p) : p[j].k = "row" => j = i
                      /\ p[i].k = "copy" => x.job = "copy"
    BY DEF UnreadOK
  <2>1. i + 1 \in 1..Len(o) /\ p[i] = o[i + 1]
    BY <1>3
  <2>2. EndsLoop(p[i]) => i = Len(p)
    <3>1. EndsLoop(p[i]) => i + 1 = Len(o)
      BY <2>1 DEF UnreadOK
    <3> QED
      BY <1>1, <3>1
  <2>3. p[i].k = "row" => \A j \in 1..Len(p) : p[j].k = "row" => j = i
    <3> SUFFICES ASSUME p[i].k = "row", NEW j \in 1..Len(p), p[j].k = "row"
                 PROVE  j = i
      OBVIOUS
    <3>1. j + 1 \in 1..Len(o) /\ p[j] = o[j + 1]
      BY <1>3
    <3>2. j + 1 = i + 1
      BY <2>1, <3>1 DEF UnreadOK
    <3> QED
      BY <3>2
  <2> QED
    BY <1>6, <2>1, <2>2, <2>3 DEF UnreadOK
<1>8. EndsLoop(m) => Len(o) = 1
  BY <1>1, <1>2 DEF UnreadOK
<1>9. EndsLoop(m) => p = <<>>
  BY <1>1, <1>8, EmptySeq
<1>10. EndsLoop(m) => ~HasRow(o) /\ (m.k = "ready" => HasReady(o))
  <2> SUFFICES ASSUME EndsLoop(m)
               PROVE  ~HasRow(o) /\ (m.k = "ready" => HasReady(o))
    OBVIOUS
  <2>1. m.k # "row" /\ \A i \in 1..Len(o) : o[i] = m
    BY <1>1, <1>8 DEF EndsLoop
  <2> QED
    BY <1>2, <2>1 DEF HasRow, HasReady
<1>11. m.k = "row" => HasRow(o) /\ ~HasRow(p)
  BY <1>1, <1>2, <1>3 DEF HasRow, UnreadOK
<1>12. m.k # "row" => (HasRow(o) <=> HasRow(p))
  BY <1>1, <1>3, <1>4 DEF HasRow
<1>13. HasReady(p) => HasReady(o)
  BY <1>3 DEF HasReady
<1>14. /\ m.k = "row" =>
            /\ x.doing \in {"run", "stmt"}
            /\ Own(r, x, [of |-> m.of, is |-> DecodeValue(m, x.format)])
       /\ m.k = "copy" => x.job = "copy"
  BY <1>1, <1>2 DEF UnreadOK
<1> QED
  BY <1>1, <1>3, <1>5, <1>6, <1>7, <1>9, <1>10, <1>11, <1>12, <1>13, <1>14 DEF m, p

\* What a call has, once it has read its next message: a message that ends the
\* loop makes it return, any other leaves it reading.
LEMMA ReadCall ==
    ASSUME NEW r \in Callers, NEW x \in Caller, NEW w \in Caller, NEW k \in Connection,
           NEW l \in Connection, NEW s \in Session, NEW z \in Session,
           x.at = "reading", s.outbox # <<>>, s.inbox = <<>>,
           JobOK(r, x, table), ReadingOK(r, x, k, s, table),
           z.outbox = Tail(s.outbox), z.inbox = <<>>, z.link = s.link, z.tx = s.tx,
           z.work = s.work,
           l.bad = (k.bad \/ Head(s.outbox).k = "copy"),
           Head(s.outbox).k = "ready" => l.tx = Head(s.outbox).tx,
           Alike(Heard(x, Head(s.outbox)), w), w.doing = x.doing,
           w.err = Reported(x, Head(s.outbox)),
           w.at = (IF EndsLoop(Head(s.outbox)) THEN "returned" ELSE "reading")
    PROVE  JobOK(r, w, table) /\ CallOK(r, w, l, z, table)
<1> DEFINE o == s.outbox
           m == Head(o)
           p == Tail(o)
           y == Heard(x, m)
<1>1. o \in Seq(Messages) /\ UnreadOK(r, x, o)
  BY DEF Session, ReadingOK
<1>2. /\ m = o[1] /\ m \in Answers /\ UnreadOK(r, x, p)
      /\ \A i \in 1..Len(p) : i + 1 \in 1..Len(o) /\ p[i] = o[i + 1] /\ p[i].k # "error"
      /\ EndsLoop(m) => p = <<>> /\ ~HasRow(o) /\ (m.k = "ready" => HasReady(o))
      /\ m.k = "row" => HasRow(o) /\ ~HasRow(p)
      /\ m.k # "row" => (HasRow(o) <=> HasRow(p))
      /\ HasReady(p) => HasReady(o)
      /\ m.k = "row" =>
            /\ x.doing \in {"run", "stmt"}
            /\ Own(r, x, [of |-> m.of, is |-> DecodeValue(m, x.format)])
      /\ m.k = "copy" => x.job = "copy"
  <2> HIDE DEF o
  <2> QED
    BY <1>1, UnreadRest DEF o
<1>3. /\ y \in Caller /\ y.job = x.job /\ y.arg = x.arg /\ y.n = x.n /\ y.format = x.format
      /\ y.asked = x.asked /\ y.verdict = x.verdict
      /\ Len(y.rows) = Len(x.rows) + (IF m.k = "row" THEN 1 ELSE 0)
      /\ m.k # "row" => y.rows = x.rows
      /\ Len(x.rows) \in Nat
      /\ \A v : v.job = y.job /\ v.arg = y.arg /\ v.rows = y.rows =>
                     \A i \in 1..Len(v.rows) : Own(r, v, v.rows[i])
  <2> HIDE DEF m
  <2> QED
    BY <1>2, HeardForm
<1>4. w.err = "" => x.err = "" /\ m.k # "error" /\ m.k # "copy"
  <2> HIDE DEF m
  <2> QED
    BY <1>2, ReportedForm DEF m
<1>5. /\ z.outbox = p /\ l.bad = (k.bad \/ m.k = "copy") /\ (m.k = "ready" => l.tx = m.tx)
      /\ w.at = (IF EndsLoop(m) THEN "returned" ELSE "reading") /\ Alike(y, w)
      /\ o # <<>>
  OBVIOUS
<1> HIDE DEF y, m, p, o
<1>6. /\ w.job = x.job /\ w.arg = x.arg /\ w.n = x.n /\ w.asked = x.asked
      /\ w.verdict = x.verdict /\ w.format = x.format
      /\ Len(w.rows) = Len(x.rows) + (IF m.k = "row" THEN 1 ELSE 0)
      /\ m.k # "row" => w.rows = x.rows
      /\ \A i \in 1..Len(w.rows) : Own(r, w, w.rows[i])
  <2>1. w.job = y.job /\ w.arg = y.arg /\ w.rows = y.rows
    BY <1>5 DEF Alike
  <2>2. \A i \in 1..Len(w.rows) : Own(r, w, w.rows[i])
    BY <1>3, <2>1
  <2> QED
    BY <1>3, <1>5, <2>2 DEF Alike
<1>7. /\ \A a : Own(r, x, a) => Own(r, w, a)
      /\ m.k # "row" /\ Counted(r, x, table) => Counted(r, w, table)
  BY <1>6 DEF Own, Counted
<1>8. JobOK(r, w, table)
  <2>1. x.verdict = "ok" => x.job # "copy" /\ Counted(r, x, table) /\ x.doing = "close"
    BY DEF JobOK
  <2>2. x.doing \in {"reset", "begin", "prepare"} => w.rows = <<>> /\ w.n = 1
    BY <1>2, <1>6 DEF JobOK
  <2>3. w.at \in {"reading", "returned"}
    BY <1>5
  <2>4. w.verdict = "ok" => w.job # "copy" /\ Counted(r, w, table) /\ w.doing = "close"
    BY <1>2, <1>6, <1>7, <2>1
  <2> QED
    BY <1>6, <2>2, <2>3, <2>4 DEF JobOK
<1>9. CASE ~EndsLoop(m)
  <2>1. w.at = "reading" /\ m.k # "ready" /\ m.k # "copy"
    BY <1>5, <1>9 DEF EndsLoop
  <2>2. UnreadOK(r, w, p)
    BY <1>2, <1>6, <1>7 DEF UnreadOK
  <2>3. Clean(w, p) => Clean(x, o)
    BY <1>2, <1>4, <1>5 DEF Clean
  <2>4. ReadingOK(r, w, l, z, table)
    <3>1. z.link => \A i \in 1..Len(p) : p[i].k = "ready" => p[i].tx = z.tx
      BY <1>2 DEF ReadingOK, o
    <3>2. z.link /\ Clean(w, p) =>
             /\ w.doing = "reset" => z.tx = "I"
             /\ w.doing = "begin" => z.tx = "T" /\ z.work = {}
      BY <2>3 DEF ReadingOK, o
    <3>3. z.link /\ w.doing \in {"prepare", "run", "close"} => z.tx = "I"
      BY DEF ReadingOK
    <3>4. z.link /\ w.doing = "stmt" =>
             /\ z.tx # "I"
             /\ z.tx = "T" =>
                   /\ z.work = Work(r, w.n)
                   /\ Len(w.rows) = IF HasRow(p) THEN w.n - 1 ELSE w.n
      <4> SUFFICES ASSUME z.link, w.doing = "stmt"
                   PROVE  /\ z.tx # "I"
                          /\ z.tx = "T" =>
                               /\ z.work = Work(r, w.n)
                               /\ Len(w.rows) = IF HasRow(p) THEN w.n - 1 ELSE w.n
        OBVIOUS
      <4>1. /\ s.tx # "I"
            /\ s.tx = "T" =>
                 /\ s.work = Work(r, x.n)
                 /\ Len(x.rows) = IF HasRow(o) THEN x.n - 1 ELSE x.n
        BY DEF ReadingOK, o
      <4>2. x.n \in {1, 2}
        BY DEF Caller
      <4>3. CASE m.k = "row"
        <5>1. Len(w.rows) = Len(x.rows) + 1 /\ HasRow(o) /\ ~HasRow(p)
          BY <4>3, <1>2, <1>6
        <5>2. s.tx = "T" => Len(x.rows) = x.n - 1
          BY <4>1, <5>1
        <5>3. s.tx = "T" => Len(w.rows) = x.n
          BY <1>3, <4>2, <5>1, <5>2
        <5> QED
          BY <1>6, <4>1, <5>1, <5>3
      <4>4. CASE m.k # "row"
        <5>1. w.rows = x.rows /\ (HasRow(o) <=> HasRow(p))
          BY <4>4, <1>2, <1>6
        <5>2. s.tx = "T" => Len(x.rows) = IF HasRow(p) THEN x.n - 1 ELSE x.n
          BY <4>1, <5>1
        <5> QED
          BY <1>6, <4>1, <5>1, <5>2
      <4> QED
        BY <4>3, <4>4
    <3>5. w.doing = "run" /\ Clean(w, p) /\ HasReady(p) =>
             /\ w.job # "copy" /\ table[<<r, 1>>] = 1
             /\ Len(w.rows) = IF HasRow(p) THEN 0 ELSE 1
      <4> SUFFICES ASSUME w.doing = "run", Clean(w, p), HasReady(p)
                   PROVE  /\ w.job # "copy" /\ table[<<r, 1>>] = 1
                          /\ Len(w.rows) = IF HasRow(p) THEN 0 ELSE 1
        OBVIOUS
      <4>1. Clean(x, o) /\ HasReady(o)
        BY <1>2, <2>3
      <4>2. /\ x.job # "copy" /\ table[<<r, 1>>] = 1
            /\ Len(x.rows) = IF HasRow(o) THEN 0 ELSE 1
        BY <4>1 DEF ReadingOK, o
      <4> QED
        BY <4>2, <1>2, <1>3, <1>6
    <3>6. w.doing = "commit" /\ Clean(w, p) /\ HasReady(p) => Counted(r, w, table)
      <4> SUFFICES ASSUME w.doing = "commit", Clean(w, p), HasReady(p)
                   PROVE  Counted(r, w, table)
        OBVIOUS
      <4>1. Clean(x, o) /\ HasReady(o) /\ m.k # "row"
        BY <1>2, <2>3
      <4>2. Counted(r, x, table)
        BY <4>1 DEF ReadingOK, o
      <4> QED
        BY <4>1, <4>2, <1>7
    <3>7. ~l.bad
      BY <1>5, <2>1 DEF ReadingOK
    <3>8. z.inbox = <<>> /\ z.outbox = p
      BY <1>5
    <3> QED
      BY <2>2, <3>1, <3>2, <3>3, <3>4, <3>5, <3>6, <3>7, <3>8 DEF ReadingOK
  <2> QED
    BY <1>8, <2>1, <2>4 DEF CallOK, StartupOK, ReturnedOK
<1>10. CASE EndsLoop(m)
  <2>1. w.at = "returned" /\ m.k \in {"ready", "copy"} /\ p = <<>> /\ ~HasRow(o)
    BY <1>2, <1>5, <1>10 DEF EndsLoop
  <2>2. w.rows = x.rows
    BY <1>6, <2>1
  <2>3. w.err = "" => Clean(x, o) /\ HasReady(o)
    BY <1>2, <1>4, <1>5, <1>10, <2>1 DEF Clean
  <2>4. m.k = "ready" /\ s.link => m.tx = s.tx
    <3>1. 1 \in 1..Len(o)
      BY <1>1, <1>5, EmptySeq, LenProperties
    <3> QED
      BY <1>2, <3>1 DEF ReadingOK, o
  <2>5. ReturnedOK(r, w, l, z, table)
    <3>1. l.bad => w.err # ""
      BY <1>4, <1>5 DEF ReadingOK
    <3>2. ~l.bad /\ z.link => l.tx = z.tx
      BY <1>5, <2>1, <2>4
    <3>3. z.link /\ w.err = "" =>
             /\ w.doing = "reset" => z.tx = "I"
             /\ w.doing = "begin" => z.tx = "T" /\ z.work = {}
      BY <2>3 DEF ReadingOK, o
    <3>4. z.link /\ w.doing \in {"prepare", "run", "close"} => z.tx = "I"
      BY DEF ReadingOK
    <3>5. z.link /\ w.doing = "stmt" =>
             /\ z.tx # "I"
             /\ z.tx = "T" => z.work = Work(r, w.n) /\ Len(w.rows) = w.n
      BY <1>6, <2>1, <2>2 DEF ReadingOK, o
    <3>6. w.doing \in {"run", "commit"} /\ w.err = "" => w.job # "copy" /\ Counted(r, w, table)
      <4>1. w.doing = "run" /\ w.err = "" =>
              x.job # "copy" /\ table[<<r, 1>>] = 1 /\ Len(x.rows) = 1
        BY <2>1, <2>3 DEF ReadingOK, o
      <4>2. w.doing = "run" => x.job # "tx"
        BY DEF JobOK
      <4>3. w.doing = "commit" => x.job = "tx"
        BY DEF JobOK
      <4>4. w.doing = "commit" /\ w.err = "" => Counted(r, x, table)
        BY <2>3 DEF ReadingOK, o
      <4> QED
        BY <1>6, <1>7, <2>1, <2>2, <4>1, <4>2, <4>3, <4>4 DEF Counted
    <3> QED
      BY <1>5, <2>1, <3>1, <3>2, <3>3, <3>4, <3>5, <3>6 DEF ReturnedOK
  <2> QED
    BY <1>8, <2>1, <2>5 DEF CallOK, StartupOK, ReadingOK
<1> QED
  BY <1>9, <1>10

LEMMA ReadKeeps ==
    ASSUME PgWireInv, NEW r \in Callers, Read(r)
    PROVE  PgWireInv'
<1> DEFINE x == caller[r]
           c == x.conn
           s == server[c]
           o == s.outbox
           m == Head(o)
           y == Heard(x, m)
           bad == conns[c].bad \/ m.k = "copy"
           tx == IF m.k = "ready" THEN m.tx ELSE conns[c].tx
           l == [conns[c] EXCEPT !.tx = tx, !.bad = bad]
           z == [s EXCEPT !.outbox = Tail(o)]
<1>0. x.at = "reading" /\ o # <<>>
  BY DEF Read
<1>1. x.conn # NoConn
  BY <1>0 DEF PgWireInv, Owned
<1>2. /\ x \in Caller /\ c \in Conns /\ conns[c] \in Connection /\ ~conns[c].idle
      /\ conns[c].state = "open" /\ s \in Session
      /\ \A q \in Callers : caller[q].conn = c => q = r
      /\ JobOK(r, x, table) /\ SessionOK(s, caller) /\ ReadingOK(r, x, conns[c], s, table)
      /\ cancels \subseteq Conns /\ cuts \in 0..MaxCuts
  BY <1>1, Held DEF CallOK
<1>3. o \in Seq(Messages) /\ UnreadOK(r, x, o) /\ s.inbox = <<>>
  BY <1>0, <1>2 DEF Session, ReadingOK, SessionOK
<1>4. /\ m \in Answers /\ Tail(o) \in Seq(Messages)
      /\ m.k = "row" =>
            /\ x.doing \in {"run", "stmt"}
            /\ Own(r, x, [of |-> m.of, is |-> DecodeValue(m, x.format)])
  <2> HIDE DEF o
  <2> QED
    BY <1>0, <1>3, UnreadRest
<1>5. /\ y \in Caller /\ y.job = x.job /\ y.arg = x.arg /\ y.at = x.at /\ y.conn = c
      /\ y.doing = x.doing /\ y.n = x.n /\ y.asked = x.asked /\ y.verdict = x.verdict
      /\ y.err = Reported(x, m)
  <2> HIDE DEF m, x
  <2> QED
    BY <1>0, <1>2, <1>4, HeardForm
<1>6. /\ l \in Connection /\ l.state = "open" /\ ~l.idle /\ l.bad = bad /\ l.tx = tx
  <2>1. bad \in BOOLEAN /\ tx \in TxStatus
    BY <1>2, <1>4 DEF Answers, Info, Msg, Connection
  <2> DEFINE k == conns[c]
  <2>2. k \in Connection /\ k.state = "open" /\ ~k.idle
    BY <1>2
  <2> HIDE DEF bad, tx, k
  <2>3. [k EXCEPT !.tx = tx, !.bad = bad] \in Connection
    BY <2>1, <2>2 DEF Connection
  <2> QED
    BY <2>1, <2>2, <2>3 DEF Connection, k
<1>7. /\ z \in Session /\ z.outbox = Tail(o) /\ z.inbox = <<>> /\ z.link = s.link
      /\ z.tx = s.tx /\ z.work = s.work
  <2> DEFINE p == Tail(o)
  <2>1. s \in Session /\ p \in Seq(Messages) /\ s.inbox = <<>>
    BY <1>2, <1>3, <1>4
  <2> HIDE DEF p, s
  <2>2. LET v == [s EXCEPT !.outbox = p]
        IN  /\ v \in Session /\ v.outbox = p /\ v.inbox = <<>> /\ v.link = s.link
            /\ v.tx = s.tx /\ v.work = s.work
    BY <2>1 DEF Session
  <2> QED
    BY <2>2 DEF p
<1>8. /\ conns' = [conns EXCEPT ![c].tx = IF m.k = "ready" THEN m.tx ELSE @,
                                ![c].bad = @ \/ m.k = "copy"]
      /\ server' = [server EXCEPT ![c].outbox = Tail(@)]
      /\ table' = table
      /\ IF EndsLoop(m)
         THEN /\ caller' = [caller EXCEPT ![r] = [y EXCEPT !.at = "returned"]]
              /\ UNCHANGED <<cancels, cuts>>
         ELSE Await(r, y)
  BY DEF Read, Heard
<1>9. conns' = [conns EXCEPT ![c] = l] /\ server' = [server EXCEPT ![c] = z]
  BY <1>2, <1>8 DEF PgWireInv, TypesOK
<1>10. /\ cancels' \subseteq Conns /\ cuts' \in 0..MaxCuts
       /\ \E w \in Caller :
             /\ caller' = [caller EXCEPT ![r] = w]
             /\ Alike(y, w) /\ w.doing = y.doing /\ w.err = y.err
             /\ w.at = (IF EndsLoop(m) THEN "returned" ELSE "reading")
  <2> HIDE DEF y, m
  <2>1. CASE EndsLoop(m)
    <3> DEFINE w == [y EXCEPT !.at = "returned"]
    <3>1. w \in Caller
      BY <1>5 DEF Caller
    <3>2. Alike(y, w) /\ w.doing = y.doing /\ w.err = y.err /\ w.at = "returned"
      BY <1>5 DEF Caller, Alike
    <3> QED
      BY <2>1, <3>1, <3>2, <1>2, <1>8
  <2>2. CASE ~EndsLoop(m)
    <3>1. Await(r, y) /\ y.conn \in Conns
      BY <2>2, <1>2, <1>5, <1>8
    <3> QED
      BY <2>2, <3>1, <1>5, Awaits
  <2> QED
    BY <2>1, <2>2
<1>11. PICK w \in Caller :
             /\ caller' = [caller EXCEPT ![r] = w]
             /\ Alike(y, w) /\ w.doing = y.doing /\ w.err = y.err
             /\ w.at = (IF EndsLoop(m) THEN "returned" ELSE "reading")
  BY <1>10
<1>12. JobOK(r, w, table) /\ CallOK(r, w, l, z, table)
  <2>1. l.bad = (conns[c].bad \/ m.k = "copy") /\ (m.k = "ready" => l.tx = m.tx)
    BY <1>6
  <2> HIDE DEF l, z, s, x
  <2> QED
    BY <1>0, <1>2, <1>3, <1>5, <1>6, <1>7, <1>11, <2>1, ReadCall
<1>13. /\ w.job = x.job /\ w.conn = c /\ w.asked = x.asked /\ w.n = x.n /\ w.doing = x.doing
       /\ w.at \in {"reading", "returned"}
  <2>1. Alike(y, w) /\ w.doing = y.doing
    BY <1>11
  <2>2. w.at \in {"reading", "returned"}
    BY <1>11
  <2> HIDE DEF y
  <2> QED
    BY <2>1, <2>2, <1>5 DEF Alike
<1> HIDE DEF y, l, z
<1>14. SessionOK(z, caller') /\ ConnectionOK(l, z)
  <2>1. SessionOK(s, caller')
    BY <1>2, <1>11, <1>13, SessionOfOthers DEF PgWireInv
  <2> QED
    BY <2>1, <1>6, <1>7 DEF SessionOK, ConnectionOK
<1>15. \A n \in {1, 2} : Fresh(w, n) => Fresh(x, n)
  BY <1>0, <1>13 DEF Fresh
<1>16. \A t \in Statements : Pending(z, t) => Pending(s, t)
  BY <1>3, <1>7 DEF Pending
<1>17. Moves(r, c, w, l, z)
  BY <1>2, <1>6, <1>8, <1>9, <1>10, <1>11, <1>12, <1>13, <1>14, <1>15, <1>16, NoConnIsNone
     DEF Moves
<1> QED
  BY <1>2, <1>6, <1>7, <1>11, <1>17, OneCall

-----------------------------------------------------------------------------
(* PgWireInv is inductive.                                                 *)
LEMMA PgWireInitInv == PgWireInit => PgWireInv
<1> SUFFICES ASSUME PgWireInit PROVE PgWireInv
  OBVIOUS
<1>1. PICK job \in [Callers -> Jobs], arg \in [Callers -> Args] :
         caller = [r \in Callers |-> NewCaller(job[r], arg[r])]
  BY DEF PgWireInit
<1>2. /\ NoConnection \in Connection /\ NoConnection.state = "none"
      /\ ~NoConnection.idle
  BY DEF NoConnection, Connection, TxStatus
<1>3. /\ NoSession \in Session /\ NoSession.tx = "I" /\ NoSession.work = {}
      /\ NoSession.inbox = <<>> /\ NoSession.outbox = <<>> /\ ~NoSession.link
  BY EmptySeq DEF NoSession, Session, TxStatus
<1>4. \A r \in Callers :
         LET x == caller[r]
         IN  /\ x \in Caller /\ x.at = "want" /\ x.conn = NoConn /\ x.n = 1 /\ x.rows = <<>>
             /\ x.verdict = "" /\ x.asked = FALSE
  <2> SUFFICES ASSUME NEW r \in Callers
               PROVE  LET x == NewCaller(job[r], arg[r])
                      IN  /\ x \in Caller /\ x.at = "want" /\ x.conn = NoConn /\ x.n = 1
                          /\ x.rows = <<>> /\ x.verdict = "" /\ x.asked = FALSE
    BY <1>1
  <2>1. job[r] \in Jobs /\ arg[r] \in Args /\ <<>> \in Seq(RowsOf) /\ "" \in Errs
    BY EmptySeq DEF Errs
  <2> QED
    BY <2>1 DEF NewCaller, Caller, Formats
<1>5. TypesOK
  <2>1. 0 \in 0..MaxCuts
    BY PgWireAssumption
  <2>2. caller \in [Callers -> Caller]
    BY <1>1, <1>4
  <2> QED
    BY <1>2, <1>3, <2>1, <2>2 DEF PgWireInit, TypesOK
<1>6. Owned
  BY <1>4 DEF Owned
<1>7. SessionsOK
  BY <1>2, <1>3 DEF SessionsOK, SessionOK, ConnectionOK, PgWireInit
<1>8. EffectsOK
  <2>1. \A c \in Conns, t \in Statements : ~Pending(server[c], t)
    BY <1>3 DEF Pending, PgWireInit
  <2>2. \A r \in Callers, n \in {1, 2} : <<r, n>> \in Statements /\ table[<<r, n>>] = 0
    BY DEF PgWireInit, Statements
  <2>3. table \in [Statements -> {0, 1}]
    BY DEF PgWireInit
  <2> QED
    BY <2>1, <2>2, <2>3 DEF EffectsOK
<1>9. CallsOK
  <2> SUFFICES ASSUME NEW r \in Callers
               PROVE  JobOK(r, caller[r], table) /\ caller[r].conn = NoConn
    BY DEF CallsOK
  <2>1. /\ caller[r].at = "want" /\ caller[r].conn = NoConn /\ caller[r].n = 1
        /\ caller[r].rows = <<>> /\ caller[r].verdict = ""
    BY <1>4
  <2>2. \A i \in 1..Len(caller[r].rows) : Own(r, caller[r], caller[r].rows[i])
    <3> DEFINE seen == caller[r].rows
    <3>1. seen = <<>>
      BY <2>1
    <3> HIDE DEF seen
    <3>2. Len(seen) = 0
      BY <3>1
    <3>3. 1..Len(seen) = {}
      BY <3>2
    <3> QED
      BY <3>3 DEF seen
  <2> QED
    BY <2>1, <2>2 DEF JobOK
<1> QED
  BY <1>5, <1>6, <1>7, <1>8, <1>9 DEF PgWireInv

LEMMA PgWireNextInv == PgWireInv /\ [PgWireNext]_wireVars => PgWireInv'
<1> SUFFICES ASSUME PgWireInv, [PgWireNext]_wireVars
             PROVE  PgWireInv'
  OBVIOUS
<1>1. CASE UNCHANGED wireVars
  BY <1>1 DEF wireVars, PgWireInv, TypesOK, Owned, SessionsOK, EffectsOK, CallsOK
<1>2. ASSUME NEW r \in Callers, DriverStep(r)
      PROVE  PgWireInv'
  BY <1>2, DialKeeps, StartupKeeps, StartupTimesOutKeeps, ConnectedKeeps, TakeIdleKeeps,
     TurnedAwayKeeps, ReadKeeps, ReadFailsKeeps, AfterResetKeeps, AfterPrepareKeeps,
     AfterRunKeeps, AfterCloseKeeps, AfterBeginKeeps, AfterStatementKeeps, AfterEndKeeps
     DEF DriverStep
<1>3. ASSUME NEW r \in Callers, DeadlinePasses(r)
      PROVE  PgWireInv'
  BY <1>3, DeadlinePassesKeeps
<1>4. ASSUME NEW c \in Conns,
             ServerAnswers(c) \/ SessionEnds(c) \/ Cut(c) \/ CancelArrives(c)
      PROVE  PgWireInv'
  BY <1>4, ServerAnswersKeeps, SessionEndsKeeps, CutKeeps, CancelArrivesKeeps
<1> QED
  BY <1>1, <1>2, <1>3, <1>4 DEF PgWireNext

(* The invariant of the wire client, for all values of the constants.      *)
THEOREM PgWireInvariant == PgWireSpec => []PgWireInv
BY PgWireInitInv, PgWireNextInv, PTL DEF PgWireSpec

(* Cardinalities of small sets.                                            *)
LEMMA AtMostOne ==
    ASSUME NEW S, IsFiniteSet(S), \A a, b \in S : a = b
    PROVE  Cardinality(S) <= 1
<1>1. CASE S = {}
  BY <1>1, FS_EmptySet
<1>2. CASE S # {}
  <2>1. PICK a \in S : TRUE
    BY <1>2
  <2>2. S = {a}
    BY <2>1
  <2> QED
    BY <2>2, FS_Singleton
<1> QED
  BY <1>1, <1>2

LEMMA AddTwo ==
    ASSUME NEW a, NEW b, a # b
    PROVE  Cardinality({a, b}) = 2
<1>1. IsFiniteSet({a}) /\ Cardinality({a}) = 1
  BY FS_Singleton
<1>2. Cardinality({a} \cup {b}) = 2
  BY <1>1, FS_AddElement
<1>3. {a, b} = {a} \cup {b}
  OBVIOUS
<1> QED
  BY <1>2, <1>3

(* What the invariant says of connections at rest.                         *)
LEMMA InvGivesPgWireTypes == PgWireInv => PgWireTypeOK
<1> SUFFICES ASSUME PgWireInv PROVE PgWireTypeOK
  OBVIOUS
<1>1. ASSUME NEW c \in Conns
      PROVE  /\ conns[c].state \in {"none", "open", "closed"}
             /\ conns[c].tx \in {"I", "T", "E"}
             /\ Cardinality({r \in Callers : caller[r].conn = c}) <= 1
             /\ conns[c].idle =>
                   /\ \A r \in Callers : caller[r].conn # c
                   /\ IsValid(c) /\ server[c].inbox = <<>> /\ server[c].outbox = <<>>
                   /\ server[c].link => conns[c].tx = server[c].tx
             /\ Len(server[c].inbox) <= 1
  <2>1. /\ conns[c] \in Connection /\ ConnectionOK(conns[c], server[c])
        /\ SessionOK(server[c], caller)
    BY DEF PgWireInv, TypesOK, SessionsOK
  <2>2. conns[c].state \in {"none", "open", "closed"} /\ conns[c].tx \in {"I", "T", "E"}
    BY <2>1 DEF Connection, TxStatus
  <2>3. Cardinality({r \in Callers : caller[r].conn = c}) <= 1
    <3> DEFINE S == {r \in Callers : caller[r].conn = c}
    <3>1. IsFiniteSet(S)
      BY PgWireAssumption, FS_Subset
    <3>2. \A a, b \in S : a = b
      BY NoConnIsNone DEF PgWireInv, Owned
    <3> HIDE DEF S
    <3>3. Cardinality(S) <= 1
      BY <3>1, <3>2, AtMostOne
    <3> QED
      BY <3>3 DEF S
  <2>4. conns[c].idle => \A r \in Callers : caller[r].conn # c
    BY NoConnIsNone DEF PgWireInv, Owned
  <2>5. conns[c].idle =>
           /\ IsValid(c) /\ server[c].inbox = <<>> /\ server[c].outbox = <<>>
           /\ server[c].link => conns[c].tx = server[c].tx
    BY <2>1 DEF ConnectionOK, IsValid
  <2> QED
    BY <2>1, <2>2, <2>3, <2>4, <2>5 DEF SessionOK
<1>2. \A r \in Callers : caller[r].verdict \in {"", "ok", "failed"}
  BY DEF PgWireInv, TypesOK, Caller
<1>3. cancels \subseteq Conns /\ table \in [Statements -> Nat] /\ cuts \in 0..MaxCuts
  BY DEF PgWireInv, TypesOK, EffectsOK
<1> QED
  BY <1>1, <1>2, <1>3 DEF PgWireTypeOK

\* A connection is one caller's or idle, and an idle one is in step with its
\* session with nothing left to read (the pool of database/sql, IsValid).
THEOREM PgWireTypes == PgWireSpec => []PgWireTypeOK
BY InvGivesPgWireTypes, PgWireInvariant, PTL

\* A call that succeeds returns the rows of its own statements and no others,
\* decoded to the value that was bound (drainUntilReady, collectResult,
\* bindExecute, decodeValue).
THEOREM AnswersAreTheirOwn == PgWireSpec => []AnswerIsItsOwn
<1>1. PgWireInv => AnswerIsItsOwn
  <2> SUFFICES ASSUME PgWireInv, NEW r \in Callers,
                      caller[r].at = "done", caller[r].verdict = "ok"
               PROVE  /\ \A i \in DOMAIN caller[r].rows :
                            /\ caller[r].rows[i].of \in StatementsOf(r)
                            /\ caller[r].job = "query" =>
                                  caller[r].rows[i].is = caller[r].arg.value.is
                      /\ caller[r].job # "copy" =>
                            Len(caller[r].rows) = Cardinality(StatementsOf(r))
    BY DEF AnswerIsItsOwn
  <2> DEFINE x == caller[r]
  <2>1. JobOK(r, x, table) /\ x \in Caller
    BY DEF PgWireInv, CallsOK, TypesOK
  <2>2. \A i \in DOMAIN x.rows : i \in 1..Len(x.rows)
    <3>1. x.rows \in Seq(RowsOf)
      BY <2>1 DEF Caller
    <3> QED
      BY <3>1, LenProperties
  <2>3. \A i \in DOMAIN x.rows : Own(r, x, x.rows[i])
    BY <2>1, <2>2 DEF JobOK
  <2>4. Counted(r, x, table)
    BY <2>1 DEF JobOK
  <2>5. CASE x.job = "tx"
    <3>1. StatementsOf(r) = {<<r, 1>>, <<r, 2>>} /\ <<r, 1>> # <<r, 2>>
      BY <2>5 DEF StatementsOf
    <3>2. Cardinality({<<r, 1>>, <<r, 2>>}) = 2
      <4> DEFINE a == <<r, 1>>
                 b == <<r, 2>>
      <4>1. a # b
        OBVIOUS
      <4> HIDE DEF a, b
      <4>2. Cardinality({a, b}) = 2
        BY <4>1, AddTwo
      <4> QED
        BY <4>2 DEF a, b
    <3>3. Len(x.rows) = 2
      BY <2>4, <2>5 DEF Counted
    <3> QED
      BY <2>3, <2>5, <3>1, <3>2, <3>3 DEF Own
  <2>6. CASE x.job # "tx"
    <3>1. StatementsOf(r) = {<<r, 1>>}
      BY <2>6 DEF StatementsOf
    <3>2. Cardinality({<<r, 1>>}) = 1
      BY FS_Singleton
    <3>3. Len(x.rows) = 1
      BY <2>4, <2>6 DEF Counted
    <3> QED
      BY <2>3, <2>6, <3>1, <3>2, <3>3 DEF Own
  <2> QED
    BY <2>5, <2>6
<1> QED
  BY <1>1, PgWireInvariant, PTL

\* A call reported to have succeeded took effect for good, once and with all
\* its statements; a transaction that never came to its COMMIT left nothing
\* behind, and nothing takes effect twice (Commit, ResetSession, ReadFailure).
THEOREM EffectsAreAsReported == PgWireSpec => []EffectsAsReported
<1>1. PgWireInv => EffectsAsReported
  <2> SUFFICES ASSUME PgWireInv, NEW r \in Callers
               PROVE  LET effects == {table[s] : s \in StatementsOf(r)}
                      IN  /\ caller[r].verdict = "ok" /\ caller[r].at = "done" => effects = {1}
                          /\ effects \subseteq {0, 1}
                          /\ caller[r].job = "tx" =>
                                /\ Cardinality(effects) = 1
                                /\ ~caller[r].asked => effects = {0}
    BY DEF EffectsAsReported
  <2> DEFINE x == caller[r]
             effects == {table[s] : s \in StatementsOf(r)}
  <2>1. /\ table[<<r, 1>>] \in {0, 1} /\ table[<<r, 2>>] \in {0, 1}
        /\ x.job = "tx" => /\ table[<<r, 1>>] = table[<<r, 2>>]
                           /\ ~x.asked => table[<<r, 1>>] = 0
    BY DEF PgWireInv, EffectsOK, Statements
  <2>2. effects = {table[<<r, 1>>]}
    <3>1. CASE x.job = "tx"
      <4>1. effects = {table[<<r, 1>>], table[<<r, 2>>]}
        BY <3>1 DEF StatementsOf
      <4> QED
        BY <2>1, <3>1, <4>1
    <3>2. CASE x.job # "tx"
      BY <3>2 DEF StatementsOf
    <3> QED
      BY <3>1, <3>2
  <2>3. x.verdict = "ok" => table[<<r, 1>>] = 1
    BY DEF PgWireInv, CallsOK, JobOK, Counted
  <2>4. Cardinality({table[<<r, 1>>]}) = 1
    BY FS_Singleton
  <2> HIDE DEF effects
  <2>5. /\ x.verdict = "ok" /\ x.at = "done" => effects = {1}
        /\ effects \subseteq {0, 1}
        /\ x.job = "tx" => Cardinality(effects) = 1 /\ (~x.asked => effects = {0})
    BY <2>1, <2>2, <2>3, <2>4
  <2> QED
    BY <2>5 DEF effects
<1> QED
  BY <1>1, PgWireInvariant, PTL

(***************************************************************************)
(* SignIn.  That a link has effect once is not inductive: it needs that a  *)
(* link which is live, or not yet issued, has not been accepted, and so    *)
(* the shape of the rows and of what a handler carries from one statement  *)
(* to the next.                                                            *)
(***************************************************************************)
Purposes == {"none", "verify_email", "reset_password"}

Places == {"idle", "retire", "issue", "set", "record", "read", "verify", "rehash",
           "session", "clear", "consent", "trial", "change", "done"}

UserRow == [exists: BOOLEAN, verified: BOOLEAN, active: BOOLEAN,
            pw: Passwords \cup {"none"}, legacy: BOOLEAN]

Handler == [at: Places, typed: Passwords \cup {"none"}, row: UserRow, seen: Nat,
            purpose: Purposes, session: SignIns \cup {"none"}]

(* The shape of the rows, and of what the handlers carry.                  *)
RowsOK ==
    /\ user \in UserRow /\ identity \in BOOLEAN /\ sources \in BOOLEAN
    /\ sessions \in [SignIns -> {"none", "live", "expired"}]
    /\ attempts \in Nat /\ faults \in 0..MaxFaults

HandsOK ==
    /\ hand \in [SignIns -> Handler]
    /\ resets \in Nat /\ knew \in [SignIns -> Nat]

(* What was accepted is neither live nor still to be issued.               *)
LinksOK ==
    /\ links \in [Links -> [purpose: Purposes, live: BOOLEAN]]
    /\ accepted \in [Links -> 0..1]
    /\ trials \in 0..1
    /\ \A l \in Links :
          links[l].live \/ links[l].purpose = "none" => accepted[l] = 0

SignInInv == RowsOK /\ HandsOK /\ LinksOK

-----------------------------------------------------------------------------
(* The row of no user, and a handler that waits, have the shape.           *)
LEMMA WaitingHasShape == NoUser \in UserRow /\ Waiting \in Handler
<1>1. NoUser \in UserRow
  BY DEF NoUser, UserRow
<1> QED
  BY <1>1 DEF Waiting, Handler, Places, Purposes

(* A handler that moves to another statement keeps its shape (Goes).       *)
LEMMA GoesKeepsShape ==
    ASSUME HandsOK, NEW q \in SignIns, NEW label \in Places, Goes(q, label)
    PROVE  hand' \in [SignIns -> Handler]
<1>1. Waiting \in Handler
  BY WaitingHasShape
<1>2. [Waiting EXCEPT !.at = label] \in Handler
  BY <1>1 DEF Handler
<1>3. [hand[q] EXCEPT !.at = label] \in Handler
  BY DEF HandsOK, Handler
<1> QED
  BY <1>2, <1>3 DEF HandsOK, Goes

(* A link is accepted while it is live, and is not live afterwards: once   *)
(* for every link (ConsumeEmailToken).                                     *)
LEMMA ConsumeIsOnce ==
    ASSUME LinksOK, NEW l \in Links, NEW p \in Purposes \ {"none"},
           ConsumeEmailToken(l, p), trials' \in 0..1
    PROVE  LinksOK'
<1>1. links[l].live /\ links[l].purpose = p
  BY DEF ConsumeEmailToken, LiveLinks, LinksOK
<1>2. accepted[l] = 0
  BY <1>1 DEF LinksOK
<1>3. accepted' \in [Links -> 0..1]
  BY <1>2 DEF ConsumeEmailToken, LinksOK
<1>4. links' \in [Links -> [purpose: Purposes, live: BOOLEAN]]
  BY DEF ConsumeEmailToken, LinksOK
<1>5. ASSUME NEW m \in Links, links'[m].live \/ links'[m].purpose = "none"
      PROVE  accepted'[m] = 0
  <2>1. links'[l].live = FALSE /\ links'[l].purpose = p
    BY <1>1 DEF ConsumeEmailToken, LinksOK
  <2>2. m # l
    BY <1>5, <2>1
  <2>3. links'[m] = links[m] /\ accepted'[m] = accepted[m]
    BY <2>2 DEF ConsumeEmailToken
  <2> QED
    BY <1>5, <2>3 DEF LinksOK
<1> QED
  BY <1>3, <1>4, <1>5 DEF LinksOK

(* The grant is made at most once (trial_grants and its two unique keys).  *)
LEMMA TrialIsOnce ==
    ASSUME LinksOK, RowsOK, GrantedTrial
    PROVE  trials' \in 0..1 /\ sources' \in BOOLEAN
<1>1. (trials' = 1 \/ trials' = trials) /\ (sources' = TRUE \/ sources' = sources)
  BY DEF GrantedTrial
<1>2. trials' \in 0..1
  BY <1>1 DEF LinksOK
<1>3. sources' \in BOOLEAN
  BY <1>1 DEF RowsOK
<1> QED
  BY <1>2, <1>3

(* A stored password leaves rows of the same shape (UpdatePasswordHash).   *)
LEMMA PasswordKeepsShape ==
    ASSUME RowsOK, NEW pw \in Passwords \cup {"none"}, NEW kept,
           UpdatePasswordHash(pw, kept)
    PROVE  /\ user' \in UserRow
           /\ sessions' \in [SignIns -> {"none", "live", "expired"}]
  BY DEF RowsOK, UserRow, UpdatePasswordHash

-----------------------------------------------------------------------------
(* The invariant holds of the initial states.                              *)
LEMMA SignInInvInit == SignInInit => SignInInv
<1> SUFFICES ASSUME SignInInit PROVE SignInInv
  OBVIOUS
<1>1. RowsOK
  <2>1. user \in UserRow
    <3>1. CASE user = NoUser
      BY <3>1, WaitingHasShape
    <3>2. CASE user # NoUser
      <4>1. PICK pw \in Passwords :
              user = [exists |-> TRUE, verified |-> TRUE, active |-> TRUE,
                      pw |-> pw, legacy |-> TRUE]
        BY <3>2 DEF SignInInit
      <4> QED
        BY <4>1 DEF UserRow
    <3> QED
      BY <3>1, <3>2
  <2>2. identity \in BOOLEAN /\ sources \in BOOLEAN
    BY DEF SignInInit
  <2>3. attempts \in Nat /\ faults \in 0..MaxFaults
    BY SignInAssumption DEF SignInInit
  <2>4. sessions \in [SignIns -> {"none", "live", "expired"}]
    BY DEF SignInInit
  <2> QED
    BY <2>1, <2>2, <2>3, <2>4 DEF RowsOK
<1>3. HandsOK
  BY WaitingHasShape DEF SignInInit, HandsOK
<1>4. LinksOK
  BY DEF SignInInit, LinksOK, Purposes
<1> QED
  BY <1>1, <1>3, <1>4 DEF SignInInv

(* ... and every step keeps it.                                            *)
LEMMA SignInInvNext == SignInInv /\ [SignInNext]_signInVars => SignInInv'
<1> SUFFICES ASSUME SignInInv, [SignInNext]_signInVars PROVE SignInInv'
  OBVIOUS
<1> USE SignInAssumption DEF SignInInv
<1>0. NoUser \in UserRow /\ Waiting \in Handler
  BY WaitingHasShape
<1>1. ASSUME NEW q \in SignIns, HandleRegister(q)
      PROVE  SignInInv'
  <2>1. RowsOK'
    <3>1. ASSUME NEW pw \in Passwords
          PROVE  [NoUser EXCEPT !.exists = TRUE, !.pw = pw] \in UserRow
      BY <1>0 DEF UserRow
    <3>2. user' \in UserRow
      BY <1>1, <3>1 DEF HandleRegister, RowsOK
    <3> QED
      BY <1>1, <3>2 DEF HandleRegister, RowsOK
  <2>2. HandsOK'
    BY <1>1 DEF HandleRegister, HandsOK, history, Handler, Places
  <2>3. LinksOK'
    BY <1>1 DEF HandleRegister, LinksOK, history
  <2> QED
    BY <2>1, <2>2, <2>3
<1>2. ASSUME NEW q \in SignIns, AskForLink(q)
      PROVE  SignInInv'
  <2>1. RowsOK'
    BY <1>2 DEF AskForLink, RowsOK, rows
  <2>2. HandsOK'
    BY <1>2 DEF AskForLink, HandsOK, history, Handler, Places
  <2>3. LinksOK'
    BY <1>2 DEF AskForLink, LinksOK, rows, history
  <2> QED
    BY <2>1, <2>2, <2>3
<1>3. ASSUME NEW q \in SignIns, InvalidateEmailTokens(q)
      PROVE  SignInInv'
  <2>1. RowsOK'
    BY <1>3 DEF InvalidateEmailTokens, RowsOK, rows, Fault
  <2>2. HandsOK'
    <3>1. Goes(q, "issue")
      BY <1>3 DEF InvalidateEmailTokens
    <3>2. hand' \in [SignIns -> Handler]
      BY <3>1, GoesKeepsShape DEF Places
    <3> QED
      BY <1>3, <3>2 DEF InvalidateEmailTokens, HandsOK, history
  <2>3. LinksOK'
    BY <1>3 DEF InvalidateEmailTokens, LinksOK, rows, history, Fault, LiveLinks
  <2> QED
    BY <2>1, <2>2, <2>3
<1>4. ASSUME NEW q \in SignIns, CreateEmailToken(q)
      PROVE  SignInInv'
  <2>1. RowsOK'
    BY <1>4 DEF CreateEmailToken, RowsOK, rows, Fault
  <2>2. HandsOK'
    <3>1. Goes(q, "done")
      BY <1>4 DEF CreateEmailToken
    <3>2. hand' \in [SignIns -> Handler]
      BY <3>1, GoesKeepsShape DEF Places
    <3> QED
      BY <1>4, <3>2 DEF CreateEmailToken, HandsOK, history
  <2>3. LinksOK'
    <3>1. hand[q].purpose \in Purposes
      BY DEF HandsOK, Handler
    <3>2. accepted' = accepted /\ trials' = trials
      BY <1>4 DEF CreateEmailToken, rows, history
    <3>3. CASE UNCHANGED links
      BY <3>2, <3>3 DEF LinksOK
    <3>4. ASSUME NEW l \in Links, links[l].purpose = "none",
                 links' = [links EXCEPT ![l] = [purpose |-> hand[q].purpose, live |-> TRUE]]
          PROVE  LinksOK'
      <4>1. accepted[l] = 0
        BY <3>4 DEF LinksOK
      <4>2. links' \in [Links -> [purpose: Purposes, live: BOOLEAN]]
        BY <3>1, <3>4 DEF LinksOK
      <4>3. \A m \in Links : m # l => links'[m] = links[m]
        BY <3>4 DEF LinksOK
      <4> QED
        BY <3>2, <4>1, <4>2, <4>3 DEF LinksOK
    <3> QED
      BY <1>4, <3>3, <3>4 DEF CreateEmailToken
  <2> QED
    BY <2>1, <2>2, <2>3
<1>5. ASSUME NEW q \in SignIns, VerifyEmailAndGrantTrial(q)
      PROVE  SignInInv'
  <2>1. RowsOK'
    BY <1>5, TrialIsOnce DEF VerifyEmailAndGrantTrial, RowsOK, UserRow
  <2>2. HandsOK'
    <3>1. Goes(q, "done")
      BY <1>5 DEF VerifyEmailAndGrantTrial
    <3>2. hand' \in [SignIns -> Handler]
      BY <3>1, GoesKeepsShape DEF Places
    <3> QED
      BY <1>5, <3>2 DEF VerifyEmailAndGrantTrial, HandsOK
  <2>3. LinksOK'
    <3>1. PICK l \in Links : ConsumeEmailToken(l, "verify_email")
      BY <1>5 DEF VerifyEmailAndGrantTrial
    <3>2. trials' \in 0..1
      BY TrialIsOnce, <1>5 DEF VerifyEmailAndGrantTrial
    <3>3. "verify_email" \in Purposes \ {"none"}
      BY DEF Purposes
    <3> QED
      BY <3>1, <3>2, <3>3, ConsumeIsOnce
  <2> QED
    BY <2>1, <2>2, <2>3
<1>6. ASSUME NEW q \in SignIns, ResetConsumes(q)
      PROVE  SignInInv'
  <2>1. RowsOK'
    BY <1>6 DEF ResetConsumes, RowsOK, rows
  <2>2. HandsOK'
    <3>1. PICK pw \in Passwords :
            hand' = [hand EXCEPT ![q].at = "set", ![q].typed = pw]
      BY <1>6 DEF ResetConsumes
    <3>2. [hand[q] EXCEPT !.at = "set", !.typed = pw] \in Handler
      BY <1>0 DEF HandsOK, Handler, Places
    <3>3. hand' \in [SignIns -> Handler]
      BY <3>1, <3>2 DEF HandsOK
    <3> QED
      BY <1>6, <3>3 DEF ResetConsumes, HandsOK
  <2>3. LinksOK'
    <3>1. PICK l \in Links : ConsumeEmailToken(l, "reset_password")
      BY <1>6 DEF ResetConsumes
    <3>2. trials' \in 0..1
      BY <1>6 DEF ResetConsumes, LinksOK, rows
    <3>3. "reset_password" \in Purposes \ {"none"}
      BY DEF Purposes
    <3> QED
      BY <3>1, <3>2, <3>3, ConsumeIsOnce
  <2> QED
    BY <2>1, <2>2, <2>3
<1>7. ASSUME NEW q \in SignIns, ResetSets(q)
      PROVE  SignInInv'
  <2>1. RowsOK'
    <3>1. hand[q].typed \in Passwords \cup {"none"}
      BY DEF HandsOK, Handler
    <3>2. /\ user' \in UserRow
          /\ sessions' \in [SignIns -> {"none", "live", "expired"}]
      BY <1>7, <3>1, PasswordKeepsShape DEF ResetSets, RowsOK
    <3> QED
      BY <1>7, <3>2 DEF ResetSets, RowsOK, Fault
  <2>2. HandsOK'
    <3>1. Goes(q, "done")
      BY <1>7 DEF ResetSets
    <3>2. hand' \in [SignIns -> Handler]
      BY <3>1, GoesKeepsShape DEF Places
    <3> QED
      BY <1>7, <3>2 DEF ResetSets, HandsOK
  <2>3. LinksOK'
    BY <1>7 DEF ResetSets, LinksOK
  <2> QED
    BY <2>1, <2>2, <2>3
<1>8. ASSUME NEW q \in SignIns, CountAuthAttempts(q)
      PROVE  SignInInv'
  <2>1. RowsOK'
    BY <1>8 DEF CountAuthAttempts, RowsOK, rows, Fault
  <2>2. HandsOK'
    <3>1. \E label \in Places : Goes(q, label)
      BY <1>8 DEF CountAuthAttempts, Places
    <3>2. hand' \in [SignIns -> Handler]
      BY <3>1, GoesKeepsShape DEF Places
    <3> QED
      BY <1>8, <3>2 DEF CountAuthAttempts, HandsOK, history
  <2>3. LinksOK'
    BY <1>8 DEF CountAuthAttempts, LinksOK, rows, history
  <2> QED
    BY <2>1, <2>2, <2>3
<1>22. ASSUME NEW q \in SignIns, RecordAuthAttempt(q)
      PROVE  SignInInv'
  <2>1. RowsOK'
    BY <1>22 DEF RecordAuthAttempt, RowsOK, rows, Fault
  <2>2. HandsOK'
    <3>1. Goes(q, "read")
      BY <1>22 DEF RecordAuthAttempt, Places
    <3>2. hand' \in [SignIns -> Handler]
      BY <3>1, GoesKeepsShape DEF Places
    <3> QED
      BY <1>22, <3>2 DEF RecordAuthAttempt, HandsOK, history
  <2>3. LinksOK'
    BY <1>22 DEF RecordAuthAttempt, LinksOK, rows, history
  <2> QED
    BY <2>1, <2>2, <2>3
<1>23. ASSUME NEW q \in SignIns, GetUserByEmail(q)
      PROVE  SignInInv'
  <2>1. RowsOK'
    <3>1. UNCHANGED <<rows, sessions, attempts>> /\ faults' \in 0..MaxFaults
      BY <1>23 DEF GetUserByEmail, RowsOK, Fault
    <3> QED
      BY <3>1 DEF RowsOK, rows
  <2>2. HandsOK'
    <3>1. ASSUME NEW pw \in Passwords
          PROVE  [Waiting EXCEPT !.at = "verify", !.typed = pw, !.row = user,
                                 !.seen = resets] \in Handler
      BY <1>0 DEF HandsOK, RowsOK, Handler, Places
    <3>2. ASSUME Goes(q, "done") PROVE hand' \in [SignIns -> Handler]
      BY <3>2, GoesKeepsShape DEF Places
    <3>3. ASSUME CarriesRow(q) PROVE hand' \in [SignIns -> Handler]
      <4>1. PICK pw \in Passwords :
              hand' = [hand EXCEPT ![q] = [Waiting EXCEPT !.at = "verify", !.typed = pw,
                                                          !.row = user, !.seen = resets]]
        BY <3>3 DEF CarriesRow
      <4>2. hand \in [SignIns -> Handler]
        BY DEF HandsOK
      <4> DEFINE h == [Waiting EXCEPT !.at = "verify", !.typed = pw, !.row = user,
                                      !.seen = resets]
      <4>3. h \in Handler
        BY <3>1
      <4>4. hand' = [hand EXCEPT ![q] = h]
        BY <4>1
      <4> HIDE DEF h
      <4> QED
        BY <4>2, <4>3, <4>4
    <3>4. CarriesRow(q) \/ Goes(q, "done")
      BY <1>23 DEF GetUserByEmail
    <3>5. hand' \in [SignIns -> Handler]
      BY <3>2, <3>3, <3>4
    <3> QED
      BY <1>23, <3>5 DEF GetUserByEmail, HandsOK, history
  <2>3. LinksOK'
    BY <1>23 DEF GetUserByEmail, LinksOK, rows, history
  <2> QED
    BY <2>1, <2>2, <2>3
<1>24. ASSUME NEW q \in SignIns, ClearAuthAttempts(q)
      PROVE  SignInInv'
  <2>1. RowsOK'
    BY <1>24 DEF ClearAuthAttempts, RowsOK, rows, Fault
  <2>2. HandsOK'
    <3>1. Goes(q, "done")
      BY <1>24 DEF ClearAuthAttempts, Places
    <3>2. hand' \in [SignIns -> Handler]
      BY <3>1, GoesKeepsShape DEF Places
    <3> QED
      BY <1>24, <3>2 DEF ClearAuthAttempts, HandsOK, history
  <2>3. LinksOK'
    BY <1>24 DEF ClearAuthAttempts, LinksOK, rows, history
  <2> QED
    BY <2>1, <2>2, <2>3
<1>9. ASSUME NEW q \in SignIns, LoginVerifies(q)
      PROVE  SignInInv'
  <2>1. RowsOK'
    BY <1>9 DEF LoginVerifies, RowsOK, rows
  <2>2. HandsOK'
    <3>1. \E label \in Places : Goes(q, label)
      BY <1>9 DEF LoginVerifies, Places
    <3>2. hand' \in [SignIns -> Handler]
      BY <3>1, GoesKeepsShape DEF Places
    <3> QED
      BY <1>9, <3>2 DEF LoginVerifies, HandsOK, history
  <2>3. LinksOK'
    BY <1>9 DEF LoginVerifies, LinksOK, rows, history
  <2> QED
    BY <2>1, <2>2, <2>3
<1>10. ASSUME NEW q \in SignIns, Rehash(q)
      PROVE  SignInInv'
  <2>1. RowsOK'
    <3>1. hand[q].typed \in Passwords \cup {"none"}
      BY DEF HandsOK, Handler
    <3>2. /\ user' \in UserRow
          /\ sessions' \in [SignIns -> {"none", "live", "expired"}]
      BY <1>10, <3>1, PasswordKeepsShape DEF Rehash, RowsOK
    <3> QED
      BY <1>10, <3>2 DEF Rehash, RowsOK, Fault
  <2>2. HandsOK'
    <3>1. Goes(q, "session")
      BY <1>10 DEF Rehash
    <3>2. hand' \in [SignIns -> Handler]
      BY <3>1, GoesKeepsShape DEF Places
    <3> QED
      BY <1>10, <3>2 DEF Rehash, HandsOK, history
  <2>3. LinksOK'
    BY <1>10 DEF Rehash, LinksOK, history
  <2> QED
    BY <2>1, <2>2, <2>3
<1>11. ASSUME NEW q \in SignIns, CreateSession(q)
      PROVE  SignInInv'
  <2>1. RowsOK'
    BY <1>11 DEF CreateSession, RowsOK, rows, Fault
  <2>2. HandsOK'
    <3>1. \E label \in Places : Goes(q, label)
      BY <1>11 DEF CreateSession, Places
    <3>2. hand' \in [SignIns -> Handler]
      BY <3>1, GoesKeepsShape DEF Places
    <3> QED
      BY <1>11, <3>2 DEF CreateSession, HandsOK, Handler
  <2>3. LinksOK'
    BY <1>11 DEF CreateSession, LinksOK, rows
  <2> QED
    BY <2>1, <2>2, <2>3
<1>12. ASSUME NEW q \in SignIns, HandleGoogleStart(q)
      PROVE  SignInInv'
  <2>1. RowsOK'
    BY <1>12 DEF HandleGoogleStart, RowsOK, rows
  <2>2. HandsOK'
    <3>1. Goes(q, "consent")
      BY <1>12 DEF HandleGoogleStart
    <3>2. hand' \in [SignIns -> Handler]
      BY <3>1, GoesKeepsShape DEF Places
    <3> QED
      BY <1>12, <3>2 DEF HandleGoogleStart, HandsOK, history
  <2>3. LinksOK'
    BY <1>12 DEF HandleGoogleStart, LinksOK, rows, history
  <2> QED
    BY <2>1, <2>2, <2>3
<1>13. ASSUME NEW q \in SignIns, FindOrCreateOAuthUser(q)
      PROVE  SignInInv'
  <2>1. RowsOK'
    BY <1>13, <1>0 DEF FindOrCreateOAuthUser, RowsOK, UserRow
  <2>2. HandsOK'
    <3>1. NoUser \in UserRow /\ user' \in UserRow
      BY <1>0, <2>1 DEF RowsOK
    <3>2. CASE Goes(q, "done")
      BY <1>13, <3>2, GoesKeepsShape DEF Places, FindOrCreateOAuthUser, HandsOK, history
    <3>3. CASE ~Goes(q, "done")
      BY <1>13, <3>1, <3>3 DEF FindOrCreateOAuthUser, HandsOK, Handler, Places, history
    <3> QED
      BY <3>2, <3>3
  <2>3. LinksOK'
    BY <1>13 DEF FindOrCreateOAuthUser, LinksOK, rows, history
  <2> QED
    BY <2>1, <2>2, <2>3
<1>14. ASSUME NEW q \in SignIns, GrantTrialForUser(q)
      PROVE  SignInInv'
  <2>1. RowsOK'
    BY <1>14, TrialIsOnce DEF GrantTrialForUser, RowsOK, rows, history, Fault
  <2>2. HandsOK'
    <3>1. Goes(q, "session") \/ Goes(q, "done")
      BY <1>14 DEF GrantTrialForUser
    <3>2. hand' \in [SignIns -> Handler]
      BY <3>1, GoesKeepsShape DEF Places
    <3> QED
      BY <1>14, <3>2 DEF GrantTrialForUser, HandsOK, rows, history
  <2>3. LinksOK'
    BY <1>14, TrialIsOnce DEF GrantTrialForUser, LinksOK, rows, history
  <2> QED
    BY <2>1, <2>2, <2>3
<1>15. ASSUME NEW q \in SignIns, ChangeAuthenticates(q)
      PROVE  SignInInv'
  <2>1. RowsOK'
    BY <1>15 DEF ChangeAuthenticates, RowsOK, rows, history
  <2>2. HandsOK'
    <3>1. PICK s \in SignIns, pw \in Passwords :
            hand' = [hand EXCEPT ![q] = [Waiting EXCEPT !.at = "change", !.typed = pw,
                                 !.row = user, !.session = s]]
      BY <1>15 DEF ChangeAuthenticates
    <3>2. [Waiting EXCEPT !.at = "change", !.typed = pw,
                          !.row = user, !.session = s] \in Handler
      BY <1>0 DEF HandsOK, Handler, Places, RowsOK
    <3>3. hand' \in [SignIns -> Handler]
      BY <3>1, <3>2 DEF HandsOK
    <3> QED
      BY <1>15, <3>3 DEF ChangeAuthenticates, HandsOK, history
  <2>3. LinksOK'
    BY <1>15 DEF ChangeAuthenticates, LinksOK, rows, history
  <2> QED
    BY <2>1, <2>2, <2>3
<1>16. ASSUME NEW q \in SignIns, ChangePassword(q)
      PROVE  SignInInv'
  <2>1. RowsOK'
    <3>1. hand[q].typed \in Passwords \cup {"none"}
      BY DEF HandsOK, Handler
    <3>2. /\ user' \in UserRow
          /\ sessions' \in [SignIns -> {"none", "live", "expired"}]
      BY <1>16, <3>1, PasswordKeepsShape DEF ChangePassword, RowsOK
    <3> QED
      BY <1>16, <3>2 DEF ChangePassword, RowsOK, UpdatePasswordHash, Fault
  <2>2. HandsOK'
    <3>1. Goes(q, "done")
      BY <1>16 DEF ChangePassword
    <3>2. hand' \in [SignIns -> Handler]
      BY <3>1, GoesKeepsShape DEF Places
    <3> QED
      BY <1>16, <3>2 DEF ChangePassword, HandsOK, rows, history, Handler, UpdatePasswordHash
  <2>3. LinksOK'
    BY <1>16 DEF ChangePassword, LinksOK, rows, history, UpdatePasswordHash
  <2> QED
    BY <2>1, <2>2, <2>3
<1>17. ASSUME NEW q \in SignIns, HandleLogout(q)
      PROVE  SignInInv'
  <2>1. RowsOK'
    BY <1>17 DEF HandleLogout, RowsOK, rows, history
  <2>2. HandsOK'
    <3>1. Goes(q, "done")
      BY <1>17 DEF HandleLogout
    <3>2. hand' \in [SignIns -> Handler]
      BY <3>1, GoesKeepsShape DEF Places
    <3> QED
      BY <1>17, <3>2 DEF HandleLogout, HandsOK, rows, history
  <2>3. LinksOK'
    BY <1>17 DEF HandleLogout, LinksOK, rows, history
  <2> QED
    BY <2>1, <2>2, <2>3
<1>18. ASSUME SetUserStatus
      PROVE  SignInInv'
  <2>1. RowsOK'
    <3>1. user' \in UserRow
      BY <1>18 DEF SetUserStatus, RowsOK, UserRow
    <3>2. sessions' \in [SignIns -> {"none", "live", "expired"}]
      BY <1>18 DEF SetUserStatus, RowsOK
    <3>3. faults' \in 0..MaxFaults
      BY <1>18 DEF SetUserStatus, RowsOK, Fault
    <3> QED
      BY <1>18, <3>1, <3>2, <3>3 DEF SetUserStatus, RowsOK
  <2>2. HandsOK'
    BY <1>18 DEF SetUserStatus, HandsOK, rows, history
  <2>3. LinksOK'
    BY <1>18 DEF SetUserStatus, LinksOK, rows, history
  <2> QED
    BY <2>1, <2>2, <2>3
<1>19. ASSUME TimePasses
      PROVE  SignInInv'
  <2>1. RowsOK'
    BY <1>19 DEF TimePasses, RowsOK, rows, history, Fault
  <2>2. HandsOK'
    BY <1>19 DEF TimePasses, HandsOK, rows, history
  <2>3. LinksOK'
    BY <1>19 DEF TimePasses, LinksOK, rows, history, Fault
  <2> QED
    BY <2>1, <2>2, <2>3
<1>20. ASSUME PruneSessions
      PROVE  SignInInv'
  <2>1. RowsOK'
    BY <1>20 DEF PruneSessions, RowsOK, rows, history
  <2>2. HandsOK'
    BY <1>20 DEF PruneSessions, HandsOK, rows, history
  <2>3. LinksOK'
    BY <1>20 DEF PruneSessions, LinksOK, rows, history
  <2> QED
    BY <2>1, <2>2, <2>3
<1>21. CASE UNCHANGED signInVars
  BY <1>21 DEF signInVars, RowsOK, HandsOK, LinksOK
<1> QED
  BY <1>1, <1>2, <1>3, <1>4, <1>5, <1>6, <1>7, <1>8, <1>9, <1>10,
     <1>11, <1>12, <1>13, <1>14, <1>15, <1>16, <1>17, <1>18, <1>19, <1>20, <1>21,
     <1>22, <1>23, <1>24 DEF SignInNext

-----------------------------------------------------------------------------
(* The invariant in every reachable state.                                 *)
LEMMA SignInInvariant == SignInSpec => []SignInInv
<1>1. SignInInit => SignInInv
  BY SignInInvInit
<1>2. SignInInv /\ [SignInNext]_signInVars => SignInInv'
  BY SignInInvNext
<1> QED
  BY <1>1, <1>2, PTL DEF SignInSpec

(* The invariant of SignIn gives the shape of its rows.                    *)
LEMMA InvGivesSignInTypes == SignInInv => SignInTypeOK
BY DEF SignInInv, RowsOK, LinksOK, SignInTypeOK, UserRow, Purposes

(* The types of the rows, for any number of requests and links.            *)
THEOREM SignInTypes == SignInSpec => []SignInTypeOK
BY InvGivesSignInTypes, SignInInvariant, PTL

(* A mailed link takes effect once and one trial is granted, however many  *)
(* requests open links, verify, reset, register and sign in at once        *)
(* (ConsumeEmailToken, VerifyEmailAndGrantTrial, GrantTrialForUser).       *)
THEOREM LinksSpentOnce == SignInSpec => []LinksAreSingleUse
<1>1. SignInInv => LinksAreSingleUse
  BY DEF SignInInv, LinksOK, LinksAreSingleUse
<1> QED
  BY <1>1, SignInInvariant, PTL

-----------------------------------------------------------------------------
(***************************************************************************)
(* Reprice, for every number of requests, every amount and every pair of   *)
(* prices.  After the migration the grants may hold less than the          *)
(* promotional column, so GrantsBackPromo is lost and with it the wallet's *)
(* own invariant.  What remains is WalletSound, which every transaction    *)
(* keeps without changing what is missing (SoundStep); here it is shown    *)
(* that the migration keeps it too and that it misses at most one micro.   *)
(***************************************************************************)
(* Floors. *)

\* x \div d is the number of times d fits in x.
LEMMA Quotient ==
    ASSUME NEW x \in Nat, NEW d \in Nat \ {0}
    PROVE  /\ x \div d \in Nat
           /\ d * (x \div d) <= x
           /\ x < d * (x \div d) + d
BY SMTT(30)

LEMMA CancelFactor ==
    ASSUME NEW d \in Nat \ {0}, NEW a \in Int, NEW b \in Int, d * a < d * b
    PROVE  a < b
<1> SUFFICES ASSUME b <= a
             PROVE  FALSE
  OBVIOUS
<1>1. d * (a - b) >= 0
  BY SMTT(30)
<1>2. d * (a - b) = d * a - d * b
  BY SMTT(30)
<1>3. d * a \in Int /\ d * b \in Int
  OBVIOUS
<1>4. QED
  BY <1>1, <1>2, <1>3

LEMMA ScaledBounds ==
    ASSUME NEW x \in Nat
    PROVE  /\ Scaled(x) \in Nat
           /\ OldPrice * Scaled(x) <= x * NewPrice
           /\ x * NewPrice < OldPrice * (Scaled(x) + 1)
<1>1. x * NewPrice \in Nat /\ OldPrice \in Nat \ {0}
  BY RepriceAssumption
<1> DEFINE n == x * NewPrice
           q == Scaled(x)
<1>2. /\ q \in Nat
      /\ OldPrice * q <= n
      /\ n < OldPrice * q + OldPrice
  BY <1>1, Quotient DEF Scaled
<1> HIDE DEF n, q
<1>3. OldPrice * (q + 1) = OldPrice * q + OldPrice
  BY <1>1, <1>2
<1>4. QED
  BY <1>2, <1>3 DEF n, q

\* Nothing is scaled to nothing and something to something.
LEMMA ScaledOfZero == Scaled(0) = 0
<1>1. 0 * NewPrice = 0 /\ OldPrice \in Nat \ {0}
  BY RepriceAssumption
<1>2. QED
  BY <1>1 DEF Scaled

\* The floor of a sum is that of its parts or one more.
LEMMA ScaledOfSum ==
    ASSUME NEW x \in Nat, NEW y \in Nat
    PROVE  Scaled(x + y) - (Scaled(x) + Scaled(y)) \in {0, 1}
<1> DEFINE p == Scaled(x)
           q == Scaled(y)
           s == Scaled(x + y)
<1>1. /\ p \in Nat /\ q \in Nat /\ s \in Nat
      /\ OldPrice * p <= x * NewPrice
      /\ x * NewPrice < OldPrice * (p + 1)
      /\ OldPrice * q <= y * NewPrice
      /\ y * NewPrice < OldPrice * (q + 1)
      /\ OldPrice * s <= (x + y) * NewPrice
      /\ (x + y) * NewPrice < OldPrice * (s + 1)
  BY ScaledBounds
<1>2. OldPrice \in Nat \ {0} /\ NewPrice \in Nat
  BY RepriceAssumption
<1> HIDE DEF p, q, s
<1>3. (x + y) * NewPrice = x * NewPrice + y * NewPrice
  BY <1>2
<1>4. /\ OldPrice * (p + q) = OldPrice * p + OldPrice * q
      /\ OldPrice * (p + q + 2) = OldPrice * (p + 1) + OldPrice * (q + 1)
  BY <1>1, <1>2
<1>5. /\ x * NewPrice \in Int /\ y * NewPrice \in Int
      /\ OldPrice * p \in Int /\ OldPrice * q \in Int
      /\ OldPrice * (p + 1) \in Int /\ OldPrice * (q + 1) \in Int
      /\ OldPrice * s \in Int /\ OldPrice * (s + 1) \in Int
  BY <1>1, <1>2
<1>6. OldPrice * (p + q) < OldPrice * (s + 1) /\ OldPrice * s < OldPrice * (p + q + 2)
  BY <1>1, <1>3, <1>4, <1>5
<1>7. p + q < s + 1 /\ s < p + q + 2
  BY <1>1, <1>2, <1>6, CancelFactor
<1>8. s - (p + q) \in {0, 1}
  BY <1>1, <1>7
<1>9. QED
  BY <1>8 DEF p, q, s

LEMMA ScaledIsMonotone ==
    ASSUME NEW x \in Nat, NEW y \in Nat, x <= y
    PROVE  Scaled(x) <= Scaled(y)
<1> DEFINE z == y - x
<1>1. z \in Nat /\ y = x + z
  OBVIOUS
<1> HIDE DEF z
<1>2. Scaled(x + z) - (Scaled(x) + Scaled(z)) \in {0, 1}
  BY <1>1, ScaledOfSum
<1>3. Scaled(x) \in Nat /\ Scaled(z) \in Nat /\ Scaled(x + z) \in Nat
  BY <1>1, ScaledBounds
<1>4. QED
  BY <1>1, <1>2, <1>3

\* Prices that rise restate no amount as a smaller one.
LEMMA ScaledIsNoLess ==
    ASSUME NEW x \in Nat
    PROVE  x <= Scaled(x)
<1> DEFINE q == Scaled(x)
<1>1. /\ q \in Nat
      /\ x * NewPrice < OldPrice * (q + 1)
      /\ OldPrice \in Nat \ {0}
      /\ NewPrice \in Nat
      /\ OldPrice <= NewPrice
  BY ScaledBounds, RepriceAssumption
<1> HIDE DEF q
<1>2. OldPrice * x <= x * NewPrice
  <2>1. x * (NewPrice - OldPrice) >= 0
    BY <1>1, SMTT(30)
  <2>2. x * (NewPrice - OldPrice) = x * NewPrice - OldPrice * x
    BY <1>1, SMTT(30)
  <2>3. x * NewPrice \in Int /\ OldPrice * x \in Int
    BY <1>1
  <2>4. QED
    BY <2>1, <2>2, <2>3
<1>3. OldPrice * x < OldPrice * (q + 1)
  BY <1>1, <1>2
<1>4. x < q + 1
  BY <1>1, <1>3, CancelFactor
<1>5. QED
  BY <1>1, <1>4 DEF q

\* Amounts floored one by one add up to no more than their sum floored.
LEMMA ScaledSum ==
    ASSUME NEW n \in Nat, NEW f, NEW h,
           \A i \in 1 .. n : f[i] \in Nat /\ h[i] = Scaled(f[i])
    PROVE  SumUpTo(h, n) <= Scaled(SumUpTo(f, n))
<1> DEFINE s == PartialSums(f, n)
           t == PartialSums(h, n)
           Good(k) == s[k] \in Nat /\ t[k] <= Scaled(s[k])
           T == {k \in 0 .. n : ~ Good(k)}
<1>1. /\ IsSums(s, f, n) /\ s \in [0 .. n -> Int]
      /\ IsSums(t, h, n) /\ t \in [0 .. n -> Int]
      /\ \A i \in 1 .. n : h[i] \in Nat
  <2>1. \A i \in 1 .. n : h[i] \in Nat
    BY ScaledBounds
  <2>2. \A i \in 1 .. n : f[i] \in Int /\ h[i] \in Int
    BY <2>1
  <2>3. QED
    BY <2>1, <2>2, PartialSumsDef
<1> HIDE DEF s, t
<1>2. Good(0)
  BY <1>1, ScaledOfZero DEF IsSums
<1>3. ASSUME NEW m \in 1 .. n, Good(m - 1)
      PROVE  Good(m)
  <2>1. /\ m - 1 \in 0 .. n /\ m \in 0 .. n
        /\ s[m] = s[m - 1] + f[m]
        /\ t[m] = t[m - 1] + Scaled(f[m])
        /\ f[m] \in Nat
        /\ t[m - 1] \in Int
    BY <1>1 DEF IsSums
  <2>2. s[m - 1] \in Nat /\ t[m - 1] <= Scaled(s[m - 1])
    BY <1>3
  <2>3. Scaled(s[m]) - (Scaled(s[m - 1]) + Scaled(f[m])) \in {0, 1}
    BY <2>1, <2>2, ScaledOfSum
  <2>4. /\ Scaled(s[m - 1]) \in Nat
        /\ Scaled(f[m]) \in Nat
        /\ s[m] \in Nat
    BY <2>1, <2>2, ScaledBounds
  <2>5. Scaled(s[m]) \in Nat
    BY <2>4, ScaledBounds
  <2>6. t[m] <= Scaled(s[m])
    BY <2>1, <2>2, <2>3, <2>4, <2>5
  <2>7. QED
    BY <2>4, <2>6
<1>4. ASSUME T # {}
      PROVE  FALSE
  <2>1. PICK m \in T : \A k \in T : m <= k
    <3>1. T \subseteq Nat
      OBVIOUS
    <3> HIDE DEF T
    <3>2. QED
      BY <1>4, <3>1, LeastNatural, Zenon
  <2>2. m \in 0 .. n /\ ~ Good(m)
    BY <2>1
  <2>3. m # 0
    BY <1>2, <2>2
  <2>4. m - 1 \in 0 .. n /\ m \in 1 .. n
    BY <2>2, <2>3
  <2>5. Good(m - 1)
    <3>1. ~ (m - 1 \in T)
      BY <2>1, <2>2
    <3>2. QED
      BY <2>4, <3>1
  <2>6. QED
    BY <1>3, <2>2, <2>4, <2>5
<1>5. Good(n)
  BY <1>4
<1>6. QED
  BY <1>5 DEF SumUpTo, s, t

-----------------------------------------------------------------------------
(* The migration. *)

LEMMA ScaledHoldsOfHeld ==
    ASSUME TypeOK
    PROVE  /\ \A r \in 1 .. NumRequests : HeldBy[r] \in Nat
           /\ \A r \in 1 .. NumRequests : ScaledHolds[r] = Scaled(HeldBy[r])
           /\ HeldResummed \in Nat
           /\ HeldResummed <= Scaled(SumUpTo(HeldBy, NumRequests))
<1>1. NumRequests \in Nat /\ Requests = 1 .. NumRequests
  BY WalletAssumption DEF Requests
<1>2. \A r \in 1 .. NumRequests : HeldBy[r] \in Nat
  BY <1>1 DEF HeldBy, TypeOK
<1>3. \A r \in 1 .. NumRequests : ScaledHolds[r] = Scaled(HeldBy[r])
  BY <1>1, ScaledOfZero DEF HeldBy, ScaledHolds
<1>4. \A r \in 1 .. NumRequests : ScaledHolds[r] \in Nat
  BY <1>2, <1>3, ScaledBounds
<1>5. HeldResummed \in Nat
  BY <1>1, <1>4, SumUpToBounds DEF HeldResummed
<1>6. HeldResummed <= Scaled(SumUpTo(HeldBy, NumRequests))
  BY <1>1, <1>2, <1>3, ScaledSum DEF HeldResummed
<1>7. QED
  BY <1>2, <1>3, <1>5, <1>6

\* Restated grants have credit left when they had it before.
LEMMA ScaledGrants ==
    ASSUME NEW rem \in [Grants -> Nat]
    PROVE  LET new == [g \in Grants |-> Scaled(rem[g])]
           IN  /\ new \in [Grants -> Nat]
               /\ EarliestActive(new) = EarliestActive(rem)
               /\ Scaled(GrantSum(rem)) - GrantSum(new) \in {0, 1}
               /\ new["trial"] > 0 => rem["trial"] > 0
<1> DEFINE new == [g \in Grants |-> Scaled(rem[g])]
<1>1. \A g \in Grants : /\ rem[g] \in Nat
                        /\ new[g] = Scaled(rem[g])
                        /\ Scaled(rem[g]) \in Nat
                        /\ rem[g] <= Scaled(rem[g])
  BY ScaledBounds, ScaledIsNoLess
<1>2. new \in [Grants -> Nat]
  BY <1>1
<1> HIDE DEF new
<1>3. \A g \in Grants : new[g] > 0 <=> rem[g] > 0
  BY <1>1, ScaledOfZero
<1>4. EarliestActive(new) = EarliestActive(rem)
  BY <1>3, GrantPair DEF EarliestActive
<1>5. "trial" \in Grants /\ "bonus" \in Grants
  BY DEF Grants
<1>6. Scaled(GrantSum(rem)) - GrantSum(new) \in {0, 1}
  BY <1>1, <1>5, ScaledOfSum DEF GrantSum
<1>7. QED
  BY <1>2, <1>3, <1>4, <1>5, <1>6 DEF new

\* The migration keeps a sound wallet sound, and if nothing was missing before
\* it, at most one micro is missing after.
LEMMA StepReprice ==
    ASSUME WalletSound, RepriceWallets
    PROVE  /\ WalletSound'
           /\ Short(wallet) = 0 => Short(wallet') \in {0, 1}
<1> DEFINE rem == wallet.remaining
           new == [g \in Grants |-> Scaled(rem[g])]
<1>1. /\ TypeOK
      /\ wallet.held = SumUpTo(HeldBy, NumRequests)
      /\ wallet.balance + expiredOut + SumUpTo(charged, NumRequests) = credited
      /\ \A q \in Requests : charged[q] > 0 => hold[q] = "settled"
      /\ rem["trial"] > 0 => trialRow
      /\ wallet \in [balance : Nat, held : Nat, promo : Nat,
                     expiry : Grants \cup {NoExpiry}, remaining : [Grants -> Nat]]
      /\ wallet.held <= wallet.balance
      /\ wallet.promo <= wallet.balance
      /\ GrantSum(rem) <= wallet.promo
      /\ wallet.expiry = EarliestActive(rem)
      /\ LapsedInOrder
  BY DEF WalletSound, TypeOK, HeldIsSumOfOpenHolds, WithinBalance, GrantsWithinPromo,
         BooksBalance
<1>2. /\ wallet' = [balance |-> Scaled(wallet.balance), held |-> HeldResummed,
                    promo |-> Scaled(wallet.promo), expiry |-> wallet.expiry,
                    remaining |-> new]
      /\ amount' = [r \in Requests |->
                      IF hold[r] = "open" THEN Scaled(amount[r]) ELSE amount[r]]
      /\ credited' = credited + (Scaled(wallet.balance) - wallet.balance)
      /\ UNCHANGED <<lapsed, trialRow, hold, overdue, recorded, charged, expiredOut>>
  BY <1>1 DEF RepriceWallets, Adjustment
<1>3. /\ wallet.balance \in Nat /\ Scaled(wallet.balance) \in Nat
      /\ wallet.balance <= Scaled(wallet.balance)
      /\ wallet.promo \in Nat /\ Scaled(wallet.promo) \in Nat
      /\ wallet.held \in Nat
      /\ Scaled(wallet.promo) <= Scaled(wallet.balance)
      /\ Scaled(wallet.held) \in Nat
      /\ Scaled(wallet.held) <= Scaled(wallet.balance)
  BY <1>1, ScaledBounds, ScaledIsNoLess, ScaledIsMonotone
<1>4. /\ HeldResummed \in Nat
      /\ HeldResummed <= Scaled(wallet.held)
  BY <1>1, ScaledHoldsOfHeld
<1>5. /\ rem \in [Grants -> Nat]
      /\ new \in [Grants -> Nat]
      /\ EarliestActive(new) = EarliestActive(rem)
      /\ Scaled(GrantSum(rem)) - GrantSum(new) \in {0, 1}
      /\ new["trial"] > 0 => rem["trial"] > 0
  BY <1>1, ScaledGrants
<1>6. /\ GrantSum(rem) \in Nat
      /\ GrantSum(new) \in Nat
  BY <1>5 DEF GrantSum, Grants
<1> HIDE DEF rem, new
<1>7. GrantSum(new) <= Scaled(wallet.promo)
  <2>1. Scaled(GrantSum(rem)) <= Scaled(wallet.promo) /\ Scaled(GrantSum(rem)) \in Nat
    BY <1>1, <1>3, <1>6, ScaledIsMonotone, ScaledBounds
  <2>2. QED
    BY <1>3, <1>5, <1>6, <2>1
<1>8. TypeOK'
  <2>1. amount' \in [Requests -> Nat]
    BY <1>1, <1>2, ScaledBounds DEF TypeOK
  <2>2. credited' \in Nat
    BY <1>1, <1>2, <1>3 DEF TypeOK
  <2>3. wallet' \in [balance : Nat, held : Nat, promo : Nat,
                     expiry : Grants \cup {NoExpiry}, remaining : [Grants -> Nat]]
    BY <1>1, <1>2, <1>3, <1>4, <1>5
  <2>4. QED
    BY <1>1, <1>2, <2>1, <2>2, <2>3 DEF TypeOK
<1>9. HeldIsSumOfOpenHolds'
  <2>1. HeldBy' = ScaledHolds
    BY <1>2 DEF HeldBy, ScaledHolds
  <2>2. QED
    BY <1>2, <2>1 DEF HeldIsSumOfOpenHolds, HeldResummed
<1>10. WithinBalance'
  BY <1>2, <1>3, <1>4 DEF WithinBalance
<1>11. GrantsWithinPromo'
  BY <1>1, <1>2, <1>5, <1>7 DEF GrantsWithinPromo
<1>12. BooksBalance'
  <2>1. SumUpTo(charged, NumRequests) \in Nat
    BY <1>1, ChargedSumNat
  <2>2. QED
    BY <1>1, <1>2, <1>3, <2>1 DEF BooksBalance, TypeOK
<1>13. LapsedInOrder'
  BY <1>1, <1>2 DEF LapsedInOrder
<1>14. Short(wallet) = 0 => Short(wallet') \in {0, 1}
  <2>1. Short(wallet) = 0 => wallet.promo = GrantSum(rem)
    BY <1>3, <1>6 DEF Short, rem
  <2>2. Short(wallet') = Scaled(wallet.promo) - GrantSum(new)
    BY <1>2 DEF Short
  <2>3. QED
    BY <1>5, <2>1, <2>2
<1>15. QED
  BY <1>8, <1>9, <1>10, <1>11, <1>12, <1>13, <1>14 DEF WalletSound

-----------------------------------------------------------------------------
(* The inductive invariant. *)

\* A micro may be missing after the migration, and none is before.
MissingOK == Short(wallet) \in 0 .. (IF repriced THEN 1 ELSE 0)

RepriceInv == WalletSound /\ MissingOK

LEMMA RepriceStep == RepriceInv /\ [RepriceNext]_repricedVars => RepriceInv'
<1> SUFFICES ASSUME RepriceInv, [RepriceNext]_repricedVars
             PROVE  RepriceInv'
  OBVIOUS
<1>1. WalletSound /\ MissingOK
  BY DEF RepriceInv
<1>2. CASE RepriceWallets
  <2>1. Short(wallet) = 0
    BY <1>1, <1>2 DEF MissingOK, RepriceWallets
  <2>2. WalletSound' /\ Short(wallet') \in {0, 1}
    BY <1>1, <1>2, <2>1, StepReprice
  <2>3. repriced'
    BY <1>2 DEF RepriceWallets
  <2>4. MissingOK'
    BY <2>2, <2>3 DEF MissingOK
  <2>5. QED
    BY <2>2, <2>4 DEF RepriceInv
<1>3. CASE [Next]_vars /\ repriced' = repriced
  <2>1. WalletSound' /\ Short(wallet') = Short(wallet)
    BY <1>1, <1>3, SoundStep DEF KeepsSound
  <2>2. QED
    BY <1>1, <1>3, <2>1 DEF RepriceInv, MissingOK
<1>4. QED
  BY <1>2, <1>3 DEF RepriceNext, repricedVars, vars

(* Nothing is missing before the migration.                                *)
LEMMA RepriceInitInv == RepriceInit => RepriceInv
<1> SUFFICES ASSUME RepriceInit
             PROVE  RepriceInv
  OBVIOUS
<1>1. WalletSound /\ Short(wallet) = 0
  BY InitWalletInv, InvIsSound DEF RepriceInit
<1>2. QED
  BY <1>1 DEF RepriceInv, MissingOK

(* The invariant of the wallet through the migration.                      *)
LEMMA RepriceInvariant == RepriceSpec => []RepriceInv
BY RepriceInitInv, RepriceStep, PTL DEF RepriceSpec

-----------------------------------------------------------------------------
(***************************************************************************)
(* The theorems.                                                           *)
(***************************************************************************)

\* The held column is the sum of the open holds before and after the migration,
\* although each hold is floored by itself.
THEOREM HeldSurvivesReprice == RepriceSpec => []HeldIsSumOfOpenHolds
<1>1. RepriceInv => HeldIsSumOfOpenHolds
  BY DEF RepriceInv, WalletSound
<1>2. QED
  BY <1>1, RepriceInvariant, PTL

\* The wallets table's CHECKs hold through the migration: the restated holds and
\* promotional credit stay within the restated balance.
THEOREM BalanceSurvivesReprice == RepriceSpec => []WithinBalance
<1>1. RepriceInv => WithinBalance
  BY DEF RepriceInv, WalletSound
<1>2. QED
  BY <1>1, RepriceInvariant, PTL

\* The ledger adds up to the balance through the migration: the adjustment row
\* it writes accounts for the whole change.
THEOREM BooksSurviveReprice == RepriceSpec => []BooksBalance
<1>1. RepriceInv => BooksBalance
  BY DEF RepriceInv, WalletSound
<1>2. QED
  BY <1>1, RepriceInvariant, PTL

\* The migration costs the grants one micro at most and nothing after it makes
\* that more; unless its settlement needs that micro, a request is settled for all
\* it reserved, before the migration and after.
THEOREM OneMicroIsMissing == RepriceSpec => []HoldsSettleButForAMicro
<1>1. RepriceInv => HoldsSettleButForAMicro
  BY CoveredSettles DEF RepriceInv, MissingOK, Short, HoldsSettleButForAMicro
<1>2. QED
  BY <1>1, RepriceInvariant, PTL

-----------------------------------------------------------------------------
(***************************************************************************)
(* The three parts together.  Each starts in one of its initial states and *)
(* takes its own steps or none, so what holds of it alone holds of it here.*)
(***************************************************************************)
(* What the three keep.                                                    *)
CoreInv == SignInInv /\ PgWireInv /\ RepriceInv

(* No part disturbs another.                                               *)
LEMMA CoreInvariant == CoreSpec => []CoreInv
<1>1. CoreInit => CoreInv
  <2> SUFFICES ASSUME CoreInit
               PROVE  CoreInv
    OBVIOUS
  <2>1. SignInInit /\ PgWireInit /\ RepriceInit
    BY DEF CoreInit
  <2>2. RepriceInv
    BY <2>1, RepriceInitInv
  <2> QED
    BY <2>1, <2>2, SignInInvInit, PgWireInitInv DEF CoreInv
<1>2. ASSUME CoreInv, [CoreNext]_coreVars
      PROVE  CoreInv'
  <2>1. SignInInv /\ PgWireInv /\ RepriceInv
    BY <1>2 DEF CoreInv
  <2>2. /\ [SignInNext]_signInVars
        /\ [PgWireNext]_wireVars
        /\ [RepriceNext]_repricedVars
    BY <1>2 DEF CoreNext, coreVars
  <2>3. SignInInv' /\ PgWireInv' /\ RepriceInv'
    BY <2>1, <2>2, SignInInvNext, PgWireNextInv, RepriceStep
  <2> QED
    BY <2>3 DEF CoreInv
<1> QED
  BY <1>1, <1>2, PTL DEF CoreSpec

\* The tables and connections of napkey-core keep their types together, for
\* every value of the constants of its three parts.
THEOREM CoreTypes == CoreSpec => []CoreTypeOK
<1>1. CoreInv => CoreTypeOK
  BY InvGivesSignInTypes, InvGivesPgWireTypes DEF CoreInv, CoreTypeOK
<1> QED
  BY <1>1, CoreInvariant, PTL
=============================================================================
