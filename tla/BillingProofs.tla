---------------------------- MODULE BillingProofs ----------------------------
(***************************************************************************)
(* The billing of requests for every number of requests, attempts, queue   *)
(* slots and workers.  BillingInv says what the core may hold, record and  *)
(* still receive for a request at each stage the data plane has it in; it  *)
(* is inductive.  The composition is also shown to be an implementation of *)
(* the wallet alone, so that Wallet's theorems hold under it.              *)
(***************************************************************************)
EXTENDS Billing, WalletProofs, FiniteSetTheorems

\* Stages of a request whose reservation was answered.
Admitted == {"serving", "queued", "reporting", "releasing", "released", "abandoned",
             "billed", "dropped"}

\* Stages in which an attempt of each call may still be on its way.
MayBeSent == [reserve |-> Running \cup Over,
              release |-> {"releasing", "released", "abandoned", "lost"},
              usage |-> {"reporting", "billed", "dropped", "lost"}]

\* A call was sent by a request that had reached it, and only a request whose
\* reservation was answered releases or reports.
CallFollowsStage(c) ==
    /\ stage[c.req] \in MayBeSent[c.op]
    /\ c.op # "reserve" => hold[c.req] # "none"

\* What the core may hold for a request at each stage.
HoldFollowsStage(r) ==
    /\ stage[r] = "idle" => hold[r] = "none"
    /\ stage[r] \in {"idle", "reserving"} => hold[r] \in {"none", "open"} /\ r \notin overdue
    /\ stage[r] \in Admitted => hold[r] # "none"
    /\ stage[r] \in {"serving", "queued", "reporting", "billed", "dropped"} =>
          hold[r] = "open" \/ r \in overdue \/ r \in recorded
    /\ stage[r] \in {"released", "billed"} => hold[r] # "open"

\* What the core may have recorded for a request at each stage.
RecordFollowsStage(r) ==
    /\ r \in recorded => /\ stage[r] \in MayBeSent["usage"]
                         /\ hold[r] \notin {"none", "open"}
    /\ charged[r] # 0 => r \in recorded
    /\ charged[r] \in {0, cost[r]}
    /\ r \in recorded /\ stage[r] # "lost" => charged[r] = cost[r] \/ r \in overdue
    /\ stage[r] = "billed" => r \in recorded

BillingInv ==
    /\ CallsTypeOK
    /\ \A c \in calls : CallFollowsStage(c)
    /\ \A r \in Requests : HoldFollowsStage(r) /\ RecordFollowsStage(r)

-----------------------------------------------------------------------------
(* What a step of the data plane does. *)

LEMMA OpsAre == Ops = {"reserve", "release", "usage"}
BY DEF Ops, WaitsIn

LEMMA AttemptBounds ==
    /\ ReserveAttempts \in Nat \ {0}
    /\ UsageAttempts \in Nat \ {0}
    /\ \A op \in Ops : /\ MaxAttempts[op] \in Nat
                       /\ MaxAttempts[op] <= ReserveAttempts + UsageAttempts
                       /\ 1 <= MaxAttempts[op]
BY BillingAssumption, OpsAre DEF MaxAttempts

\* An attempt of a call is well formed, and no later than its client's last.
SoundCall(c) == c \in Calls /\ c.n <= MaxAttempts[c.op]

LEMMA CallIsSound ==
    ASSUME NEW op \in Ops, NEW r \in Requests, NEW n \in Nat, 1 <= n, n <= MaxAttempts[op]
    PROVE  /\ SoundCall(Call(op, r, n))
           /\ Call(op, r, n).op = op
           /\ Call(op, r, n).req = r
           /\ Call(op, r, n).n = n
<1>1. n \in 1 .. ReserveAttempts + UsageAttempts
  BY AttemptBounds
<1>2. QED
  BY <1>1 DEF SoundCall, Call, Calls

LEMMA CallFields ==
    ASSUME CallsTypeOK, NEW c \in calls
    PROVE  c.op \in Ops /\ c.req \in Requests /\ c.n \in Nat /\ 1 <= c.n
BY AttemptBounds DEF CallsTypeOK, Calls

\* An attempt that came to nothing is followed by the next one of the same call
\* or ends the call; no other request moves.
LEMMA AttemptOutcome ==
    ASSUME NEW c, NEW pending, c.op \in Ops, c.req \in Requests, c.n \in Nat, 1 <= c.n,
           AttemptFails(c, pending)
    PROVE  \/ /\ stage' = stage
              /\ attempt' = [attempt EXCEPT ![c.req] = c.n + 1]
              /\ c.n + 1 \in 1 .. ReserveAttempts + UsageAttempts
              /\ \E d : /\ SoundCall(d) /\ d.op = c.op /\ d.req = c.req
                        /\ calls' = pending \cup {d}
           \/ /\ stage' = [stage EXCEPT ![c.req] = GaveUp[c.op]]
              /\ attempt' = attempt
              /\ calls' = pending
<1>1. CASE /\ c.n < MaxAttempts[c.op]
           /\ attempt' = [attempt EXCEPT ![c.req] = c.n + 1]
           /\ calls' = pending \cup {Call(c.op, c.req, c.n + 1)}
           /\ UNCHANGED stage
  <2>1. c.n + 1 <= MaxAttempts[c.op] /\ c.n + 1 \in 1 .. ReserveAttempts + UsageAttempts
    BY <1>1, AttemptBounds
  <2>2. /\ SoundCall(Call(c.op, c.req, c.n + 1))
        /\ Call(c.op, c.req, c.n + 1).op = c.op
        /\ Call(c.op, c.req, c.n + 1).req = c.req
    BY <2>1, CallIsSound
  <2>3. QED
    BY <1>1, <2>1, <2>2
<1>2. CASE /\ stage' = [stage EXCEPT ![c.req] = GaveUp[c.op]]
           /\ calls' = pending
           /\ UNCHANGED attempt
  BY <1>2
<1>3. QED
  BY <1>1, <1>2 DEF AttemptFails

\* The answer of an executed attempt: nobody waits for it, or it moves the one
\* request that does.
LEMMA AnswerOutcome ==
    ASSUME CallsTypeOK, NEW c \in calls, NEW answer, Answer(c, answer),
           NEW s, s = IF answer = "error" THEN GaveUp[c.op]
                      ELSE IF answer = "refused" THEN "refused"
                      ELSE [reserve |-> "serving", release |-> "released",
                            usage |-> "billed"][c.op]
    PROVE  /\ mode' = mode
           /\ cost' = cost
           /\ \/ stage' = stage /\ attempt' = attempt /\ calls' = calls \ {c}
              \/ /\ stage[c.req] = WaitsIn[c.op]
                 /\ answer = "error"
                 /\ stage' = stage
                 /\ \E n \in 1 .. ReserveAttempts + UsageAttempts :
                        attempt' = [attempt EXCEPT ![c.req] = n]
                 /\ \E d : /\ SoundCall(d) /\ d.op = c.op /\ d.req = c.req
                           /\ calls' = (calls \ {c}) \cup {d}
              \/ /\ stage[c.req] = WaitsIn[c.op]
                 /\ stage' = [stage EXCEPT ![c.req] = s]
                 /\ attempt' = attempt
                 /\ calls' = calls \ {c}
<1> DEFINE pending == calls \ {c}
<1>1. c.op \in Ops /\ c.req \in Requests /\ c.n \in Nat /\ 1 <= c.n
  BY CallFields
<1>2. mode' = mode /\ cost' = cost
  BY DEF Answer
<1>3. CASE UNCHANGED <<stage, attempt>> /\ calls' = pending
  BY <1>2, <1>3
<1>4. CASE answer = "error" /\ Waiting(c) /\ AttemptFails(c, pending)
  <2>1. stage[c.req] = WaitsIn[c.op] /\ s = GaveUp[c.op]
    BY <1>4 DEF Waiting
  <2>2. \/ /\ stage' = stage
           /\ attempt' = [attempt EXCEPT ![c.req] = c.n + 1]
           /\ c.n + 1 \in 1 .. ReserveAttempts + UsageAttempts
           /\ \E d : /\ SoundCall(d) /\ d.op = c.op /\ d.req = c.req
                     /\ calls' = pending \cup {d}
        \/ /\ stage' = [stage EXCEPT ![c.req] = GaveUp[c.op]]
           /\ attempt' = attempt
           /\ calls' = pending
    BY <1>1, <1>4, AttemptOutcome
  <2>3. QED
    BY <1>2, <1>4, <2>1, <2>2
<1>5. CASE /\ answer # "error"
           /\ Waiting(c)
           /\ stage' = [stage EXCEPT ![c.req] = s]
           /\ calls' = pending
           /\ UNCHANGED attempt
  BY <1>2, <1>5 DEF Waiting
<1>6. QED
  BY <1>3, <1>4, <1>5 DEF Answer

-----------------------------------------------------------------------------
(* What a step does to the request it moves. *)

\* Where a request goes from each stage; it never comes back.
Moves == {<<"idle", "reserving">>, <<"reserving", "serving">>, <<"reserving", "refused">>,
          <<"serving", "queued">>, <<"serving", "releasing">>, <<"queued", "reporting">>,
          <<"releasing", "released">>, <<"releasing", "abandoned">>,
          <<"reporting", "billed">>, <<"reporting", "dropped">>}
         \cup (Running \X {"lost"})

Stages == {"idle"} \cup Running \cup Over

\* A call of r may still be on its way after r moves on.
LEMMA MovesKeepCalls ==
    ASSUME NEW s, NEW t, <<s, t>> \in Moves, NEW op \in Ops, s \in MayBeSent[op]
    PROVE  t \in MayBeSent[op]
BY OpsAre DEF Moves, MayBeSent, Running, Over

LEMMA MovesBetweenStages ==
    ASSUME NEW s, NEW t, <<s, t>> \in Moves
    PROVE  t \in Stages
BY DEF Moves, Stages, Running, Over

\* A step that concerns one request keeps the invariant if it keeps it for that
\* request: r moves along Moves or stays, and sends at most calls of its stage.
LEMMA OneRequestMoves ==
    ASSUME BillingInv, NEW r \in Requests,
           mode' \in {"up", "draining", "flushing", "down"},
           attempt' \in [Requests -> 1 .. ReserveAttempts + UsageAttempts],
           cost' \in [Requests -> Amounts \cup {0}],
           \/ stage' = stage
           \/ \E t : stage' = [stage EXCEPT ![r] = t] /\ <<stage[r], t>> \in Moves,
           \A q \in Requests \ {r} :
              /\ hold'[q] = hold[q]
              /\ q \in overdue' <=> q \in overdue
              /\ q \in recorded' <=> q \in recorded
              /\ charged'[q] = charged[q]
              /\ cost'[q] = cost[q],
           hold[r] # "none" => hold'[r] # "none",
           \A c \in calls' : c \in calls \/ (SoundCall(c) /\ c.req = r /\ CallFollowsStage(c)'),
           HoldFollowsStage(r)', RecordFollowsStage(r)'
    PROVE  BillingInv'
<1>1. /\ stage \in [Requests -> Stages]
      /\ \A c \in calls : SoundCall(c) /\ CallFollowsStage(c)
      /\ \A q \in Requests : HoldFollowsStage(q) /\ RecordFollowsStage(q)
  BY DEF BillingInv, CallsTypeOK, SoundCall, Stages
<1>2. /\ stage' \in [Requests -> Stages]
      /\ \A q \in Requests \ {r} : stage'[q] = stage[q]
      /\ stage'[r] = stage[r] \/ <<stage[r], stage'[r]>> \in Moves
  BY <1>1, MovesBetweenStages
<1>3. \A c \in calls' : SoundCall(c) /\ CallFollowsStage(c)'
  <2> SUFFICES ASSUME NEW c \in calls', c \in calls
               PROVE  SoundCall(c) /\ CallFollowsStage(c)'
    OBVIOUS
  <2>1. c.op \in Ops /\ c.req \in Requests /\ SoundCall(c) /\ CallFollowsStage(c)
    BY <1>1 DEF SoundCall, Calls
  <2>2. CASE c.req = r
    <3>1. stage'[c.req] \in MayBeSent[c.op]
      BY <1>2, <2>1, <2>2, MovesKeepCalls DEF CallFollowsStage
    <3>2. QED
      BY <2>1, <2>2, <3>1 DEF CallFollowsStage
  <2>3. CASE c.req # r
    BY <1>2, <2>1, <2>3 DEF CallFollowsStage
  <2>4. QED
    BY <2>2, <2>3
<1>4. \A q \in Requests : HoldFollowsStage(q)' /\ RecordFollowsStage(q)'
  <2> SUFFICES ASSUME NEW q \in Requests \ {r}
               PROVE  HoldFollowsStage(q)' /\ RecordFollowsStage(q)'
    OBVIOUS
  <2>1. /\ stage'[q] = stage[q]
        /\ hold'[q] = hold[q]
        /\ q \in overdue' <=> q \in overdue
        /\ q \in recorded' <=> q \in recorded
        /\ charged'[q] = charged[q]
        /\ cost'[q] = cost[q]
    BY <1>2
  <2>2. HoldFollowsStage(q)'
    BY <1>1, <2>1 DEF HoldFollowsStage
  <2>3. RecordFollowsStage(q)'
    BY <1>1, <2>1 DEF RecordFollowsStage
  <2>4. QED
    BY <2>2, <2>3
<1>5. CallsTypeOK'
  BY <1>2, <1>3 DEF CallsTypeOK, SoundCall, Stages
<1>6. QED
  BY <1>3, <1>4, <1>5 DEF BillingInv

\* A step of the data plane alone: what the core holds and recorded stays, so
\* only an answer may move a request where that matters.
LEMMA ProcessMoves ==
    ASSUME BillingInv, NEW r \in Requests,
           UNCHANGED walletVars,
           mode' \in {"up", "draining", "flushing", "down"},
           attempt' \in [Requests -> 1 .. ReserveAttempts + UsageAttempts],
           \/ stage' = stage
           \/ \E t : /\ stage' = [stage EXCEPT ![r] = t]
                     /\ <<stage[r], t>> \in Moves
                     /\ t \notin {"serving", "released", "billed"},
           \/ cost' = cost
           \/ \E k \in Amounts : stage[r] = "serving" /\ cost' = [cost EXCEPT ![r] = k],
           \A c \in calls' : c \in calls \/ (SoundCall(c) /\ c.req = r /\ CallFollowsStage(c)')
    PROVE  BillingInv'
<1>1. /\ hold' = hold /\ overdue' = overdue /\ recorded' = recorded /\ charged' = charged
  BY DEF walletVars
<1>2. /\ HoldFollowsStage(r) /\ RecordFollowsStage(r)
      /\ stage \in [Requests -> Stages]
      /\ cost \in [Requests -> Amounts \cup {0}]
  BY DEF BillingInv, CallsTypeOK, Stages
<1>3. /\ cost' \in [Requests -> Amounts \cup {0}]
      /\ \A q \in Requests \ {r} : cost'[q] = cost[q]
      /\ cost'[r] = cost[r] \/ stage[r] = "serving"
  BY <1>2
<1>4. \/ stage'[r] = stage[r]
      \/ <<stage[r], stage'[r]>> \in Moves /\ stage'[r] \notin {"serving", "released", "billed"}
  BY <1>2
<1>5. HoldFollowsStage(r)'
  BY <1>1, <1>2, <1>4 DEF HoldFollowsStage, Moves, Running, Admitted
<1>6. RecordFollowsStage(r)'
  BY <1>1, <1>2, <1>3, <1>4 DEF RecordFollowsStage, Moves, Running, MayBeSent
<1>7. QED
  BY <1>1, <1>3, <1>5, <1>6, OneRequestMoves

\* The first attempt of a call follows the stage that waits for it.
LEMMA SendMoves ==
    ASSUME BillingInv, NEW r \in Requests, NEW op \in Ops, Send(r, op, calls),
           UNCHANGED <<mode, walletVars>>,
           \/ cost' = cost
           \/ \E k \in Amounts : stage[r] = "serving" /\ cost' = [cost EXCEPT ![r] = k],
           <<stage[r], WaitsIn[op]>> \in Moves,
           stage[r] # "idle" => op # "reserve" /\ stage[r] \in Admitted,
           stage[r] = "idle" => op = "reserve"
    PROVE  BillingInv'
<1>1. /\ stage' = [stage EXCEPT ![r] = WaitsIn[op]]
      /\ attempt' = [attempt EXCEPT ![r] = 1]
      /\ calls' = calls \cup {Call(op, r, 1)}
      /\ mode' = mode
  BY DEF Send
<1>2. /\ SoundCall(Call(op, r, 1))
      /\ Call(op, r, 1).op = op
      /\ Call(op, r, 1).req = r
  BY AttemptBounds, CallIsSound
<1>3. /\ HoldFollowsStage(r)
      /\ stage \in [Requests -> Stages]
      /\ attempt \in [Requests -> 1 .. ReserveAttempts + UsageAttempts]
      /\ mode \in {"up", "draining", "flushing", "down"}
  BY DEF BillingInv, CallsTypeOK, Stages
<1>4. attempt' \in [Requests -> 1 .. ReserveAttempts + UsageAttempts]
  BY <1>1, <1>3, AttemptBounds
<1>5. hold' = hold
  BY DEF walletVars
<1>6. WaitsIn[op] \in MayBeSent[op] /\ WaitsIn[op] \notin {"serving", "released", "billed"}
  BY OpsAre DEF WaitsIn, MayBeSent, Running, Over
<1>7. CallFollowsStage(Call(op, r, 1))'
  BY <1>1, <1>2, <1>3, <1>5, <1>6 DEF CallFollowsStage, HoldFollowsStage
<1>8. \A c \in calls' : c \in calls \/ (SoundCall(c) /\ c.req = r /\ CallFollowsStage(c)')
  BY <1>1, <1>2, <1>7
<1>9. QED
  BY <1>1, <1>3, <1>4, <1>6, <1>8, ProcessMoves

LEMMA StepArrive ==
    ASSUME BillingInv, NEW r \in Requests, Arrive(r)
    PROVE  BillingInv'
BY SendMoves, OpsAre DEF Arrive, Moves, WaitsIn

LEMMA StepFail ==
    ASSUME BillingInv, NEW r \in Requests, Fail(r)
    PROVE  BillingInv'
BY SendMoves, OpsAre DEF Fail, Moves, WaitsIn, Admitted

LEMMA StepDeliver ==
    ASSUME BillingInv, NEW r \in Requests, Deliver(r)
    PROVE  BillingInv'
BY SendMoves, OpsAre DEF Deliver, Moves, WaitsIn, Admitted

LEMMA StepServe ==
    ASSUME BillingInv, NEW r \in Requests, NEW k \in Amounts, Serve(r, k)
    PROVE  BillingInv'
<1>1. stage[r] = "serving" /\ cost' = [cost EXCEPT ![r] = k]
  BY DEF Serve
<1>2. CASE Send(r, "release", calls)
  BY <1>1, <1>2, SendMoves, OpsAre DEF Serve, Moves, WaitsIn, Admitted
<1>3. CASE stage' = [stage EXCEPT ![r] = "queued"] /\ UNCHANGED <<attempt, calls>>
  <2>1. mode' = mode /\ UNCHANGED walletVars
    BY DEF Serve
  <2>2. /\ attempt \in [Requests -> 1 .. ReserveAttempts + UsageAttempts]
        /\ mode \in {"up", "draining", "flushing", "down"}
    BY DEF BillingInv, CallsTypeOK
  <2>3. <<stage[r], "queued">> \in Moves
    BY <1>1 DEF Moves
  <2>4. "queued" \notin {"serving", "released", "billed"} /\ \A c \in calls' : c \in calls
    BY <1>3
  <2>5. QED
    BY <1>1, <1>3, <2>1, <2>2, <2>3, <2>4, ProcessMoves
<1>4. QED
  BY <1>2, <1>3 DEF Serve

\* An attempt that failed sends the next one, or moves its request to where its
\* client gives up.
LEMMA FailedAttemptMoves ==
    ASSUME BillingInv, NEW r \in Requests, NEW op \in Ops,
           stage[r] = WaitsIn[op],
           UNCHANGED <<mode, cost, walletVars>>,
           NEW pending \in SUBSET calls,
           \/ /\ stage' = stage
              /\ \E n \in 1 .. ReserveAttempts + UsageAttempts :
                     attempt' = [attempt EXCEPT ![r] = n]
              /\ \E d : /\ SoundCall(d) /\ d.op = op /\ d.req = r
                        /\ calls' = pending \cup {d}
           \/ /\ stage' = [stage EXCEPT ![r] = GaveUp[op]]
              /\ attempt' = attempt
              /\ calls' = pending
    PROVE  BillingInv'
<1>1. /\ stage \in [Requests -> Stages]
      /\ attempt \in [Requests -> 1 .. ReserveAttempts + UsageAttempts]
      /\ mode \in {"up", "draining", "flushing", "down"}
      /\ HoldFollowsStage(r)
  BY DEF BillingInv, CallsTypeOK, Stages
<1>2. /\ attempt' \in [Requests -> 1 .. ReserveAttempts + UsageAttempts]
      /\ mode' = mode /\ cost' = cost /\ hold' = hold
  BY <1>1 DEF walletVars
<1>3. CASE stage' = stage
  <2>1. WaitsIn[op] \in MayBeSent[op] /\ (op # "reserve" => WaitsIn[op] \in Admitted)
    BY OpsAre DEF WaitsIn, MayBeSent, Running, Over, Admitted
  <2>2. \A d : d.op = op /\ d.req = r => CallFollowsStage(d)'
    BY <1>1, <1>2, <1>3, <2>1 DEF CallFollowsStage, HoldFollowsStage
  <2>3. QED
    <3>1. CASE \E d : SoundCall(d) /\ d.op = op /\ d.req = r /\ calls' = pending \cup {d}
      <4>1. PICK d : SoundCall(d) /\ d.op = op /\ d.req = r /\ calls' = pending \cup {d}
        BY <3>1
      <4>2. \A c \in calls' : c \in calls \/ (SoundCall(c) /\ c.req = r /\ CallFollowsStage(c)')
        BY <2>2, <4>1
      <4>3. QED
        BY <1>1, <1>2, <1>3, <4>2, ProcessMoves
    <3>2. CASE calls' = pending
      <4>1. \A c \in calls' : c \in calls
        BY <3>2
      <4>2. QED
        BY <1>1, <1>2, <1>3, <4>1, ProcessMoves
    <3>3. QED
      BY <3>1, <3>2
<1>4. CASE stage' = [stage EXCEPT ![r] = GaveUp[op]] /\ calls' = pending
  <2>1. <<stage[r], GaveUp[op]>> \in Moves /\ GaveUp[op] \notin {"serving", "released", "billed"}
    BY OpsAre DEF WaitsIn, GaveUp, Moves
  <2>2. \A c \in calls' : c \in calls
    BY <1>4
  <2>3. QED
    BY <1>1, <1>2, <1>4, <2>1, <2>2, ProcessMoves
<1>5. QED
  BY <1>3, <1>4

LEMMA StepTimeOut ==
    ASSUME BillingInv, NEW r \in Requests, TimeOut(r)
    PROVE  BillingInv'
<1>1. PICK op \in Ops : stage[r] = WaitsIn[op] /\ AttemptFails(Call(op, r, attempt[r]), calls)
  BY DEF TimeOut
<1> DEFINE c == Call(op, r, attempt[r])
<1>2. /\ c.op = op /\ c.req = r /\ c.n = attempt[r]
      /\ attempt[r] \in Nat /\ 1 <= attempt[r]
  BY AttemptBounds DEF Call, BillingInv, CallsTypeOK
<1> HIDE DEF c
<1>3. AttemptFails(c, calls)
  BY <1>1 DEF c
<1>4. \/ /\ stage' = stage
         /\ attempt' = [attempt EXCEPT ![r] = c.n + 1]
         /\ c.n + 1 \in 1 .. ReserveAttempts + UsageAttempts
         /\ \E d : SoundCall(d) /\ d.op = op /\ d.req = r /\ calls' = calls \cup {d}
      \/ stage' = [stage EXCEPT ![r] = GaveUp[op]] /\ attempt' = attempt /\ calls' = calls
  BY <1>2, <1>3, AttemptOutcome
<1>5. \/ /\ stage' = stage
         /\ \E n \in 1 .. ReserveAttempts + UsageAttempts : attempt' = [attempt EXCEPT ![r] = n]
         /\ \E d : SoundCall(d) /\ d.op = op /\ d.req = r /\ calls' = calls \cup {d}
      \/ stage' = [stage EXCEPT ![r] = GaveUp[op]] /\ attempt' = attempt /\ calls' = calls
  BY <1>4
<1>6. UNCHANGED <<mode, cost, walletVars>> /\ calls \in SUBSET calls
  BY DEF TimeOut
<1>7. QED
  BY <1>1, <1>5, <1>6, FailedAttemptMoves

\* The signal, the reporter's stop and the restart move no request.
LEMMA ModeMoves ==
    ASSUME BillingInv,
           UNCHANGED <<stage, attempt, cost, walletVars>>,
           calls' \subseteq calls,
           mode' \in {"up", "draining", "flushing", "down"}
    PROVE  BillingInv'
<1>1. CallsTypeOK'
  BY DEF BillingInv, CallsTypeOK
<1>2. \A c \in calls' : CallFollowsStage(c)'
  BY DEF BillingInv, CallFollowsStage, walletVars
<1>3. \A r \in Requests : HoldFollowsStage(r)' /\ RecordFollowsStage(r)'
  BY DEF BillingInv, HoldFollowsStage, RecordFollowsStage, walletVars
<1>4. QED
  BY <1>1, <1>2, <1>3 DEF BillingInv

LEMMA StepLoseCall ==
    ASSUME BillingInv, NEW c \in calls, LoseCall(c)
    PROVE  BillingInv'
BY ModeMoves DEF LoseCall, BillingInv, CallsTypeOK

\* The end of the process loses every request it was working on, at whatever
\* stage; their calls may still reach the core.
LEMMA StepProcessEnds ==
    ASSUME BillingInv, ProcessEnds
    PROVE  BillingInv'
<1>1. /\ mode' = "down"
      /\ stage' = [r \in Requests |-> IF stage[r] \in Running THEN "lost" ELSE stage[r]]
      /\ UNCHANGED <<attempt, cost, calls, walletVars>>
  BY DEF ProcessEnds
<1>2. /\ CallsTypeOK
      /\ \A c \in calls : CallFollowsStage(c)
      /\ \A r \in Requests : HoldFollowsStage(r) /\ RecordFollowsStage(r)
  BY DEF BillingInv
<1>3. /\ stage' \in [Requests -> Stages]
      /\ \A r \in Requests : \/ stage'[r] = stage[r]
                             \/ <<stage[r], "lost">> \in Moves /\ stage'[r] = "lost"
  BY <1>1, <1>2 DEF CallsTypeOK, Stages, Moves, Running, Over
<1>4. CallsTypeOK'
  BY <1>1, <1>2, <1>3 DEF CallsTypeOK, Stages
<1>5. \A c \in calls' : CallFollowsStage(c)'
  <2> SUFFICES ASSUME NEW c \in calls
               PROVE  CallFollowsStage(c)'
    BY <1>1
  <2>1. c.op \in Ops /\ c.req \in Requests /\ CallFollowsStage(c)
    BY <1>2, CallFields
  <2>2. stage'[c.req] \in MayBeSent[c.op]
    BY <1>3, <2>1, MovesKeepCalls DEF CallFollowsStage
  <2>3. hold' = hold
    BY <1>1 DEF walletVars
  <2>4. QED
    BY <2>1, <2>2, <2>3 DEF CallFollowsStage
<1>6. \A r \in Requests : HoldFollowsStage(r)' /\ RecordFollowsStage(r)'
  <2> SUFFICES ASSUME NEW r \in Requests
               PROVE  HoldFollowsStage(r)' /\ RecordFollowsStage(r)'
    OBVIOUS
  <2>1. /\ hold' = hold /\ overdue' = overdue /\ recorded' = recorded
        /\ charged' = charged /\ cost' = cost
    BY <1>1 DEF walletVars
  <2>2. HoldFollowsStage(r)'
    BY <1>2, <1>3, <2>1 DEF HoldFollowsStage, Admitted
  <2>3. RecordFollowsStage(r)'
    BY <1>2, <1>3, <2>1 DEF RecordFollowsStage, MayBeSent
  <2>4. QED
    BY <2>2, <2>3
<1>7. QED
  BY <1>4, <1>5, <1>6 DEF BillingInv

-----------------------------------------------------------------------------
(* What the core does with an attempt, and with a hold on its own. *)

\* An executed attempt that opens, closes or keeps the hold of its own request,
\* and the move of that request if it waited for the answer.
LEMMA AnswerMoves ==
    ASSUME BillingInv, NEW c \in calls, NEW answer, Answer(c, answer),
           NEW s, s = IF answer = "error" THEN GaveUp[c.op]
                      ELSE IF answer = "refused" THEN "refused"
                      ELSE [reserve |-> "serving", release |-> "released",
                            usage |-> "billed"][c.op],
           answer = "refused" => c.op = "reserve",
           \A q \in Requests \ {c.req} :
              /\ hold'[q] = hold[q]
              /\ q \in overdue' <=> q \in overdue
              /\ q \in recorded' <=> q \in recorded
              /\ charged'[q] = charged[q],
           hold[c.req] # "none" => hold'[c.req] # "none",
           \A t : /\ \/ t = stage[c.req]
                     \/ t = s /\ stage[c.req] = WaitsIn[c.op]
                  /\ stage'[c.req] = t
                  => HoldFollowsStage(c.req)' /\ RecordFollowsStage(c.req)'
    PROVE  BillingInv'
<1>1. /\ c.op \in Ops /\ c.req \in Requests
      /\ CallsTypeOK
      /\ CallFollowsStage(c)
  BY CallFields DEF BillingInv
<1>2. /\ mode' = mode
      /\ cost' = cost
      /\ \/ stage' = stage /\ attempt' = attempt /\ calls' = calls \ {c}
         \/ /\ stage[c.req] = WaitsIn[c.op]
            /\ answer = "error"
            /\ stage' = stage
            /\ \E n \in 1 .. ReserveAttempts + UsageAttempts :
                   attempt' = [attempt EXCEPT ![c.req] = n]
            /\ \E d : /\ SoundCall(d) /\ d.op = c.op /\ d.req = c.req
                      /\ calls' = (calls \ {c}) \cup {d}
         \/ /\ stage[c.req] = WaitsIn[c.op]
            /\ stage' = [stage EXCEPT ![c.req] = s]
            /\ attempt' = attempt
            /\ calls' = calls \ {c}
  BY <1>1, AnswerOutcome
<1>3. /\ mode' \in {"up", "draining", "flushing", "down"}
      /\ cost' \in [Requests -> Amounts \cup {0}]
      /\ attempt' \in [Requests -> 1 .. ReserveAttempts + UsageAttempts]
  BY <1>1, <1>2 DEF CallsTypeOK
<1>4. stage[c.req] = WaitsIn[c.op] => <<stage[c.req], s>> \in Moves
  BY <1>1, OpsAre DEF WaitsIn, GaveUp, Moves
<1>5. \/ stage' = stage
      \/ \E t : stage' = [stage EXCEPT ![c.req] = t] /\ <<stage[c.req], t>> \in Moves
  BY <1>2, <1>4
<1>6. HoldFollowsStage(c.req)' /\ RecordFollowsStage(c.req)'
  <2>1. stage \in [Requests -> Stages]
    BY <1>1 DEF CallsTypeOK, Stages
  <2>2. \/ stage'[c.req] = stage[c.req]
        \/ stage'[c.req] = s /\ stage[c.req] = WaitsIn[c.op]
    BY <1>1, <1>2, <2>1
  <2>3. QED
    BY <2>2
<1>7. \A d \in calls' : d \in calls \/ (SoundCall(d) /\ d.req = c.req /\ CallFollowsStage(d)')
  <2>1. CASE calls' = calls \ {c}
    BY <2>1
  <2>2. CASE /\ stage' = stage
             /\ \E d : /\ SoundCall(d) /\ d.op = c.op /\ d.req = c.req
                       /\ calls' = (calls \ {c}) \cup {d}
    <3>1. PICK d : /\ SoundCall(d) /\ d.op = c.op /\ d.req = c.req
                   /\ calls' = (calls \ {c}) \cup {d}
      BY <2>2
    <3>2. CallFollowsStage(d)'
      BY <1>1, <2>2, <3>1 DEF CallFollowsStage
    <3>3. QED
      BY <3>1, <3>2
  <2>3. QED
    BY <1>2, <2>1, <2>2
<1>8. \A q \in Requests \ {c.req} :
         /\ hold'[q] = hold[q]
         /\ q \in overdue' <=> q \in overdue
         /\ q \in recorded' <=> q \in recorded
         /\ charged'[q] = charged[q]
         /\ cost'[q] = cost[q]
  BY <1>2
<1>9. QED
  BY <1>1, <1>3, <1>5, <1>6, <1>7, <1>8, OneRequestMoves

LEMMA StepHandleReserve ==
    ASSUME TypeOK, BillingInv, NEW c \in calls, HandleReserve(c)
    PROVE  BillingInv'
<1> DEFINE r == c.req
<1>1. /\ c.op = "reserve" /\ r \in Requests
      /\ stage[r] \in MayBeSent["reserve"]
      /\ HoldFollowsStage(r) /\ RecordFollowsStage(r)
      /\ cost' = cost
      /\ hold \in [Requests -> HoldStatus]
  <2>1. CallFollowsStage(c)
    BY DEF BillingInv
  <2>2. QED
    BY <2>1, CallFields DEF HandleReserve, BillingInv, CallFollowsStage, TypeOK, Answer
<1> HIDE DEF r
<1>2. WaitsIn[c.op] = "reserving" /\ [reserve |-> "serving", release |-> "released",
                                      usage |-> "billed"][c.op] = "serving"
  BY <1>1 DEF WaitsIn
<1>3. CASE hold[r] # "none" /\ UNCHANGED walletVars /\ Answer(c, "ok")
  <2>1. hold' = hold /\ overdue' = overdue /\ recorded' = recorded /\ charged' = charged
    BY <1>3 DEF walletVars
  <2>2. \A t : (t = stage[r] \/ (t = "serving" /\ stage[r] = "reserving")) /\ stage'[r] = t
               => HoldFollowsStage(r)' /\ RecordFollowsStage(r)'
    BY <1>1, <1>3, <2>1 DEF HoldFollowsStage, RecordFollowsStage, MayBeSent
  <2>3. QED
    BY <1>1, <1>2, <1>3, <2>1, <2>2, AnswerMoves DEF r
<1>4. CASE ReserveWallet(r, Quote[r]) /\ Answer(c, "ok")
  <2>1. /\ hold[r] = "none"
        /\ hold' = [hold EXCEPT ![r] = "open"]
        /\ overdue' = overdue /\ recorded' = recorded /\ charged' = charged
    BY <1>4 DEF ReserveWallet, HasHold
  <2>2. \A t : (t = stage[r] \/ (t = "serving" /\ stage[r] = "reserving")) /\ stage'[r] = t
               => HoldFollowsStage(r)' /\ RecordFollowsStage(r)'
    BY <1>1, <2>1
       DEF HoldFollowsStage, RecordFollowsStage, MayBeSent, Running, Over, Admitted
  <2>3. QED
    BY <1>1, <1>2, <1>4, <2>1, <2>2, AnswerMoves DEF r
<1>5. CASE UNCHANGED walletVars /\ Answer(c, "refused")
  <2>1. hold' = hold /\ overdue' = overdue /\ recorded' = recorded /\ charged' = charged
    BY <1>5 DEF walletVars
  <2>2. \A t : (t = stage[r] \/ (t = "refused" /\ stage[r] = "reserving")) /\ stage'[r] = t
               => HoldFollowsStage(r)' /\ RecordFollowsStage(r)'
    BY <1>1, <2>1 DEF HoldFollowsStage, RecordFollowsStage, MayBeSent, Admitted
  <2>3. QED
    BY <1>1, <1>2, <1>5, <2>1, <2>2, AnswerMoves DEF r
<1>6. QED
  BY <1>3, <1>4, <1>5 DEF HandleReserve, HasHold, r

LEMMA StepHandleRelease ==
    ASSUME TypeOK, BillingInv, NEW c \in calls, HandleRelease(c)
    PROVE  BillingInv'
<1> DEFINE r == c.req
<1>1. /\ c.op = "release" /\ r \in Requests
      /\ stage[r] \in MayBeSent["release"]
      /\ hold[r] # "none"
      /\ HoldFollowsStage(r) /\ RecordFollowsStage(r)
      /\ cost' = cost
      /\ Answer(c, "ok")
      /\ hold \in [Requests -> HoldStatus]
  <2>1. CallFollowsStage(c)
    BY DEF BillingInv
  <2>2. QED
    BY <2>1, CallFields DEF HandleRelease, BillingInv, CallFollowsStage, TypeOK, Answer
<1> HIDE DEF r
<1>2. WaitsIn[c.op] = "releasing" /\ [reserve |-> "serving", release |-> "released",
                                      usage |-> "billed"][c.op] = "released"
  BY <1>1 DEF WaitsIn
<1>3. /\ (hold' = hold /\ hold[r] # "open") \/ hold' = [hold EXCEPT ![r] = "released"]
      /\ overdue' = overdue /\ recorded' = recorded /\ charged' = charged
  BY DEF HandleRelease, ReleaseWallet, CloseHold, IsOpen, walletVars, r
<1>4. \A t : (t = stage[r] \/ (t = "released" /\ stage[r] = "releasing")) /\ stage'[r] = t
             => HoldFollowsStage(r)' /\ RecordFollowsStage(r)'
  <2>1. hold'[r] \notin {"none", "open"}
    BY <1>1, <1>3
  <2>2. QED
    BY <1>1, <1>3, <2>1 DEF HoldFollowsStage, RecordFollowsStage, MayBeSent
<1>5. /\ hold'[r] # "none"
      /\ \A q \in Requests \ {r} : hold'[q] = hold[q]
  BY <1>1, <1>3
<1>6. QED
  BY <1>1, <1>2, <1>3, <1>4, <1>5, AnswerMoves DEF r

LEMMA StepHandleUsage ==
    ASSUME TypeOK, BillingInv, NEW c \in calls, HandleUsage(c)
    PROVE  BillingInv'
<1> DEFINE r == c.req
<1>1. /\ c.op = "usage" /\ r \in Requests
      /\ stage[r] \in MayBeSent["usage"]
      /\ hold[r] # "none"
      /\ HoldFollowsStage(r) /\ RecordFollowsStage(r)
      /\ cost' = cost
      /\ cost \in [Requests -> Amounts \cup {0}]
      /\ hold \in [Requests -> HoldStatus]
      /\ charged \in [Requests -> Nat]
  <2>1. CallFollowsStage(c)
    BY DEF BillingInv
  <2>2. QED
    BY <2>1, CallFields
       DEF HandleUsage, BillingInv, CallsTypeOK, CallFollowsStage, TypeOK, Answer
<1> HIDE DEF r
<1>2. WaitsIn[c.op] = "reporting" /\ [reserve |-> "serving", release |-> "released",
                                      usage |-> "billed"][c.op] = "billed"
      /\ GaveUp[c.op] = "dropped"
  BY <1>1 DEF WaitsIn, GaveUp
<1>3. CASE RecordUsage(r, cost[r]) /\ Answer(c, "ok")
  <2>1. /\ r \notin recorded
        /\ recorded' = recorded \cup {r}
        /\ overdue' = overdue
    BY <1>3 DEF RecordUsage, Settle
  <2>2. \/ /\ hold[r] = "open"
           /\ hold' = [hold EXCEPT ![r] = "settled"]
           /\ charged' = [charged EXCEPT ![r] = cost[r]]
        \/ hold[r] # "open" /\ hold' = hold /\ charged' = charged
    BY <1>3 DEF RecordUsage, Settle, IsOpen
  <2>3. /\ hold'[r] \notin {"none", "open"}
        /\ \A q \in Requests \ {r} : hold'[q] = hold[q] /\ charged'[q] = charged[q]
    BY <1>1, <2>2
  <2>4. \A t : (t = stage[r] \/ (t = "billed" /\ stage[r] = "reporting")) /\ stage'[r] = t
               => HoldFollowsStage(r)'
    BY <1>1, <2>1, <2>3 DEF HoldFollowsStage, MayBeSent
  <2>5. \/ charged'[r] = cost[r]
        \/ charged'[r] = 0 /\ (stage[r] # "lost" => r \in overdue)
    BY <1>1, <2>1, <2>2 DEF HoldFollowsStage, RecordFollowsStage, MayBeSent
  <2>6. \A t : (t = stage[r] \/ (t = "billed" /\ stage[r] = "reporting")) /\ stage'[r] = t
               => RecordFollowsStage(r)'
    BY <1>1, <2>1, <2>3, <2>5 DEF RecordFollowsStage, MayBeSent
  <2>7. QED
    BY <1>1, <1>2, <1>3, <2>1, <2>3, <2>4, <2>6, AnswerMoves DEF r
<1>4. CASE r \in recorded /\ UNCHANGED walletVars /\ Answer(c, "ok")
  <2>1. hold' = hold /\ overdue' = overdue /\ recorded' = recorded /\ charged' = charged
    BY <1>4 DEF walletVars
  <2>2. \A t : (t = stage[r] \/ (t = "billed" /\ stage[r] = "reporting")) /\ stage'[r] = t
               => HoldFollowsStage(r)' /\ RecordFollowsStage(r)'
    BY <1>1, <1>4, <2>1 DEF HoldFollowsStage, RecordFollowsStage, MayBeSent
  <2>3. QED
    BY <1>1, <1>2, <1>4, <2>1, <2>2, AnswerMoves DEF r
<1>5. CASE UNCHANGED walletVars /\ Answer(c, "error")
  <2>1. hold' = hold /\ overdue' = overdue /\ recorded' = recorded /\ charged' = charged
    BY <1>5 DEF walletVars
  <2>2. \A t : (t = stage[r] \/ (t = "dropped" /\ stage[r] = "reporting")) /\ stage'[r] = t
               => HoldFollowsStage(r)' /\ RecordFollowsStage(r)'
    BY <1>1, <2>1 DEF HoldFollowsStage, RecordFollowsStage, MayBeSent, Admitted
  <2>3. QED
    BY <1>1, <1>2, <1>5, <2>1, <2>2, AnswerMoves DEF r
<1>6. QED
  BY <1>3, <1>4, <1>5 DEF HandleUsage, r

LEMMA StepCoreFails ==
    ASSUME BillingInv, NEW c \in calls, CoreFails(c)
    PROVE  BillingInv'
<1> DEFINE r == c.req
<1>1. /\ c.op \in Ops /\ r \in Requests
      /\ HoldFollowsStage(r) /\ RecordFollowsStage(r)
      /\ cost' = cost
      /\ Answer(c, "error")
      /\ hold' = hold /\ overdue' = overdue /\ recorded' = recorded /\ charged' = charged
  BY CallFields DEF CoreFails, BillingInv, Answer, walletVars
<1> HIDE DEF r
<1>2. \A t : (t = stage[r] \/ (t = GaveUp[c.op] /\ stage[r] = WaitsIn[c.op])) /\ stage'[r] = t
             => HoldFollowsStage(r)' /\ RecordFollowsStage(r)'
  BY <1>1, OpsAre
     DEF HoldFollowsStage, RecordFollowsStage, MayBeSent, Admitted, WaitsIn, GaveUp
<1>3. QED
  BY <1>1, <1>2, AnswerMoves DEF r

\* A hold that lapses or is closed by the janitor, and a payment.
LEMMA HoldMoves ==
    ASSUME BillingInv, UNCHANGED processVars, NEW r \in Requests,
           recorded' = recorded, charged' = charged,
           \A q \in Requests \ {r} :
              hold'[q] = hold[q] /\ (q \in overdue' <=> q \in overdue),
           hold[r] = "open",
           hold'[r] \in {"open", "expired"},
           stage[r] \notin {"idle", "reserving"},
           r \in overdue'
    PROVE  BillingInv'
<1>1. /\ mode' = mode /\ stage' = stage /\ attempt' = attempt /\ cost' = cost /\ calls' = calls
  BY DEF processVars
<1>2. /\ HoldFollowsStage(r) /\ RecordFollowsStage(r)
      /\ cost \in [Requests -> Amounts \cup {0}]
      /\ mode \in {"up", "draining", "flushing", "down"}
      /\ attempt \in [Requests -> 1 .. ReserveAttempts + UsageAttempts]
  BY DEF BillingInv, CallsTypeOK
<1>3. HoldFollowsStage(r)' /\ RecordFollowsStage(r)'
  BY <1>1, <1>2 DEF HoldFollowsStage, RecordFollowsStage
<1>4. QED
  BY <1>1, <1>2, <1>3, OneRequestMoves

LEMMA StepHoldTimesOut ==
    ASSUME BillingInv, NEW r \in Requests, HoldTimesOut(r)
    PROVE  BillingInv'
<1>1. /\ stage[r] # "reserving" /\ hold[r] = "open"
      /\ overdue' = overdue \cup {r}
      /\ hold' = hold /\ recorded' = recorded /\ charged' = charged
      /\ UNCHANGED processVars
  BY DEF HoldTimesOut, HoldLapses, IsOpen
<1>2. stage[r] # "idle"
  BY <1>1 DEF BillingInv, HoldFollowsStage
<1>3. QED
  BY <1>1, <1>2, HoldMoves

LEMMA StepJanitor ==
    ASSUME TypeOK, BillingInv, NEW r \in Requests, Janitor(r)
    PROVE  BillingInv'
<1>1. /\ r \in overdue /\ hold[r] = "open"
      /\ hold' = [hold EXCEPT ![r] = "expired"]
      /\ overdue' = overdue /\ recorded' = recorded /\ charged' = charged
      /\ UNCHANGED processVars
  BY DEF Janitor, ReleaseExpiredHold, CloseHold, IsOpen
<1>2. stage[r] \notin {"idle", "reserving"}
  BY <1>1 DEF BillingInv, HoldFollowsStage
<1>3. hold'[r] = "expired" /\ \A q \in Requests \ {r} : hold'[q] = hold[q]
  <2>1. hold \in [Requests -> HoldStatus]
    BY DEF TypeOK
  <2>2. QED
    BY <1>1, <2>1
<1>4. QED
  BY <1>1, <1>2, <1>3, HoldMoves

LEMMA StepTopUp ==
    ASSUME BillingInv, NEW c \in TopUps, TopUp(c)
    PROVE  BillingInv'
<1>1. /\ hold' = hold /\ overdue' = overdue /\ recorded' = recorded /\ charged' = charged
      /\ mode' = mode /\ stage' = stage /\ attempt' = attempt /\ cost' = cost
      /\ calls' = calls
  BY DEF TopUp, CreditTopup, processVars
<1>2. CallsTypeOK'
  BY <1>1 DEF BillingInv, CallsTypeOK
<1>3. \A c1 \in calls' : CallFollowsStage(c1)'
  BY <1>1 DEF BillingInv, CallFollowsStage
<1>4. \A r \in Requests : HoldFollowsStage(r)' /\ RecordFollowsStage(r)'
  BY <1>1 DEF BillingInv, HoldFollowsStage, RecordFollowsStage
<1>5. QED
  BY <1>2, <1>3, <1>4 DEF BillingInv

-----------------------------------------------------------------------------
(* The whole of it. *)

LEMMA InitBillingInv == BillingInit => BillingInv
<1> SUFFICES ASSUME BillingInit
             PROVE  BillingInv
  OBVIOUS
<1>1. CallsTypeOK
  BY AttemptBounds DEF BillingInit, CallsTypeOK
<1>2. \A r \in Requests : HoldFollowsStage(r) /\ RecordFollowsStage(r)
  BY DEF BillingInit, Init, HoldFollowsStage, RecordFollowsStage, Admitted
<1>3. QED
  BY <1>1, <1>2 DEF BillingInv, BillingInit

LEMMA BillingStep ==
    TypeOK /\ BillingInv /\ [BillingNext]_billingVars => BillingInv'
<1> SUFFICES ASSUME TypeOK, BillingInv, [BillingNext]_billingVars
             PROVE  BillingInv'
  OBVIOUS
<1>1. ASSUME NEW r \in Requests,
             \/ Arrive(r)
             \/ \E c \in Amounts : Serve(r, c)
             \/ Fail(r)
             \/ Deliver(r)
             \/ TimeOut(r)
             \/ HoldTimesOut(r)
             \/ Janitor(r)
      PROVE  BillingInv'
  BY <1>1, StepArrive, StepServe, StepFail, StepDeliver, StepTimeOut, StepHoldTimesOut,
     StepJanitor
<1>2. ASSUME BeginDrain \/ StopReporter \/ Restart
      PROVE  BillingInv'
  BY <1>2, ModeMoves DEF BeginDrain, StopReporter, Restart
<1>3. CASE ProcessEnds
  BY <1>3, StepProcessEnds
<1>4. ASSUME NEW c \in calls,
             \/ LoseCall(c)
             \/ HandleReserve(c)
             \/ HandleRelease(c)
             \/ HandleUsage(c)
             \/ CoreFails(c)
      PROVE  BillingInv'
  BY <1>4, StepLoseCall, StepHandleReserve, StepHandleRelease, StepHandleUsage, StepCoreFails
<1>5. ASSUME NEW c \in TopUps, TopUp(c)
      PROVE  BillingInv'
  BY <1>5, StepTopUp
<1>6. CASE UNCHANGED billingVars
  BY <1>6, ModeMoves DEF billingVars, processVars, BillingInv, CallsTypeOK
<1>7. QED
  BY <1>1, <1>2, <1>3, <1>4, <1>5, <1>6 DEF BillingNext

\* Every step of the composition is at most one transaction of the wallet.
LEMMA StepIsWalletStep ==
    BillingInv /\ [BillingNext]_billingVars => [Next]_vars
<1> SUFFICES ASSUME BillingInv, [BillingNext]_billingVars
             PROVE  [Next]_vars
  OBVIOUS
<1>1. ASSUME UNCHANGED walletVars
      PROVE  [Next]_vars
  BY <1>1 DEF walletVars, vars
<1>2. ASSUME NEW r \in Requests,
             \/ Arrive(r)
             \/ \E c \in Amounts : Serve(r, c)
             \/ Fail(r)
             \/ Deliver(r)
             \/ TimeOut(r)
      PROVE  [Next]_vars
  BY <1>1, <1>2 DEF Arrive, Serve, Fail, Deliver, TimeOut
<1>3. ASSUME NEW r \in Requests, HoldTimesOut(r) \/ Janitor(r)
      PROVE  [Next]_vars
  BY <1>3 DEF HoldTimesOut, Janitor, Next
<1>4. ASSUME BeginDrain \/ StopReporter \/ ProcessEnds \/ Restart
      PROVE  [Next]_vars
  BY <1>1, <1>4 DEF BeginDrain, StopReporter, ProcessEnds, Restart
<1>5. ASSUME NEW c \in calls, LoseCall(c) \/ CoreFails(c)
      PROVE  [Next]_vars
  BY <1>1, <1>5 DEF LoseCall, CoreFails
<1>6. ASSUME NEW c \in calls, HandleReserve(c)
      PROVE  [Next]_vars
  <2>1. UNCHANGED walletVars \/ ReserveWallet(c.req, Quote[c.req])
    BY <1>6 DEF HandleReserve
  <2>2. c.req \in Requests /\ Quote[c.req] \in Amounts
    BY CallFields, BillingAssumption DEF BillingInv
  <2>3. QED
    BY <1>1, <2>1, <2>2 DEF Next
<1>7. ASSUME NEW c \in calls, HandleRelease(c)
      PROVE  [Next]_vars
  <2>1. UNCHANGED walletVars \/ ReleaseWallet(c.req)
    BY <1>7 DEF HandleRelease
  <2>2. c.req \in Requests
    BY CallFields DEF BillingInv
  <2>3. QED
    BY <1>1, <2>1, <2>2 DEF Next
<1>8. ASSUME NEW c \in calls, HandleUsage(c)
      PROVE  [Next]_vars
  <2>1. UNCHANGED walletVars \/ RecordUsage(c.req, cost[c.req])
    BY <1>8 DEF HandleUsage
  <2>2. c.req \in Requests /\ cost[c.req] \in Amounts \cup {0}
    BY CallFields DEF BillingInv, CallsTypeOK
  <2>3. QED
    BY <1>1, <2>1, <2>2 DEF Next
<1>9. ASSUME NEW c \in TopUps, TopUp(c)
      PROVE  [Next]_vars
  BY <1>9 DEF TopUp, Next
<1>10. CASE UNCHANGED billingVars
  BY <1>1, <1>10 DEF billingVars
<1>11. QED
  BY <1>2, <1>3, <1>4, <1>5, <1>6, <1>7, <1>8, <1>9, <1>10 DEF BillingNext

LEMMA BillingInvariant == BillingSpec => [](WalletInv /\ BillingInv)
<1>1. BillingInit => WalletInv /\ BillingInv
  BY InitWalletInv, InitBillingInv DEF BillingInit
<1>2. WalletInv /\ BillingInv /\ [BillingNext]_billingVars => (WalletInv /\ BillingInv)'
  BY WalletStep, BillingStep, StepIsWalletStep DEF WalletInv
<1>3. QED
  BY <1>1, <1>2, PTL DEF BillingSpec

\* The wallet under the traffic of a data plane that repeats, loses and
\* abandons its calls is still the wallet: whatever Wallet's theorems say of
\* holds, balances and the ledger holds of the two services together.
THEOREM BillingImplementsWallet == BillingSpec => Spec
<1>1. BillingInit => Init
  BY DEF BillingInit
<1>2. BillingInv /\ [BillingNext]_billingVars => [Next]_vars
  BY StepIsWalletStep
<1>3. QED
  BY <1>1, <1>2, BillingInvariant, PTL DEF BillingSpec, Spec

-----------------------------------------------------------------------------
(* The room and the workers of the reporter.                               *)

LEMMA InStageIsFinite == \A s : IsFiniteSet(InStage(s)) /\ Cardinality(InStage(s)) \in Nat
<1> SUFFICES ASSUME NEW s
             PROVE  IsFiniteSet(InStage(s)) /\ Cardinality(InStage(s)) \in Nat
  OBVIOUS
<1>1. IsFiniteSet(Requests)
  BY WalletAssumption, FS_Interval DEF Requests
<1>2. InStage(s) \in SUBSET Requests
  BY DEF InStage
<1>3. IsFiniteSet(InStage(s))
  BY <1>1, <1>2, FS_Subset
<1>4. QED
  BY <1>3, FS_CardinalityType

\* A stage that no request enters gets no fuller.
LEMMA NobodyEnters ==
    ASSUME NEW s, NEW n \in Nat, Cardinality(InStage(s)) <= n,
           \A r \in Requests : stage'[r] = s => stage[r] = s
    PROVE  Cardinality(InStage(s)') <= n
<1>1. InStage(s)' \in SUBSET InStage(s)
  BY DEF InStage
<1> DEFINE S == InStage(s)
           T == InStage(s)'
<1>2. IsFiniteSet(S) /\ Cardinality(S) \in Nat /\ Cardinality(S) <= n /\ T \in SUBSET S
  BY <1>1, InStageIsFinite
<1> HIDE DEF S, T
<1>3. Cardinality(T) <= Cardinality(S) /\ IsFiniteSet(T)
  BY <1>2, FS_Subset
<1>4. Cardinality(T) \in Nat
  BY <1>3, FS_CardinalityType
<1>5. Cardinality(T) <= n
  BY <1>2, <1>3, <1>4
<1>6. QED
  BY <1>5 DEF T

\* One that one request enters gets fuller by one.
LEMMA OneEnters ==
    ASSUME NEW s, NEW n \in Nat, Cardinality(InStage(s)) < n, NEW q \in Requests,
           \A r \in Requests \ {q} : stage'[r] = s => stage[r] = s
    PROVE  Cardinality(InStage(s)') <= n
<1> DEFINE S == InStage(s)
           T == InStage(s)'
<1>1. T \in SUBSET (S \cup {q})
  BY DEF InStage
<1>2. IsFiniteSet(S) /\ Cardinality(S) \in Nat /\ Cardinality(S) < n
  BY InStageIsFinite
<1> HIDE DEF S, T
<1>3. /\ IsFiniteSet(S \cup {q})
      /\ Cardinality(S \cup {q}) = IF q \in S THEN Cardinality(S) ELSE Cardinality(S) + 1
  BY <1>2, FS_AddElement
<1>4. Cardinality(T) <= Cardinality(S \cup {q}) /\ IsFiniteSet(T)
  BY <1>1, <1>3, FS_Subset
<1>5. Cardinality(T) \in Nat
  BY <1>4, FS_CardinalityType
<1>6. Cardinality(T) <= n
  BY <1>2, <1>3, <1>4, <1>5
<1>7. QED
  BY <1>6 DEF T

\* Only Serve fills the queue and only Deliver sets a worker to work.
LEMMA ReporterStep ==
    BillingInv /\ ReporterWithinLimits /\ [BillingNext]_billingVars => ReporterWithinLimits'
<1> SUFFICES ASSUME BillingInv, ReporterWithinLimits, [BillingNext]_billingVars
             PROVE  ReporterWithinLimits'
  OBVIOUS
<1>0. stage \in [Requests -> Stages] /\ QueueSize \in Nat /\ Workers \in Nat
  BY BillingAssumption DEF BillingInv, CallsTypeOK, Stages
<1>1. ASSUME \A r \in Requests : \/ stage'[r] = stage[r]
                                \/ stage'[r] \notin {"queued", "reporting"}
      PROVE  ReporterWithinLimits'
  BY <1>0, <1>1, NobodyEnters DEF ReporterWithinLimits
<1>2. ASSUME NEW r, NEW t, stage' = [stage EXCEPT ![r] = t], t \notin {"queued", "reporting"}
      PROVE  ReporterWithinLimits'
  BY <1>0, <1>1, <1>2
<1>3. GaveUp.reserve = "refused" /\ GaveUp.release = "abandoned" /\ GaveUp.usage = "dropped"
  BY DEF GaveUp
<1>4. ASSUME NEW c, NEW pending, c.op \in Ops, AttemptFails(c, pending)
      PROVE  ReporterWithinLimits'
  <2>1. stage' = stage \/ stage' = [stage EXCEPT ![c.req] = GaveUp[c.op]]
    BY <1>4 DEF AttemptFails
  <2>2. GaveUp[c.op] \notin {"queued", "reporting"}
    BY <1>3, <1>4, OpsAre
  <2>3. QED
    BY <1>1, <1>2, <2>1, <2>2
<1>5. ASSUME NEW c \in calls, NEW answer, Answer(c, answer)
      PROVE  ReporterWithinLimits'
  <2>1. c.op \in Ops
    BY CallFields DEF BillingInv
  <2> DEFINE s == [reserve |-> "serving", release |-> "released", usage |-> "billed"][c.op]
  <2>2. s \notin {"queued", "reporting"}
    BY <2>1, OpsAre
  <2>3. \/ stage' = stage
        \/ AttemptFails(c, calls \ {c})
        \/ stage' = [stage EXCEPT ![c.req] = "refused"]
        \/ stage' = [stage EXCEPT ![c.req] = s]
    BY <1>5 DEF Answer
  <2> HIDE DEF s
  <2>4. QED
    BY <1>1, <1>2, <1>4, <2>1, <2>2, <2>3
<1>6. ASSUME NEW r \in Requests, Arrive(r) \/ Fail(r)
      PROVE  ReporterWithinLimits'
  BY <1>2, <1>6 DEF Arrive, Fail, Send, WaitsIn
<1>7. ASSUME NEW r \in Requests, NEW k, Serve(r, k)
      PROVE  ReporterWithinLimits'
  <2>1. CASE stage' = [stage EXCEPT ![r] = "queued"] /\ Cardinality(InStage("queued")) < QueueSize
    <3>1. Cardinality(InStage("queued")') <= QueueSize
      BY <1>0, <2>1, OneEnters
    <3>2. \A q \in Requests : stage'[q] = "reporting" => stage[q] = "reporting"
      BY <1>0, <2>1
    <3>3. Cardinality(InStage("reporting")') <= Workers
      BY <1>0, <3>2, NobodyEnters DEF ReporterWithinLimits
    <3>4. QED
      BY <3>1, <3>3 DEF ReporterWithinLimits
  <2>2. CASE stage' = [stage EXCEPT ![r] = "releasing"]
    <3>1. "releasing" \notin {"queued", "reporting"}
      OBVIOUS
    <3>2. QED
      BY <1>1, <1>0, <2>2, <3>1
  <2>3. QED
    BY <1>7, <2>1, <2>2 DEF Serve, Send, WaitsIn
<1>8. ASSUME NEW r \in Requests, Deliver(r)
      PROVE  ReporterWithinLimits'
  <2>1. stage' = [stage EXCEPT ![r] = "reporting"] /\ Cardinality(InStage("reporting")) < Workers
    BY <1>8 DEF Deliver, Send, WaitsIn
  <2>2. Cardinality(InStage("reporting")') <= Workers
    BY <1>0, <2>1, OneEnters
  <2>3. \A q \in Requests : stage'[q] = "queued" => stage[q] = "queued"
    BY <1>0, <2>1
  <2>4. Cardinality(InStage("queued")') <= QueueSize
    BY <1>0, <2>3, NobodyEnters DEF ReporterWithinLimits
  <2>5. QED
    BY <2>2, <2>4 DEF ReporterWithinLimits
<1>9. ASSUME NEW r \in Requests, TimeOut(r)
      PROVE  ReporterWithinLimits'
  <2>1. PICK op \in Ops : AttemptFails(Call(op, r, attempt[r]), calls)
    BY <1>9 DEF TimeOut
  <2>2. Call(op, r, attempt[r]).op \in Ops
    BY DEF Call
  <2>3. QED
    BY <1>4, <2>1, <2>2
<1>10. CASE ProcessEnds
  BY <1>0, <1>1, <1>10 DEF ProcessEnds, Running
<1>11. ASSUME stage' = stage
       PROVE  ReporterWithinLimits'
  BY <1>1, <1>11
<1>12. QED
  BY <1>5, <1>6, <1>7, <1>8, <1>9, <1>10, <1>11
     DEF BillingNext, HoldTimesOut, Janitor, BeginDrain, StopReporter, Restart, LoseCall,
         HandleReserve, HandleRelease, HandleUsage, CoreFails, TopUp, billingVars, processVars

\* No call is tried more often than its client may, every variable of the data
\* plane has its type, and the reports never outnumber the room of the queue and
\* the workers of the reporter (usage.go), for every number of requests.
THEOREM CallsAreBounded == BillingSpec => []ProcessTypeOK
<1>1. BillingInit => ReporterWithinLimits
  <2> SUFFICES ASSUME BillingInit
               PROVE  ReporterWithinLimits
    OBVIOUS
  <2>1. InStage("queued") = {} /\ InStage("reporting") = {}
    BY DEF BillingInit, InStage
  <2>2. QED
    BY <2>1, FS_EmptySet, BillingAssumption DEF ReporterWithinLimits
<1>2. BillingSpec => []ReporterWithinLimits
  BY <1>1, ReporterStep, BillingInvariant, PTL DEF BillingSpec
<1>3. BillingInv => CallsTypeOK
  BY DEF BillingInv
<1>4. CallsTypeOK /\ ReporterWithinLimits => ProcessTypeOK
  BY DEF ProcessTypeOK
<1>5. QED
  BY <1>2, <1>3, <1>4, BillingInvariant, PTL

\* RecordUsage charges a request its measured cost and no request anything
\* else, whichever attempts of its report reach the core, in whatever order.
THEOREM ChargedForServiceOnly == BillingSpec => []OnlyServedIsCharged
<1>1. BillingInv => OnlyServedIsCharged
  BY DEF BillingInv, RecordFollowsStage, OnlyServedIsCharged
<1>2. QED
  BY <1>1, BillingInvariant, PTL

\* While the upstream works for a request or its report is under way, the core
\* still holds credit for it: a release is only ever sent by a request that
\* will not be reported, so only the hold's own expiry takes it away.
THEOREM CreditBehindEveryRequest == BillingSpec => []ServedUnderHold
<1>1. BillingInv => ServedUnderHold
  BY DEF BillingInv, HoldFollowsStage, ServedUnderHold
<1>2. QED
  BY <1>1, BillingInvariant, PTL

\* A hold that was released or settled is never opened again by an attempt of
\* the reservation that the core executes after the request is over.
THEOREM NothingLeftAside == BillingSpec => []AnsweredLeavesNoHold
<1>1. BillingInv => AnsweredLeavesNoHold
  BY DEF BillingInv, HoldFollowsStage, AnsweredLeavesNoHold
<1>2. QED
  BY <1>1, BillingInvariant, PTL

\* handleReportUsage answers "recorded" or "duplicate" only when the whole cost
\* is charged, or the hold had lapsed.
THEOREM AcknowledgedMeansPaid == BillingSpec => []AcknowledgedIsPaid
<1>1. BillingInv => AcknowledgedIsPaid
  BY DEF BillingInv, RecordFollowsStage, AcknowledgedIsPaid
<1>2. QED
  BY <1>1, BillingInvariant, PTL
=============================================================================
