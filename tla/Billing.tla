------------------------------ MODULE Billing ------------------------------
(***************************************************************************)
(* A request of the data plane (kiro-go) paid from the wallet of the       *)
(* control plane (napkey-core): the hold taken before the upstream is      *)
(* called, the release when nothing is billed, the usage report queued     *)
(* and delivered after the response, the HTTP calls between the two        *)
(* processes, the shutdown of the data plane and its sudden end.           *)
(*                                                                         *)
(* A call is one HTTP attempt.  The network may lose it, the core may      *)
(* execute it long after the client gave up on it, and the answer may be   *)
(* lost.  What the core does with it is an action of Wallet.  Promotional  *)
(* credit is Wallet's subject and stays out of this composition.           *)
(***************************************************************************)
EXTENDS Wallet, FiniteSets

CONSTANTS
    Quote,              \* what the core quotes for each request
    ReserveAttempts,    \* 3 in billingClient.Reserve
    UsageAttempts,      \* usageMaxAttempts
    QueueSize,          \* usageQueueSize
    Workers             \* usageWorkers

ASSUME BillingAssumption ==
    /\ Quote \in [Requests -> Amounts]
    /\ ReserveAttempts \in Nat \ {0}
    /\ UsageAttempts \in Nat \ {0}
    /\ QueueSize \in Nat
    /\ Workers \in Nat \ {0}

VARIABLES
    mode,       \* "up", "draining", "flushing" or "down"
    stage,      \* where the data plane is with each request
    attempt,    \* the attempt in progress of the request's current call
    cost,       \* what the upstream's answer costs, 0 until it is served
    calls       \* attempts on their way to the core

walletVars == <<wallet, lapsed, trialRow, hold, amount, overdue, recorded,
                charged, credited, expiredOut>>
processVars == <<mode, stage, attempt, cost, calls>>
billingVars == <<walletVars, processVars>>

\* The stage in which the handler or a worker waits for an answer.
WaitsIn == [reserve |-> "reserving", release |-> "releasing", usage |-> "reporting"]
MaxAttempts == [reserve |-> ReserveAttempts, release |-> 1, usage |-> UsageAttempts]
\* Mutation: a reservation nobody answered lets the request through.
GaveUpOpen == [reserve |-> "serving", release |-> "abandoned", usage |-> "dropped"]

\* Where a request ends up when no attempt was answered.
GaveUp == [reserve |-> "refused", release |-> "abandoned", usage |-> "dropped"]

Ops == DOMAIN WaitsIn
Running == {"reserving", "serving", "queued", "reporting", "releasing"}
Over == {"refused", "released", "abandoned", "billed", "dropped", "lost"}
Call(op, r, n) == [op |-> op, req |-> r, n |-> n]
Calls == [op : Ops, req : Requests, n : 1 .. ReserveAttempts + UsageAttempts]

Waiting(c) == stage[c.req] = WaitsIn[c.op] /\ attempt[c.req] = c.n

-----------------------------------------------------------------------------
(* The data plane. *)

\* Enter a stage that waits for an answer and send the first attempt.
Send(r, op, pending) ==
    /\ stage' = [stage EXCEPT ![r] = WaitsIn[op]]
    /\ attempt' = [attempt EXCEPT ![r] = 1]
    /\ calls' = pending \cup {Call(op, r, 1)}

\* Mutation: one attempt too many.
AttemptFailsOnceMore(c, pending) ==
    \/ /\ c.n <= MaxAttempts[c.op]
       /\ attempt' = [attempt EXCEPT ![c.req] = c.n + 1]
       /\ calls' = pending \cup {Call(c.op, c.req, c.n + 1)}
       /\ UNCHANGED stage
    \/ /\ c.n > MaxAttempts[c.op]
       /\ stage' = [stage EXCEPT ![c.req] = GaveUp[c.op]]
       /\ calls' = pending
       /\ UNCHANGED attempt

\* An attempt came to nothing: the next one, or the end of it.  A client that
\* hangs up ends the reservation early; stopping the reporter ends a report.
AttemptFails(c, pending) ==
    LET stopped == c.op = "usage" /\ mode = "flushing" IN
    \/ /\ c.n < MaxAttempts[c.op]
       /\ ~ stopped
       /\ attempt' = [attempt EXCEPT ![c.req] = c.n + 1]
       /\ calls' = pending \cup {Call(c.op, c.req, c.n + 1)}
       /\ UNCHANGED stage
    \/ /\ c.n = MaxAttempts[c.op] \/ c.op = "reserve" \/ stopped
       /\ stage' = [stage EXCEPT ![c.req] = GaveUp[c.op]]
       /\ calls' = pending
       /\ UNCHANGED attempt

\* The request passed authentication and the rate limit: reserveBilling.
Arrive(r) ==
    /\ mode = "up"
    /\ stage[r] = "idle"
    /\ Send(r, "reserve", calls)
    /\ UNCHANGED <<mode, cost, walletVars>>

InStage(s) == {r \in Requests : stage[r] = s}

\* Mutation: a report that does not fit the queue still counts as consumed.
ServeConsumingAlways(r, c) ==
    /\ stage[r] = "serving"
    /\ cost' = [cost EXCEPT ![r] = c]
    /\ stage' = [stage EXCEPT ![r] =
                    IF Cardinality(InStage("queued")) < QueueSize THEN "queued" ELSE "released"]
    /\ UNCHANGED <<mode, attempt, calls, walletVars>>

\* The upstream answered.  recordSuccessForApiKey queues the usage report and
\* marks the lease consumed; a full queue refuses the report, and the handler's
\* deferred releaseIfUnused releases the hold.
Serve(r, c) ==
    /\ stage[r] = "serving"
    /\ cost' = [cost EXCEPT ![r] = c]
    /\ IF Cardinality(InStage("queued")) < QueueSize
       THEN /\ stage' = [stage EXCEPT ![r] = "queued"]
            /\ UNCHANGED <<attempt, calls>>
       ELSE Send(r, "release", calls)
    /\ UNCHANGED <<mode, walletVars>>

\* The upstream failed: releaseIfUnused.
Fail(r) ==
    /\ stage[r] = "serving"
    /\ Send(r, "release", calls)
    /\ UNCHANGED <<mode, cost, walletVars>>

\* A worker of the reporter takes the report off the queue.
Deliver(r) ==
    /\ stage[r] = "queued"
    /\ Cardinality(InStage("reporting")) < Workers
    /\ Send(r, "usage", calls)
    /\ UNCHANGED <<mode, cost, walletVars>>

\* Mutation: a worker of the reporter waits for its answer without a timeout.
TimeOutButUsage(r) ==
    /\ \E op \in Ops \ {"usage"} :
        /\ stage[r] = WaitsIn[op]
        /\ AttemptFails(Call(op, r, attempt[r]), calls)
    /\ UNCHANGED <<mode, cost, walletVars>>

\* No answer within the HTTP client's timeout; the attempt may yet arrive.
TimeOut(r) ==
    /\ \E op \in Ops :
        /\ stage[r] = WaitsIn[op]
        /\ AttemptFails(Call(op, r, attempt[r]), calls)
    /\ UNCHANGED <<mode, cost, walletVars>>

\* SIGTERM: srv.Shutdown, then usageReporter.Shutdown whether or not every
\* handler finished in time.
BeginDrain ==
    /\ mode = "up"
    /\ mode' = "draining"
    /\ UNCHANGED <<stage, attempt, cost, calls, walletVars>>

StopReporter ==
    /\ mode = "draining"
    /\ mode' = "flushing"
    /\ UNCHANGED <<stage, attempt, cost, calls, walletVars>>

\* The process ends, at the end of main or killed at any other time.
ProcessEnds ==
    /\ mode # "down"
    /\ mode' = "down"
    /\ stage' = [r \in Requests |-> IF stage[r] \in Running THEN "lost" ELSE stage[r]]
    /\ UNCHANGED <<attempt, cost, calls, walletVars>>

Restart ==
    /\ mode = "down"
    /\ mode' = "up"
    /\ UNCHANGED <<stage, attempt, cost, calls, walletVars>>

-----------------------------------------------------------------------------
(* The network and the core. *)

LoseCall(c) ==
    /\ c \in calls
    /\ calls' = calls \ {c}
    /\ UNCHANGED <<mode, stage, attempt, cost, walletVars>>

\* The core has executed c and answers; the answer may find nobody waiting.
Answer(c, answer) ==
    LET pending == calls \ {c}
        EndsIn(s) == /\ stage' = [stage EXCEPT ![c.req] = s]
                     /\ calls' = pending
                     /\ UNCHANGED attempt
    IN  /\ \/ UNCHANGED <<stage, attempt>> /\ calls' = pending
           \/ /\ Waiting(c)
              /\ \/ answer = "error" /\ AttemptFails(c, pending)
                 \/ answer = "refused" /\ EndsIn("refused")
                 \/ answer = "ok" /\ EndsIn([reserve |-> "serving", release |-> "released",
                                            usage |-> "billed"][c.op])
        /\ UNCHANGED <<mode, cost>>

\* handleReserveWallet: a hold of any status answers the retry.
HandleReserve(c) ==
    /\ c \in calls /\ c.op = "reserve"
    /\ \/ HasHold(c.req) /\ UNCHANGED walletVars /\ Answer(c, "ok")
       \/ ReserveWallet(c.req, Quote[c.req]) /\ Answer(c, "ok")
       \/ /\ ~ HasHold(c.req)
          /\ ~ Admits(Expire(wallet), Quote[c.req])
          /\ UNCHANGED walletVars
          /\ Answer(c, "refused")

\* handleReleaseWallet: "not_found" is a success too.
HandleRelease(c) ==
    /\ c \in calls /\ c.op = "release"
    /\ \/ ReleaseWallet(c.req)
       \/ ~ IsOpen(c.req) /\ UNCHANGED walletVars
    /\ Answer(c, "ok")

\* Mutation: the usage is charged at the quote of the reservation.
HandleUsageAtQuote(c) ==
    /\ c \in calls /\ c.op = "usage"
    /\ \/ RecordUsage(c.req, Quote[c.req])
       \/ c.req \in recorded /\ UNCHANGED walletVars
    /\ Answer(c, "ok")

\* Mutation: a refused settlement keeps the usage row and answers "recorded".
HandleUsageKeepingRow(c) ==
    /\ c \in calls /\ c.op = "usage"
    /\ \/ RecordUsage(c.req, cost[c.req])
       \/ c.req \in recorded /\ UNCHANGED walletVars
       \/ /\ c.req \notin recorded /\ IsOpen(c.req) /\ ~ CanSettle(c.req, cost[c.req])
          /\ recorded' = recorded \cup {c.req}
          /\ UNCHANGED <<wallet, lapsed, trialRow, hold, amount, overdue,
                         charged, credited, expiredOut>>
    /\ Answer(c, "ok")

\* handleReportUsage: a settlement the wallet refuses undoes the usage row and
\* answers 503, which the reporter retries.
HandleUsage(c) ==
    /\ c \in calls /\ c.op = "usage"
    /\ \/ RecordUsage(c.req, cost[c.req]) /\ Answer(c, "ok")
       \/ c.req \in recorded /\ UNCHANGED walletVars /\ Answer(c, "ok")
       \/ /\ c.req \notin recorded
          /\ IsOpen(c.req)
          /\ ~ CanSettle(c.req, cost[c.req])
          /\ UNCHANGED walletVars
          /\ Answer(c, "error")

\* The store is unavailable, or two transactions conflict: a 5xx.
CoreFails(c) ==
    /\ c \in calls
    /\ UNCHANGED walletVars
    /\ Answer(c, "error")

\* A hold outlives its quarter of an hour, much longer than the reservation's
\* attempts take together.
HoldTimesOut(r) ==
    /\ stage[r] # "reserving"
    /\ HoldLapses(r)
    /\ UNCHANGED processVars

Janitor(r) == ReleaseExpiredHold(r) /\ UNCHANGED processVars
TopUp(c) == CreditTopup(c) /\ UNCHANGED processVars

-----------------------------------------------------------------------------

BillingInit ==
    /\ Init
    /\ mode = "up"
    /\ stage = [r \in Requests |-> "idle"]
    /\ attempt = [r \in Requests |-> 1]
    /\ cost = [r \in Requests |-> 0]
    /\ calls = {}

BillingNext ==
    \/ \E r \in Requests :
        \/ Arrive(r)
        \/ \E c \in Amounts : Serve(r, c)
        \/ Fail(r)
        \/ Deliver(r)
        \/ TimeOut(r)
        \/ HoldTimesOut(r)
        \/ Janitor(r)
    \/ BeginDrain \/ StopReporter \/ ProcessEnds \/ Restart
    \/ \E c \in calls :
        \/ LoseCall(c)
        \/ HandleReserve(c)
        \/ HandleRelease(c)
        \/ HandleUsage(c)
        \/ CoreFails(c)
    \/ \E c \in TopUps : TopUp(c)

BillingSpec == BillingInit /\ [][BillingNext]_billingVars

\* Handlers, HTTP timeouts, upstream answers and the janitor all come in time;
\* calls may be lost for ever and the process need not stay up.
BillingFairness ==
    \A r \in Requests :
        /\ WF_billingVars(TimeOut(r))
        /\ WF_billingVars(Fail(r) \/ \E c \in Amounts : Serve(r, c))
        /\ WF_billingVars(Deliver(r))
        /\ WF_billingVars(HoldTimesOut(r))
        /\ WF_billingVars(Janitor(r))

FairBillingSpec == BillingSpec /\ BillingFairness

-----------------------------------------------------------------------------
(***************************************************************************)
(* Properties.                                                             *)
(***************************************************************************)

\* The types of the variables, and the attempts of a call.
CallsTypeOK ==
    /\ mode \in {"up", "draining", "flushing", "down"}
    /\ stage \in [Requests -> {"idle"} \cup Running \cup Over]
    /\ attempt \in [Requests -> 1 .. ReserveAttempts + UsageAttempts]
    /\ cost \in [Requests -> Amounts \cup {0}]
    /\ calls \subseteq Calls
    /\ \A c \in calls : c.n <= MaxAttempts[c.op]

\* The channel of the reporter and its goroutines.
ReporterWithinLimits ==
    /\ Cardinality(InStage("queued")) <= QueueSize
    /\ Cardinality(InStage("reporting")) <= Workers

\* The variables have their types, no call is tried more often than its client
\* may, and no more reports wait or are under way than the reporter has room and
\* workers for.
ProcessTypeOK == CallsTypeOK /\ ReporterWithinLimits

\* A customer pays for what was served and its measured cost, once, however
\* many attempts of whichever call arrive late, twice or not at all.
OnlyServedIsCharged ==
    \A r \in Requests : charged[r] \in {0, cost[r]}

\* The upstream never works for a request without credit set aside for it: no
\* late or repeated call closes the hold of a request in flight.  Only its
\* quarter of an hour does.
ServedUnderHold ==
    \A r \in Requests :
        stage[r] \in {"serving", "queued", "reporting"} =>
            hold[r] = "open" \/ r \in overdue \/ r \in recorded

\* A request the data plane saw through to the end leaves nothing set aside,
\* although attempts of its reservation may still reach the core afterwards.
AnsweredLeavesNoHold ==
    \A r \in Requests :
        stage[r] \in {"released", "billed"} => hold[r] # "open"

\* A report answered "recorded" or "duplicate" is a charge of the full cost,
\* unless the hold lapsed before it came.
AcknowledgedIsPaid ==
    \A r \in Requests :
        stage[r] = "billed" => charged[r] = cost[r] \/ r \in overdue

\* Every request comes to an end on the data plane's side.
RequestsEnd == \A r \in Requests : stage[r] # "idle" ~> stage[r] \in Over

\* Credit set aside comes back even if the data plane dies, the release is
\* lost, or a reservation arrives after the client gave up on it.
HoldsComeBack == \A r \in Requests : hold[r] = "open" ~> hold[r] # "open"

\* Neither a request nor the credit set aside for it is ever left hanging
\* between the two services.
RequestsAndHoldsEnd == RequestsEnd /\ HoldsComeBack
=============================================================================
