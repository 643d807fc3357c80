---------------------------- MODULE VerifiedWait ----------------------------
(***************************************************************************)
(* An invoke with a Pay-on-Verified block: the hub holds the money until   *)
(* the output is judged and, if the block says wait, holds the answer with *)
(* it, for wait_timeout_s at most.  The client must outlast it: the Rust   *)
(* SDK (rust/src/agent.rs, verified_wait_timeout), the TypeScript and the  *)
(* Dart agent (invokeOnce) give such a request a timeout of its own;       *)
(* market.run (typescript/src/market.ts) forwards the block and does not.  *)
(*                                                                         *)
(* One invoke: invokes share nothing here.  Time is in seconds; a fraction *)
(* of one is dropped.                                                      *)
(***************************************************************************)
EXTENDS Integers

CONSTANTS
    Bounds,         \* numbers a caller writes as wait_timeout_s
    Default,        \* the bound when none is given: 300
    Slack,          \* what the client allows on top: 30
    ClientTimeout,  \* the timeout of any other request
    Word,           \* seconds that fit Rust's u64
    TimerLimit,     \* seconds a JavaScript timer can wait
    DurationLimit,  \* seconds that fit Dart's Duration; a longer bound is not modelled
    MaxTime         \* bound on the clock

ASSUME WaitAssumption ==
    /\ Bounds \subseteq Int
    /\ {Default, Slack, ClientTimeout, Word, TimerLimit, DurationLimit, MaxTime} \subseteq Nat
    /\ \A limit \in {Word, TimerLimit, DurationLimit} : Default + Slack < limit

VARIABLES
    now,       \* since the call
    pc,        \* the caller: "idle", "waiting", "ok", "aborted", "threw"
    request,   \* the program that invokes, wait and wait_timeout_s of its block
    timer,     \* the client's timeout for the request
    ended,     \* when the call was over
    told,      \* what the caller was told of the money
    net,       \* "none", "request", "held", "answered"
    arrived,   \* when the hub had the request
    until,     \* when the hub answers at the latest
    said,      \* what the answer says of the money
    money,     \* "none", "held", "settled", "refunded"
    holds      \* how often money was held

caller == <<pc, request, timer, ended, told>>
hub    == <<net, arrived, until, said, money, holds>>
vars   == <<now, caller, hub>>

Sdks  == {"rust", "ts", "dart", "market"}
Waits == {"none", "null", "false", "true", "zero", "number", "empty", "text", "object"}

\* wait_timeout_s: left out or null; a number, whole or with a fraction; a
\* text of digits; another text.
WaitTimeouts ==
    [form : {"integer", "fraction", "digits"}, n : Bounds] \cup
    [form : {"none", "null", "text"}, n : {Default}]

Requests == {r \in [sdk : Sdks, wait : Waits, bound : WaitTimeouts] :
                r.sdk = "dart" => r.bound.n + Slack < DurationLimit}

-----------------------------------------------------------------------------
\* What each program makes of the block

JsonTruthy(w) == w \in {"true", "number", "text", "object"}

VerifyBlockWaits(r) ==
    CASE r.sdk = "dart"   -> r.wait = "true"
      [] r.sdk = "market" -> FALSE
      [] OTHER            -> JsonTruthy(r.wait)

\* as_u64().unwrap_or(300): neither a fraction nor a negative number is one.
RustSeconds(b) == IF b.form = "integer" /\ b.n >= 0 THEN b.n ELSE Default

\* Number(b) || 300.
TsSeconds(b) ==
    IF b.form = "fraction" \/ (b.form \in {"integer", "digits"} /\ b.n # 0) THEN b.n ELSE Default

\* Mutant: a bound left out is read as 0.
DartSecondsZero(b) == IF b.form \in {"integer", "fraction"} THEN b.n ELSE 0

\* (b as num?)?.toInt() ?? 300.
DartSeconds(b) == IF b.form \in {"integer", "fraction"} THEN b.n ELSE Default

\* Mutant: the client waits as long as the hub.
BareTimeout(secs) == secs

WithSlack(secs) == secs + Slack

\* The addition wraps in a release build; a JavaScript timer that would be too
\* long or negative fires at once, and so does a negative one in Dart.
Timeout(r) ==
    IF ~VerifyBlockWaits(r) THEN ClientTimeout
    ELSE CASE r.sdk = "rust" -> WithSlack(RustSeconds(r.bound)) % Word
           [] r.sdk = "ts"   -> LET t == WithSlack(TsSeconds(r.bound)) IN
                                IF t \in 0..TimerLimit THEN t ELSE 0
           [] OTHER          -> LET t == WithSlack(DartSeconds(r.bound)) IN
                                IF t >= 0 THEN t ELSE 0

\* A text is no num: the cast throws when post() has been called.
CastThrows(r) == r.sdk = "dart" /\ VerifyBlockWaits(r) /\ r.bound.form \in {"digits", "text"}

\* The addition overflows: a panic in a debug build, before anything is sent.
MayPanic(r) == r.sdk = "rust" /\ VerifyBlockWaits(r) /\ WithSlack(RustSeconds(r.bound)) >= Word

-----------------------------------------------------------------------------
Init ==
    /\ now = 0
    /\ pc = "idle" /\ told = "none"
    /\ request \in Requests
    /\ timer = 0 /\ ended = 0
    /\ net = "none" /\ said = "none" /\ money = "none" /\ holds = 0
    /\ arrived = 0 /\ until = 0

Invoke ==
    /\ pc = "idle"
    /\ pc' = IF CastThrows(request) THEN "threw" ELSE "waiting"
    /\ timer' = Timeout(request)
    /\ net' = "request"
    /\ UNCHANGED <<now, request, ended, told, arrived, until, said, money, holds>>

InvokePanics ==
    /\ pc = "idle" /\ MayPanic(request)
    /\ pc' = "threw"
    /\ UNCHANGED <<now, request, timer, ended, told, hub>>

\* The caller is told what had become of the money: held still, settled or refunded.
InvokeReturns ==
    /\ pc = "waiting" /\ net = "answered"
    /\ pc' = "ok"
    /\ told' = said
    /\ ended' = now
    /\ UNCHANGED <<now, request, timer, hub>>

\* Mutant: an invoke that timed out is posted again.
InvokeTimesOutResends ==
    /\ pc = "waiting" /\ now >= timer
    /\ pc' = "aborted"
    /\ ended' = now
    /\ net' = "request"
    /\ UNCHANGED <<now, request, timer, told, arrived, until, said, money, holds>>

InvokeTimesOut ==
    /\ pc = "waiting" /\ now >= timer
    /\ pc' = "aborted"
    /\ ended' = now
    /\ UNCHANGED <<now, request, timer, told, hub>>

-----------------------------------------------------------------------------
\* The hub, the network and the clock

\* wait is documented as a bool: of another value that is truthy the hub may
\* make one thing or the other.
HubWaits(w) ==
    CASE w = "true" -> {TRUE} [] JsonTruthy(w) -> BOOLEAN [] OTHER -> {FALSE}

HubBounds(b) ==
    CASE b.form \in {"integer", "fraction"} -> {IF b.n > 0 THEN b.n ELSE 0}
      [] b.form = "digits" -> {IF b.n > 0 THEN b.n ELSE 0, Default}
      [] OTHER -> {Default}

HubHolds ==
    /\ net = "request"
    /\ net' = "held"
    /\ money' = "held" /\ holds' = holds + 1
    /\ arrived' = now
    /\ \E waits \in HubWaits(request.wait), bound \in HubBounds(request.bound) :
           until' = IF waits THEN now + bound ELSE now
    /\ UNCHANGED <<now, caller, said>>

HubJudges ==
    /\ money = "held"
    /\ money' \in {"settled", "refunded"}
    /\ UNCHANGED <<now, caller, net, arrived, until, said, holds>>

HubAnswers ==
    /\ net = "held"
    /\ money # "held" \/ now >= until
    /\ net' = "answered"
    /\ said' = money
    /\ UNCHANGED <<now, caller, arrived, until, money, holds>>

\* Timers fire in time, and the hub keeps its bound; a request or an answer
\* takes as long as it takes.
Tick ==
    /\ pc # "idle" /\ now < MaxTime
    /\ ~(pc = "waiting" /\ now >= timer)
    /\ ~(net = "held" /\ now >= until)
    /\ now' = now + 1
    /\ UNCHANGED <<caller, hub>>

Next ==
    \/ Invoke \/ InvokePanics \/ InvokeReturns \/ InvokeTimesOut
    \/ HubHolds \/ HubJudges \/ HubAnswers
    \/ Tick

Spec == Init /\ [][Next]_vars

-----------------------------------------------------------------------------
\* Properties

\* The call was aborted while the hub was holding its answer.
AbortedMidWait == pc = "aborted" /\ holds > 0 /\ arrived <= ended /\ ended < until

\* "exceeding the wait bound keeps the client from aborting mid-wait": a call is
\* aborted mid-wait only if its request took longer than the slack, or
\* - market.run made it, or Dart with a wait that is truthy and not true,
\* - Rust read a bound above the default from a fraction or a text,
\* - TypeScript read a bound from a text where the hub took the default,
\* - the bound is too long for the client's timer.
AbortedMidWaitOnlyIf ==
    AbortedMidWait =>
        LET b == request.bound IN
        \/ arrived > Slack
        \/ request.sdk = "market"
        \/ request.sdk = "dart" /\ request.wait # "true"
        \/ request.sdk = "rust" /\ b.form \in {"fraction", "digits"} /\ b.n > Default
        \/ request.sdk = "ts" /\ b.form = "digits" /\ b.n < Default
        \/ b.n + Slack >= (IF request.sdk = "rust" THEN Word ELSE TimerLimit)

\* A block as documented, a bool and a positive whole bound, gets the same
\* timeout from the three agents.
AgentsWaitAlike ==
    LET b == request.bound IN
    /\ request.wait \in {"none", "false", "true"}
    /\ b.form = "none" \/ (b.form = "integer" /\ b.n > 0)
    /\ \A limit \in {Word, TimerLimit, DurationLimit} : b.n + Slack < limit
    => \A sdk \in {"rust", "ts", "dart"} :
           Timeout([request EXCEPT !.sdk = sdk]) = Timeout([request EXCEPT !.sdk = "rust"])

\* Whatever was aborted, lost or late, the money of one invoke is held once, and
\* a caller who was told of a verdict was told what became of it.
HeldOnce == holds <= 1 /\ (told \in {"settled", "refunded"} => money = told)
=============================================================================
