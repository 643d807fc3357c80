------------------------- MODULE VerifiedWaitProofs -------------------------
(***************************************************************************)
(* A client outlasts the hub's hold but for the causes the code names, the *)
(* agents agree on a documented block, and the money is held once, for     *)
(* every bound a caller may write, every default, slack and limit.         *)
(***************************************************************************)
EXTENDS VerifiedWait, TLAPS

USE WaitAssumption

\* The default is far from every limit.
LEMMA DefaultFits ==
    /\ {Default, Slack, Word, TimerLimit} \subseteq Nat
    /\ Default + Slack < Word /\ Default + Slack < TimerLimit
  OBVIOUS

-----------------------------------------------------------------------------
\* Timeouts, and what the hub makes of the same block

\* The bound of a request is a number, the default where none can be read.
LEMMA BoundType ==
    ASSUME NEW r \in Requests
    PROVE  /\ r.sdk \in Sdks /\ r.wait \in Waits
           /\ r.bound.form \in {"integer", "fraction", "digits", "none", "null", "text"}
           /\ r.bound.n \in Int
           /\ r.bound.form \in {"none", "null", "text"} => r.bound.n = Default
<1>1. r.bound \in WaitTimeouts /\ r.sdk \in Sdks /\ r.wait \in Waits
  BY DEF Requests
<1>2. Bounds \subseteq Int /\ Default \in Int
  OBVIOUS
<1> QED
  BY <1>1, <1>2 DEF WaitTimeouts

\* What the hub makes of a bound is not negative, and no more than the number
\* or the default.
LEMMA HubBoundIs ==
    ASSUME NEW r \in Requests, NEW bound \in HubBounds(r.bound)
    PROVE  /\ bound \in Nat
           /\ \/ r.bound.n > 0 /\ bound = r.bound.n
              \/ r.bound.n <= 0 /\ bound = 0
              \/ r.bound.form = "digits" /\ bound = Default
<1> DEFINE b == r.bound
<1>1. /\ b.form \in {"integer", "fraction", "digits", "none", "null", "text"}
      /\ b.n \in Int
      /\ b.form \in {"none", "null", "text"} => b.n = Default
  BY BoundType
<1>2. CASE b.form \in {"integer", "fraction"}
  <2>1. bound = IF b.n > 0 THEN b.n ELSE 0
    BY <1>2 DEF HubBounds
  <2> QED
    BY <1>1, <2>1
<1>3. CASE b.form = "digits"
  <2>1. bound \in {IF b.n > 0 THEN b.n ELSE 0, Default}
    BY <1>3 DEF HubBounds
  <2> QED
    BY <1>1, <1>3, <2>1
<1>4. CASE b.form \in {"none", "null", "text"}
  <2>1. bound = Default
    BY <1>4 DEF HubBounds
  <2> QED
    BY <1>1, <1>4, <2>1
<1> QED
  BY <1>1, <1>2, <1>3, <1>4

\* The timeout each agent gives a request that waits.
LEMMA RustTimeout ==
    ASSUME NEW r \in Requests, r.sdk = "rust", VerifyBlockWaits(r)
    PROVE  Timeout(r) = (RustSeconds(r.bound) + Slack) % Word
  BY DEF Timeout, WithSlack

LEMMA TsTimeout ==
    ASSUME NEW r \in Requests, r.sdk = "ts", VerifyBlockWaits(r)
    PROVE  Timeout(r) = IF TsSeconds(r.bound) + Slack \in 0..TimerLimit
                        THEN TsSeconds(r.bound) + Slack ELSE 0
  BY DEF Timeout, WithSlack

LEMMA DartTimeout ==
    ASSUME NEW r \in Requests, r.sdk = "dart", VerifyBlockWaits(r)
    PROVE  Timeout(r) = IF DartSeconds(r.bound) + Slack >= 0
                        THEN DartSeconds(r.bound) + Slack ELSE 0
  BY DEF Timeout, WithSlack

\* A whole number below a modulus is its own remainder.
LEMMA NoWrap ==
    ASSUME NEW a \in Nat, NEW w \in Nat, a < w PROVE a % w = a
  OBVIOUS

\* Why a client may give up before a hub that took the block at its word: what
\* AbortedMidWaitOnlyIf names, but for a late request.
Cause(r) ==
    \/ r.sdk = "market"
    \/ r.sdk = "dart" /\ r.wait # "true"
    \/ r.sdk = "rust" /\ r.bound.form \in {"fraction", "digits"} /\ r.bound.n > Default
    \/ r.sdk = "ts" /\ r.bound.form = "digits" /\ r.bound.n < Default
    \/ r.bound.n + Slack >= (IF r.sdk = "rust" THEN Word ELSE TimerLimit)

\* Rust: as_u64() or the default.
LEMMA RustOutlasts ==
    ASSUME NEW r \in Requests, r.sdk = "rust", JsonTruthy(r.wait), ~Cause(r),
           NEW bound \in HubBounds(r.bound)
    PROVE  Timeout(r) \in Nat /\ Timeout(r) >= bound + Slack
<1> DEFINE b == r.bound
           secs == RustSeconds(b)
<1>1. VerifyBlockWaits(r)
  BY DEF VerifyBlockWaits
<1>2. /\ b.n \in Int /\ b.n + Slack < Word
      /\ b.form \in {"fraction", "digits"} => b.n <= Default
      /\ b.form \in {"none", "null", "text"} => b.n = Default
      /\ b.form \in {"integer", "fraction", "digits", "none", "null", "text"}
  BY BoundType, DefaultFits DEF Cause
<1>3. secs \in Nat /\ secs + Slack < Word
  BY <1>2, DefaultFits DEF RustSeconds
<1>4. secs >= bound
  BY <1>2, DefaultFits, HubBoundIs DEF RustSeconds
<1>5. Timeout(r) = secs + Slack
  <2>1. secs + Slack \in Nat /\ Word \in Nat
    BY <1>3, DefaultFits
  <2> QED
    BY <1>1, <1>3, <2>1, RustTimeout, NoWrap
<1> HIDE DEF secs
<1> QED
  BY <1>3, <1>4, <1>5, HubBoundIs, DefaultFits

\* TypeScript: Number() or the default, and a timer of a bounded length.
LEMMA TsOutlasts ==
    ASSUME NEW r \in Requests, r.sdk = "ts", JsonTruthy(r.wait), ~Cause(r),
           NEW bound \in HubBounds(r.bound), bound # 0
    PROVE  Timeout(r) \in Nat /\ Timeout(r) >= bound + Slack
<1> DEFINE b == r.bound
           secs == TsSeconds(b)
<1>1. VerifyBlockWaits(r)
  BY DEF VerifyBlockWaits
<1>2. /\ b.n \in Int /\ b.n + Slack < TimerLimit
      /\ b.form = "digits" => b.n >= Default
      /\ b.form \in {"none", "null", "text"} => b.n = Default
      /\ b.form \in {"integer", "fraction", "digits", "none", "null", "text"}
  BY BoundType, DefaultFits DEF Cause
<1>3. secs \in Nat /\ secs + Slack < TimerLimit /\ secs >= bound
  BY <1>2, DefaultFits, HubBoundIs DEF TsSeconds
<1>4. Timeout(r) = secs + Slack
  <2>1. secs + Slack \in 0..TimerLimit
    BY <1>3, DefaultFits
  <2> QED
    BY <1>1, <2>1, TsTimeout
<1> HIDE DEF secs
<1> QED
  BY <1>3, <1>4, HubBoundIs, DefaultFits

\* Dart: a num, whole or cut off, or the default.
LEMMA DartOutlasts ==
    ASSUME NEW r \in Requests, r.sdk = "dart", r.wait = "true", ~CastThrows(r),
           NEW bound \in HubBounds(r.bound), bound # 0
    PROVE  Timeout(r) \in Nat /\ Timeout(r) >= bound + Slack
<1> DEFINE b == r.bound
           secs == DartSeconds(b)
<1>1. VerifyBlockWaits(r)
  BY DEF VerifyBlockWaits
<1>2. /\ b.n \in Int
      /\ b.form \in {"none", "null"} => b.n = Default
      /\ b.form \in {"integer", "fraction", "none", "null"}
  BY <1>1, BoundType DEF CastThrows
<1>3. secs \in Nat /\ secs >= bound
  <2>1. b.n > 0 /\ bound = b.n
    BY <1>2, HubBoundIs
  <2>2. secs = b.n
    BY <1>2 DEF DartSeconds
  <2> QED
    BY <1>2, <2>1, <2>2
<1>4. Timeout(r) = secs + Slack
  BY <1>1, <1>3, DartTimeout, DefaultFits
<1> HIDE DEF secs
<1> QED
  BY <1>3, <1>4, HubBoundIs, DefaultFits

\* A client of the SDKs outlasts a hold, counted from its request's arrival, by
\* the slack, but for the causes named.
LEMMA Outlasts ==
    ASSUME NEW r \in Requests, JsonTruthy(r.wait), ~CastThrows(r), ~Cause(r),
           NEW bound \in HubBounds(r.bound), bound # 0
    PROVE  Timeout(r) \in Nat /\ Timeout(r) >= bound + Slack
<1>1. r.sdk \in {"rust", "ts"} \/ (r.sdk = "dart" /\ r.wait = "true")
  BY BoundType DEF Cause, Sdks
<1> QED
  BY <1>1, RustOutlasts, TsOutlasts, DartOutlasts

\* A block as documented: a bool, and a positive whole bound or none, within the
\* limits of every language.
Documented(r) ==
    /\ r.wait \in {"none", "false", "true"}
    /\ r.bound.form = "none" \/ (r.bound.form = "integer" /\ r.bound.n > 0)
    /\ \A limit \in {Word, TimerLimit, DurationLimit} : r.bound.n + Slack < limit

\* Of a documented block each agent makes the bound and the slack, or the
\* timeout of any request.
LEMMA DocumentedTimeout ==
    ASSUME NEW r \in Requests, r.sdk \in {"rust", "ts", "dart"}, Documented(r)
    PROVE  Timeout(r) = IF r.wait = "true" THEN r.bound.n + Slack ELSE ClientTimeout
<1> DEFINE b == r.bound
<1>1. /\ b.n \in Nat /\ b.form \in {"none", "integer"}
      /\ b.form = "none" => b.n = Default
      /\ b.form = "integer" => b.n > 0
      /\ b.n + Slack < Word /\ b.n + Slack < TimerLimit
  BY BoundType, DefaultFits DEF Documented
<1>2. VerifyBlockWaits(r) <=> r.wait = "true"
  BY DEF VerifyBlockWaits, JsonTruthy, Documented
<1>3. CASE r.wait # "true"
  BY <1>2, <1>3 DEF Timeout
<1>4. CASE r.wait = "true" /\ r.sdk = "rust"
  <2>1. RustSeconds(b) = b.n
    BY <1>1 DEF RustSeconds
  <2>2. b.n + Slack \in Nat /\ Word \in Nat
    BY <1>1, DefaultFits
  <2> QED
    BY <1>1, <1>2, <1>4, <2>1, <2>2, RustTimeout, NoWrap
<1>5. CASE r.wait = "true" /\ r.sdk = "ts"
  <2>1. TsSeconds(b) = b.n
    BY <1>1 DEF TsSeconds
  <2>2. b.n + Slack \in 0..TimerLimit
    BY <1>1, DefaultFits
  <2> QED
    BY <1>2, <1>5, <2>1, <2>2, TsTimeout
<1>6. CASE r.wait = "true" /\ r.sdk = "dart"
  <2>1. DartSeconds(b) = b.n
    BY <1>1 DEF DartSeconds
  <2>2. b.n + Slack >= 0
    BY <1>1, DefaultFits
  <2> QED
    BY <1>2, <1>6, <2>1, <2>2, DartTimeout
<1> QED
  BY <1>3, <1>4, <1>5, <1>6

-----------------------------------------------------------------------------
\* The invariant

WaitTypes ==
    /\ now \in Nat /\ ended \in Nat /\ arrived \in Nat /\ until \in Nat
    /\ pc \in {"idle", "waiting", "ok", "aborted", "threw"}
    /\ request \in Requests
    /\ net \in {"none", "request", "held", "answered"}
    /\ money \in {"none", "held", "settled", "refunded"}
    /\ holds \in Nat

\* A client that waits, or waited, did so for its timeout.
Timed ==
    /\ pc = "idle" => net = "none"
    /\ pc \in {"waiting", "aborted"} => timer = Timeout(request) /\ ~CastThrows(request)
    /\ pc = "aborted" => ended >= timer

\* The hub holds the money of a request once it has it, and the answer no
\* longer than the block says.
Held ==
    /\ net \in {"none", "request"} => holds = 0 /\ money = "none"
    /\ net \in {"held", "answered"} => holds = 1 /\ money # "none"
    /\ holds > 0 =>
           \/ until = arrived
           \/ /\ JsonTruthy(request.wait)
              /\ \E bound \in HubBounds(request.bound) : until = arrived + bound

\* A verdict that was told is what became of the money.
Truthful ==
    /\ net = "answered" /\ said \in {"settled", "refunded"} => money = said
    /\ told \in {"settled", "refunded"} => money = told

WaitInv == WaitTypes /\ Timed /\ Held /\ Truthful

\* What the hub makes of a bound is a length of time.
LEMMA HubBoundNat ==
    ASSUME WaitTypes PROVE \A bound \in HubBounds(request.bound) : bound \in Nat
  BY HubBoundIs DEF WaitTypes

LEMMA InitWait == Init => WaitInv
  BY DEF Init, WaitInv, WaitTypes, Timed, Held, Truthful

\* Every step keeps the invariant.
LEMMA WaitStep == WaitInv /\ [Next]_vars => WaitInv'
<1> SUFFICES ASSUME WaitInv, [Next]_vars PROVE WaitInv'
  OBVIOUS
<1> USE DEF WaitInv, WaitTypes, Timed, Held, Truthful, caller, hub
<1>1. CASE Invoke
  <2>1. net' = "request" /\ holds' = 0 /\ money' = "none"
    BY <1>1 DEF Invoke
  <2>2. pc' \in {"waiting", "threw"} /\ (pc' = "waiting" => ~CastThrows(request))
    BY <1>1 DEF Invoke
  <2> QED
    BY <1>1, <2>1, <2>2 DEF Invoke
<1>2. CASE InvokePanics
  BY <1>2 DEF InvokePanics
<1>3. CASE InvokeReturns
  BY <1>3 DEF InvokeReturns
<1>4. CASE InvokeTimesOut
  BY <1>4 DEF InvokeTimesOut
<1>5. CASE HubHolds
  <2>1. PICK waits \in HubWaits(request.wait), bound \in HubBounds(request.bound) :
            until' = IF waits THEN now + bound ELSE now
    BY <1>5 DEF HubHolds
  <2>2. bound \in Nat /\ until' \in Nat
    BY <2>1, HubBoundNat
  <2>3. waits => JsonTruthy(request.wait)
    BY <2>1 DEF HubWaits, JsonTruthy
  <2>4. holds' = 1 /\ net' = "held" /\ money' = "held" /\ arrived' = now
    BY <1>5 DEF HubHolds
  <2>5. UNCHANGED <<now, caller, said>>
    BY <1>5 DEF HubHolds
  <2>6. \/ until' = arrived'
        \/ JsonTruthy(request.wait) /\ until' = arrived' + bound
    BY <2>1, <2>3, <2>4
  <2> QED
    BY <2>2, <2>4, <2>5, <2>6, <1>5 DEF HubHolds
<1>6. CASE HubJudges
  BY <1>6 DEF HubJudges
<1>7. CASE HubAnswers
  BY <1>7 DEF HubAnswers
<1>8. CASE Tick
  BY <1>8 DEF Tick
<1>9. CASE UNCHANGED vars
  BY <1>9 DEF vars
<1> QED
  BY <1>1, <1>2, <1>3, <1>4, <1>5, <1>6, <1>7, <1>8, <1>9 DEF Next

LEMMA WaitInvariance == Spec => []WaitInv
  BY InitWait, WaitStep, PTL DEF Spec

-----------------------------------------------------------------------------
\* The properties

\* "exceeding the wait bound keeps the client from aborting mid-wait": whatever
\* the bound, a client gives up under the hub's hold only when its request was
\* late, or for one of the causes AbortedMidWaitOnlyIf names.
THEOREM ClientOutlastsHub == Spec => []AbortedMidWaitOnlyIf
<1>1. WaitInv => AbortedMidWaitOnlyIf
  <2> SUFFICES ASSUME WaitInv, AbortedMidWait, arrived <= Slack, ~Cause(request) PROVE FALSE
    BY DefaultFits DEF AbortedMidWaitOnlyIf, Cause, WaitInv, WaitTypes
  <2> USE DEF WaitInv, WaitTypes, AbortedMidWait
  <2>1. timer = Timeout(request) /\ ~CastThrows(request) /\ ended >= timer
    BY DEF Timed
  <2>2. JsonTruthy(request.wait)
    BY DEF Held
  <2>3. PICK bound \in HubBounds(request.bound) : until = arrived + bound
    BY DEF Held
  <2>4. bound \in Nat /\ bound # 0
    BY <2>3, HubBoundNat
  <2>5. Timeout(request) \in Nat /\ Timeout(request) >= bound + Slack
    BY <2>1, <2>2, <2>4, Outlasts
  <2> QED
    BY <2>1, <2>3, <2>4, <2>5, DefaultFits
<1> QED
  BY <1>1, WaitInvariance, PTL

\* The three agents make the same timeout of a block as documented.
THEOREM DocumentedBlockIsAgreed == Spec => []AgentsWaitAlike
<1>1. WaitInv => AgentsWaitAlike
  <2> SUFFICES ASSUME request \in Requests, Documented(request),
                      NEW sdk \in {"rust", "ts", "dart"}
               PROVE  Timeout([request EXCEPT !.sdk = sdk])
                          = Timeout([request EXCEPT !.sdk = "rust"])
    BY DEF AgentsWaitAlike, Documented, WaitInv, WaitTypes
  <2>1. ASSUME NEW s \in {"rust", "ts", "dart"}
        PROVE  LET r == [request EXCEPT !.sdk = s] IN
               /\ r \in Requests /\ r.sdk = s /\ r.wait = request.wait /\ r.bound = request.bound
    <3>1. DurationLimit \in {Word, TimerLimit, DurationLimit}
      OBVIOUS
    <3>2. request.bound.n + Slack < DurationLimit
      BY <3>1 DEF Documented
    <3> QED
      BY <3>2 DEF Requests, Sdks
  <2>2. ASSUME NEW s \in {"rust", "ts", "dart"}
        PROVE  Timeout([request EXCEPT !.sdk = s])
                   = IF request.wait = "true" THEN request.bound.n + Slack ELSE ClientTimeout
    <3> DEFINE r == [request EXCEPT !.sdk = s]
    <3>1. r \in Requests /\ r.sdk = s /\ r.wait = request.wait /\ r.bound = request.bound
      BY <2>1
    <3>2. Documented(r)
      BY <3>1 DEF Documented
    <3> HIDE DEF r
    <3>3. Timeout(r) = IF request.wait = "true" THEN request.bound.n + Slack ELSE ClientTimeout
      BY <3>1, <3>2, DocumentedTimeout
    <3> QED
      BY <3>3 DEF r
  <2> QED
    BY <2>2
<1> QED
  BY <1>1, WaitInvariance, PTL

\* On a documented block no agent gives up under the hub's hold, if its request
\* took no longer than the slack.
Patient ==
    Documented(request) /\ request.sdk # "market" /\ arrived <= Slack => ~AbortedMidWait

\* An agent given the documented block is patient.
THEOREM DocumentedBlockOutlasts == Spec => []Patient
<1>1. WaitInv /\ AbortedMidWaitOnlyIf => Patient
  <2> SUFFICES ASSUME WaitInv, AbortedMidWaitOnlyIf, AbortedMidWait,
                      Documented(request), request.sdk # "market", arrived <= Slack
               PROVE  FALSE
    BY DEF Patient
  <2>1. request.wait = "true"
    BY DEF WaitInv, WaitTypes, Held, AbortedMidWait, Documented, JsonTruthy
  <2>2. request.bound.n + Slack < Word /\ request.bound.n + Slack < TimerLimit
    BY DEF Documented
  <2>3. request.bound.n \in Int /\ request.bound.form \in {"none", "integer"}
    BY BoundType DEF Documented, WaitInv, WaitTypes
  <2> QED
    BY <2>1, <2>2, <2>3, DefaultFits DEF AbortedMidWaitOnlyIf, WaitInv, WaitTypes
<1> QED
  BY <1>1, WaitInvariance, ClientOutlastsHub, PTL

\* The money of an invoke is held once, and a verdict that was told is true.
THEOREM MoneyHeldOnce == Spec => []HeldOnce
<1>1. WaitInv => HeldOnce
  BY DEF WaitInv, WaitTypes, Held, Truthful, HeldOnce
<1> QED
  BY <1>1, WaitInvariance, PTL
=============================================================================
