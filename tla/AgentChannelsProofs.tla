------------------------ MODULE AgentChannelsProofs ------------------------
(***************************************************************************)
(* AgentChannels keeps the inductive invariant of AgentChannelsInv and     *)
(* implements PaidCalls, for every set of calls, channels, keys and        *)
(* deposits, every price and every balance.  Its sessions (AgentSession)   *)
(* keep the manifest fresh, every channel in reach and every account       *)
(* balanced; the agents of an event loop (EventLoopChannels) keep the same *)
(* invariant and pay by the same promise.                                  *)
(***************************************************************************)
EXTENDS AgentChannelsInv, AgentSession, EventLoopChannels, FiniteSetTheorems, TLAPS

USE ConstantsAssumption

\* The initial state satisfies the whole invariant.
LEMMA InitIInv == Init => IInv
<1> SUFFICES ASSUME Init PROVE IInv
  OBVIOUS
<1> USE DEF Init, Empty, NoTerms, NoAccount, ApiKey
<1>1. TypeOK
  BY DEF TypeOK, Stages, Nets, SomeChannel, SomeTx, Asks, Entries, Terms
<1>2. Shape
  BY DEF Shape, StageShape, NetShape, Awaiting, CloseBegun
<1>3. Handles
  BY DEF Handles, UnreadIsFresh, CapturedIsPrivate, KnownIsProvable, CacheAgreesWithHub,
         CloseAnswered, NotCachedOnceClosing, OpenAnswersItsCaller, SecretLostOnlyWithAnswer,
         RequestsCarryProof, Known, CloseBegun
<1>4. Payment
  <2>1. \A c \in Calls : debits[c] = 0 /\ result[c] = "none" /\ op[c] = "none"
    OBVIOUS
  <2>2. 0 \in 0..1 /\ 0 # 1
    OBVIOUS
  <2> QED
    BY <2>1, <2>2, Zenon DEF Payment
<1> QED
  BY <1>1, <1>2, <1>3, <1>4 DEF IInv

\* Every step keeps the types of the variables.
LEMMA TypeStep == TypeOK /\ Shape /\ [Next]_vars => TypeOK'
<1> SUFFICES ASSUME TypeOK, Shape, [Next]_vars PROVE TypeOK'
  OBVIOUS
<1> USE DEF NoAccount, TypeOK, Stages, Nets, SomeChannel, SomeTx, Asks, Entries, Terms,
            caller, exchange, agent, hub
<1>1. ASSUME NEW c \in Calls, NEW k \in Keys, NEW t \in SomeTx, OpenHit(c, k, t)
      PROVE  TypeOK'
  BY <1>1 DEF OpenHit, AfterOpen, Api
<1>2. ASSUME NEW c \in Calls, NEW k \in Keys, NEW t \in SomeTx, OpenMiss(c, k, t)
      PROVE  TypeOK'
  BY <1>2 DEF OpenMiss, Api, Post, Empty
<1>3. ASSUME NEW c \in Calls, OpenWithoutHash(c) PROVE TypeOK'
  BY <1>3 DEF OpenWithoutHash
<1>4. ASSUME NEW c \in Calls, OpenCapture(c) PROVE TypeOK'
<2>1. pc[c] = "opening" /\ net[c] = "ok"
  BY <1>4 DEF OpenCapture
<2>2. NetShape(c)
  BY DEF Shape
<2>3. op[c] = "open"
  BY <2>1, <2>2 DEF NetShape, Awaiting
<2>4. about[c] # NoChannel
  BY <2>1, <2>2, <2>3 DEF NetShape
<2>5. about[c] \in Channels
  BY <2>4
<2> QED
  BY <1>4, <2>5 DEF OpenCapture, Read
<1>5. ASSUME NEW c \in Calls, OpenReturns(c) PROVE TypeOK'
  BY <1>5 DEF OpenReturns, AfterOpen, Shape, StageShape
<1>6. ASSUME NEW c \in Calls, OpenUndecodable(c) PROVE TypeOK'
  BY <1>6 DEF OpenUndecodable
<1>7. ASSUME NEW c \in Calls, NEW ch \in SomeChannel, InvokeSend(c, ch)
      PROVE  TypeOK'
  BY <1>7 DEF InvokeSend, Api, Post, Secret
<1>8. ASSUME NEW c \in Calls, InvokeWithoutRail(c) PROVE TypeOK'
  BY <1>8 DEF InvokeWithoutRail
<1>9. ASSUME NEW c \in Calls, InvokeReturns(c) PROVE TypeOK'
  BY <1>9 DEF InvokeReturns, Read
<1>10. ASSUME NEW c \in Calls, NEW ch \in Channels, CloseSend(c, ch) PROVE TypeOK'
  BY <1>10 DEF CloseSend, Api, Empty, Post, Secret, Wallet
<1>11. ASSUME NEW c \in Calls, CloseReturns(c) PROVE TypeOK'
  BY <1>11 DEF CloseReturns, Read
<1>12. ASSUME NEW c \in Calls, Refused(c) PROVE TypeOK'
  BY <1>12 DEF Refused, Read
<1>13. ASSUME NEW c \in Calls, TransportError(c) PROVE TypeOK'
  BY <1>13 DEF TransportError
<1>14. ASSUME NEW c \in Calls, RunOnce(c) PROVE TypeOK'
  BY <1>14 DEF RunOnce
<1>15. ASSUME NEW c \in Calls, RequestLost(c) PROVE TypeOK'
  BY <1>15 DEF RequestLost, Answer
<1>16. ASSUME NEW c \in Calls, NEW ch \in Channels, HubOpen(c, ch) PROVE TypeOK'
  BY <1>16 DEF HubOpen, Answer
<1>17. ASSUME NEW c \in Calls, HubDebitChannel(c) PROVE TypeOK'
  BY <1>17 DEF HubDebitChannel, Requested, Answer, Debited
<1>18. ASSUME NEW c \in Calls, HubDebitCredit(c) PROVE TypeOK'
  BY <1>18 DEF HubDebitCredit, Requested, Answer, Debited
<1>19. ASSUME NEW c \in Calls, HubClose(c) PROVE TypeOK'
  BY <1>19 DEF HubClose, Requested, Answer
<1>20. ASSUME NEW c \in Calls, HubRefuse(c) PROVE TypeOK'
  BY <1>20 DEF HubRefuse, Answer
<1>21. ASSUME NEW c \in Calls, HubFail(c) PROVE TypeOK'
  BY <1>21 DEF HubFail, Answer
<1>22. ASSUME Dispose PROVE TypeOK'
  BY <1>22 DEF Dispose, Empty
<1>23. ASSUME NEW ch \in Channels, Expire(ch) PROVE TypeOK'
  BY <1>23 DEF Expire
<1>24. CASE UNCHANGED vars
  BY <1>24 DEF vars
<1> QED
  BY <1>1, <1>2, <1>3, <1>4, <1>5, <1>6, <1>7, <1>8, <1>9, <1>10, <1>11, <1>12,
     <1>13, <1>14, <1>15, <1>16, <1>17, <1>18, <1>19, <1>20, <1>21, <1>22, <1>23, <1>24
     DEF Next, Client, Operation, Hub

\* An agent keeps its way to pay: with an api_key or without.
LEMMA RailStays == TypeOK /\ [Next]_vars => ApiKey' = ApiKey
<1> SUFFICES ASSUME TypeOK, [Next]_vars PROVE ApiKey' = ApiKey
  OBVIOUS
<1>1. ASSUME NEW c \in Calls, HubDebitCredit(c) PROVE ApiKey' = ApiKey
  BY <1>1 DEF HubDebitCredit, ApiKey, NoAccount, TypeOK
<1>2. ASSUME credit' = credit PROVE ApiKey' = ApiKey
  BY <1>2 DEF ApiKey
<1>3. ASSUME NEW c \in Calls, Client(c) PROVE credit' = credit
  BY <1>3 DEF Client, Operation, OpenHit, OpenMiss, OpenWithoutHash, OpenCapture, OpenReturns,
     OpenUndecodable, InvokeSend, InvokeWithoutRail, InvokeReturns, CloseSend, CloseReturns,
     Refused, TransportError, RunOnce, hub
<1>4. ASSUME NEW c \in Calls, Hub(c), ~HubDebitCredit(c) PROVE credit' = credit
  BY <1>4 DEF Hub, RequestLost, HubOpen, HubDebitChannel, HubClose, HubRefuse, HubFail, hub
<1>5. ASSUME Dispose \/ (\E ch \in Channels : Expire(ch)) \/ UNCHANGED vars
      PROVE  credit' = credit
  BY <1>5 DEF Dispose, Expire, hub, vars
<1> QED
  BY <1>1, <1>2, <1>3, <1>4, <1>5 DEF Next

\* Every step keeps a call and its exchange in step with each other.
LEMMA ShapeStep == TypeOK /\ Shape /\ [Next]_vars => Shape'
<1> SUFFICES ASSUME TypeOK, Shape, [Next]_vars PROVE Shape'
  OBVIOUS
<1>a. ApiKey' = ApiKey
  BY RailStays
<1> USE <1>a
<1> USE DEF TypeOK, Stages, Nets, SomeChannel, SomeTx, Asks, Entries, Terms,
            caller, exchange, agent, hub, Shape, StageShape, NetShape, Awaiting,
            CloseBegun
<1>1. ASSUME NEW c \in Calls, NEW k \in Keys, NEW t \in SomeTx, OpenHit(c, k, t)
      PROVE  Shape'
  BY <1>1 DEF OpenHit, AfterOpen, Api, MayOpen, Reuses
<1>2. ASSUME NEW c \in Calls, NEW k \in Keys, NEW t \in SomeTx, OpenMiss(c, k, t)
      PROVE  Shape'
  BY <1>2 DEF OpenMiss, Api, MayOpen, Post, Empty
<1>3. ASSUME NEW c \in Calls, OpenWithoutHash(c) PROVE Shape'
  BY <1>3 DEF OpenWithoutHash
<1>4. ASSUME NEW c \in Calls, OpenCapture(c) PROVE Shape'
  BY <1>4 DEF OpenCapture, Read
<1>5. ASSUME NEW c \in Calls, OpenReturns(c) PROVE Shape'
  BY <1>5 DEF OpenReturns, AfterOpen
<1>6. ASSUME NEW c \in Calls, OpenUndecodable(c) PROVE Shape'
  BY <1>6 DEF OpenUndecodable
<1>7. ASSUME NEW c \in Calls, NEW ch \in SomeChannel, InvokeSend(c, ch)
      PROVE  Shape'
  BY <1>7 DEF InvokeSend, Api, HandedOut, Post, Secret
<1>8. ASSUME NEW c \in Calls, InvokeWithoutRail(c) PROVE Shape'
  BY <1>8 DEF InvokeWithoutRail
<1>9. ASSUME NEW c \in Calls, InvokeReturns(c) PROVE Shape'
  BY <1>9 DEF InvokeReturns, Read
<1>10. ASSUME NEW c \in Calls, NEW ch \in Channels, CloseSend(c, ch) PROVE Shape'
  BY <1>10 DEF CloseSend, Api, HandedOut, Empty, Post, Secret, Wallet
<1>11. ASSUME NEW c \in Calls, CloseReturns(c) PROVE Shape'
  BY <1>11 DEF CloseReturns, Read
<1>12. ASSUME NEW c \in Calls, Refused(c) PROVE Shape'
  BY <1>12 DEF Refused, Read
<1>13. ASSUME NEW c \in Calls, TransportError(c) PROVE Shape'
  BY <1>13 DEF TransportError
<1>14. ASSUME NEW c \in Calls, RunOnce(c) PROVE Shape'
  BY <1>14 DEF RunOnce
<1>15. ASSUME NEW c \in Calls, RequestLost(c) PROVE Shape'
  BY <1>15 DEF RequestLost, Answer
<1>16. ASSUME NEW c \in Calls, NEW ch \in Channels, HubOpen(c, ch) PROVE Shape'
  BY <1>16 DEF HubOpen, Answer, Requested
<1>17. ASSUME NEW c \in Calls, HubDebitChannel(c) PROVE Shape'
  BY <1>17 DEF HubDebitChannel, Requested, Answer, Debited
<1>18. ASSUME NEW c \in Calls, HubDebitCredit(c) PROVE Shape'
  BY <1>18 DEF HubDebitCredit, Requested, Answer, Debited
<1>19. ASSUME NEW c \in Calls, HubClose(c) PROVE Shape'
  BY <1>19 DEF HubClose, Requested, Answer
<1>20. ASSUME NEW c \in Calls, HubRefuse(c) PROVE Shape'
  BY <1>20 DEF HubRefuse, Answer
<1>21. ASSUME NEW c \in Calls, HubFail(c) PROVE Shape'
  BY <1>21 DEF HubFail, Answer, Requested
<1>22. ASSUME Dispose PROVE Shape'
  BY <1>22 DEF Dispose, Empty
<1>23. ASSUME NEW ch \in Channels, Expire(ch) PROVE Shape'
  BY <1>23 DEF Expire
<1>24. CASE UNCHANGED vars
  BY <1>24 DEF vars
<1> QED
  BY <1>1, <1>2, <1>3, <1>4, <1>5, <1>6, <1>7, <1>8, <1>9, <1>10, <1>11, <1>12,
     <1>13, <1>14, <1>15, <1>16, <1>17, <1>18, <1>19, <1>20, <1>21, <1>22, <1>23, <1>24
     DEF Next, Client, Operation, Hub

\* Every step keeps a call's exchange truthful about its debit.
LEMMA PaymentStep == TypeOK /\ Shape /\ Payment /\ [Next]_vars => Payment'
<1> SUFFICES ASSUME TypeOK, Shape, Payment, [Next]_vars PROVE Payment'
  OBVIOUS
<1> USE DEF TypeOK, Stages, Nets, SomeChannel, SomeTx, Asks, Entries, Terms,
            caller, exchange, agent, hub, Shape, StageShape, NetShape, Awaiting,
            CloseBegun, Payment
<1>1. ASSUME NEW c \in Calls, NEW k \in Keys, NEW t \in SomeTx, OpenHit(c, k, t)
      PROVE  Payment'
  BY <1>1 DEF OpenHit, AfterOpen, Api, MayOpen, Reuses
<1>2. ASSUME NEW c \in Calls, NEW k \in Keys, NEW t \in SomeTx, OpenMiss(c, k, t)
      PROVE  Payment'
<2>0. op[c] = "none" /\ result[c] = "none"
  BY <1>2 DEF OpenMiss, MayOpen
<2>1. debits[c] \in 0..1 /\ debits[c] # 1
  BY <2>0
<2> QED
  BY <1>2, <2>1 DEF OpenMiss, Post
<1>3. ASSUME NEW c \in Calls, OpenWithoutHash(c) PROVE Payment'
  BY <1>3 DEF OpenWithoutHash
<1>4. ASSUME NEW c \in Calls, OpenCapture(c) PROVE Payment'
  BY <1>4 DEF OpenCapture, Read
<1>5. ASSUME NEW c \in Calls, OpenReturns(c) PROVE Payment'
  BY <1>5 DEF OpenReturns, AfterOpen
<1>6. ASSUME NEW c \in Calls, OpenUndecodable(c) PROVE Payment'
  BY <1>6 DEF OpenUndecodable
<1>7. ASSUME NEW c \in Calls, NEW ch \in SomeChannel, InvokeSend(c, ch)
      PROVE  Payment'
<2>0. op[c] = "none" /\ result[c] = "none"
  BY <1>7 DEF InvokeSend
<2>1. debits[c] \in 0..1 /\ debits[c] # 1
  BY <2>0
<2> QED
  BY <1>7, <2>1 DEF InvokeSend, Post
<1>8. ASSUME NEW c \in Calls, InvokeWithoutRail(c) PROVE Payment'
  BY <1>8 DEF InvokeWithoutRail
<1>9. ASSUME NEW c \in Calls, InvokeReturns(c) PROVE Payment'
  BY <1>9 DEF InvokeReturns, Read
<1>10. ASSUME NEW c \in Calls, NEW ch \in Channels, CloseSend(c, ch) PROVE Payment'
  BY <1>10 DEF CloseSend, Api, HandedOut, Empty, Post, Secret, Wallet
<1>11. ASSUME NEW c \in Calls, CloseReturns(c) PROVE Payment'
<2>1. op[c] = "close"
  BY <1>11 DEF CloseReturns
<2>2. debits[c] = 1 => result[c] = "paid"
  BY <2>1
<2> QED
  BY <1>11, <2>2 DEF CloseReturns, Read
<1>12. ASSUME NEW c \in Calls, Refused(c) PROVE Payment'
  BY <1>12 DEF Refused, Read
<1>13. ASSUME NEW c \in Calls, TransportError(c) PROVE Payment'
  BY <1>13 DEF TransportError
<1>14. ASSUME NEW c \in Calls, RunOnce(c) PROVE Payment'
  BY <1>14 DEF RunOnce
<1>15. ASSUME NEW c \in Calls, RequestLost(c) PROVE Payment'
  BY <1>15 DEF RequestLost, Answer
<1>16. ASSUME NEW c \in Calls, NEW ch \in Channels, HubOpen(c, ch) PROVE Payment'
  BY <1>16 DEF HubOpen, Answer, Requested
<1>17. ASSUME NEW c \in Calls, HubDebitChannel(c) PROVE Payment'
  BY <1>17 DEF HubDebitChannel, Requested, Answer, Debited
<1>18. ASSUME NEW c \in Calls, HubDebitCredit(c) PROVE Payment'
  BY <1>18 DEF HubDebitCredit, Requested, Answer, Debited
<1>19. ASSUME NEW c \in Calls, HubClose(c) PROVE Payment'
  BY <1>19 DEF HubClose, Requested, Answer
<1>20. ASSUME NEW c \in Calls, HubRefuse(c) PROVE Payment'
  BY <1>20 DEF HubRefuse, Answer
<1>21. ASSUME NEW c \in Calls, HubFail(c) PROVE Payment'
  BY <1>21 DEF HubFail, Answer, Requested
<1>22. ASSUME Dispose PROVE Payment'
  BY <1>22 DEF Dispose, Empty
<1>23. ASSUME NEW ch \in Channels, Expire(ch) PROVE Payment'
  BY <1>23 DEF Expire
<1>24. CASE UNCHANGED vars
  BY <1>24 DEF vars
<1> QED
  BY <1>1, <1>2, <1>3, <1>4, <1>5, <1>6, <1>7, <1>8, <1>9, <1>10, <1>11, <1>12,
     <1>13, <1>14, <1>15, <1>16, <1>17, <1>18, <1>19, <1>20, <1>21, <1>22, <1>23, <1>24
     DEF Next, Client, Operation, Hub

\* Every step keeps what the agent, its callers and the hub know of a channel
\* consistent.
LEMMA HandlesStep == IInv /\ [Next]_vars => Handles'
<1> SUFFICES ASSUME TypeOK, Shape, Handles, [Next]_vars PROVE Handles'
  BY DEF IInv
<1>a. ApiKey' = ApiKey
  BY RailStays
<1> USE <1>a
<1> USE DEF TypeOK, Stages, Nets, SomeChannel, SomeTx, Asks, Entries, Terms,
            caller, exchange, agent, hub, Shape, StageShape, NetShape, Awaiting,
            CloseBegun, Handles, UnreadIsFresh, CapturedIsPrivate,
            KnownIsProvable, CacheAgreesWithHub, CloseAnswered,
            NotCachedOnceClosing, OpenAnswersItsCaller, SecretLostOnlyWithAnswer,
            RequestsCarryProof, Known
<1>1. ASSUME NEW c \in Calls, NEW k \in Keys, NEW t \in SomeTx, OpenHit(c, k, t)
      PROVE  Handles'
<2>1. UnreadIsFresh'
  <3>1. op[c] = "none"
    BY <1>1 DEF OpenHit, MayOpen
  <3>2. \A d \in Calls : held'[d] \in {held[d], cache[k].ch}
    BY <1>1 DEF OpenHit
  <3>3. \A d \in Calls : op[d] = "open" /\ about[d] # NoChannel => ~Known(about[d])'
    BY <1>1, <3>2 DEF OpenHit
  <3> QED
    BY <1>1, <3>1, <3>3 DEF OpenHit
<2>2. CapturedIsPrivate'
  BY <1>1 DEF OpenHit, AfterOpen, Api, MayOpen, Reuses
<2>3. KnownIsProvable'
  BY <1>1 DEF OpenHit, AfterOpen, Api, MayOpen, Reuses
<2>4. CacheAgreesWithHub'
  BY <1>1 DEF OpenHit, AfterOpen, Api, MayOpen, Reuses
<2>5. CloseAnswered'
  BY <1>1 DEF OpenHit, AfterOpen, Api, MayOpen, Reuses
<2>6. NotCachedOnceClosing'
  BY <1>1 DEF OpenHit, AfterOpen, Api, MayOpen, Reuses
<2>7. OpenAnswersItsCaller'
  BY <1>1 DEF OpenHit, AfterOpen, Api, MayOpen, Reuses
<2>8. SecretLostOnlyWithAnswer'
  BY <1>1 DEF OpenHit, AfterOpen, Api, MayOpen, Reuses
<2>9. RequestsCarryProof'
  BY <1>1 DEF OpenHit, AfterOpen, Api, MayOpen, Reuses
<2> QED
  BY <2>1, <2>2, <2>3, <2>4, <2>5, <2>6, <2>7, <2>8, <2>9
<1>2. ASSUME NEW c \in Calls, NEW k \in Keys, NEW t \in SomeTx, OpenMiss(c, k, t)
      PROVE  Handles'
<2>1. UnreadIsFresh'
  BY <1>2 DEF OpenMiss, Api, MayOpen, Post, Empty
<2>2. CapturedIsPrivate'
  BY <1>2 DEF OpenMiss, Api, MayOpen, Post, Empty
<2>3. KnownIsProvable'
  BY <1>2 DEF OpenMiss, Api, MayOpen, Post, Empty
<2>4. CacheAgreesWithHub'
  BY <1>2 DEF OpenMiss, Api, MayOpen, Post, Empty
<2>5. CloseAnswered'
  BY <1>2 DEF OpenMiss, Api, MayOpen, Post, Empty
<2>6. NotCachedOnceClosing'
  BY <1>2 DEF OpenMiss, Api, MayOpen, Post, Empty
<2>7. OpenAnswersItsCaller'
  BY <1>2 DEF OpenMiss, Api, MayOpen, Post, Empty
<2>8. SecretLostOnlyWithAnswer'
  <3>1. op[c] = "none"
    BY <1>2 DEF OpenMiss, MayOpen
  <3> QED
    BY <1>2, <3>1 DEF OpenMiss, Post
<2>9. RequestsCarryProof'
  BY <1>2 DEF OpenMiss, Api, MayOpen, Post, Empty
<2> QED
  BY <2>1, <2>2, <2>3, <2>4, <2>5, <2>6, <2>7, <2>8, <2>9
<1>3. ASSUME NEW c \in Calls, OpenWithoutHash(c) PROVE Handles'
  BY <1>3 DEF OpenWithoutHash
<1>4. ASSUME NEW c \in Calls, OpenCapture(c) PROVE Handles'
  BY <1>4 DEF OpenCapture, Read
<1>5. ASSUME NEW c \in Calls, OpenReturns(c) PROVE Handles'
  BY <1>5 DEF OpenReturns, AfterOpen
<1>6. ASSUME NEW c \in Calls, OpenUndecodable(c) PROVE Handles'
  BY <1>6 DEF OpenUndecodable
<1>7. ASSUME NEW c \in Calls, NEW ch \in SomeChannel, InvokeSend(c, ch)
      PROVE  Handles'
  BY <1>7 DEF InvokeSend, Api, HandedOut, Post, Secret
<1>8. ASSUME NEW c \in Calls, InvokeWithoutRail(c) PROVE Handles'
  BY <1>8 DEF InvokeWithoutRail
<1>9. ASSUME NEW c \in Calls, InvokeReturns(c) PROVE Handles'
  BY <1>9 DEF InvokeReturns, Read
<1>10. ASSUME NEW c \in Calls, NEW ch \in Channels, CloseSend(c, ch) PROVE Handles'
  BY <1>10 DEF CloseSend, Api, HandedOut, Empty, Post, Secret, Wallet
<1>11. ASSUME NEW c \in Calls, CloseReturns(c) PROVE Handles'
  BY <1>11 DEF CloseReturns, Read
<1>12. ASSUME NEW c \in Calls, Refused(c) PROVE Handles'
  BY <1>12 DEF Refused, Read
<1>13. ASSUME NEW c \in Calls, TransportError(c) PROVE Handles'
  BY <1>13 DEF TransportError
<1>14. ASSUME NEW c \in Calls, RunOnce(c) PROVE Handles'
  BY <1>14 DEF RunOnce
<1>15. ASSUME NEW c \in Calls, RequestLost(c) PROVE Handles'
  BY <1>15 DEF RequestLost, Answer
<1>16. ASSUME NEW c \in Calls, NEW ch \in Channels, HubOpen(c, ch) PROVE Handles'
  BY <1>16 DEF HubOpen, Answer, Requested
<1>17. ASSUME NEW c \in Calls, HubDebitChannel(c) PROVE Handles'
  BY <1>17 DEF HubDebitChannel, Requested, Answer, Debited
<1>18. ASSUME NEW c \in Calls, HubDebitCredit(c) PROVE Handles'
  BY <1>18 DEF HubDebitCredit, Requested, Answer, Debited
<1>19. ASSUME NEW c \in Calls, HubClose(c) PROVE Handles'
<2>1. UnreadIsFresh'
  BY <1>19 DEF HubClose, Requested, Answer
<2>2. CapturedIsPrivate'
  <3>1. about[c] = held[c] /\ CloseBegun(c) /\ pc[c] # "captured"
    BY <1>19 DEF HubClose, Requested
  <3>2. ASSUME NEW d \in Calls, pc[d] = "captured" PROVE about[c] # held[d]
    BY <3>1, <3>2
  <3> QED
    BY <1>19, <3>2 DEF HubClose, Answer
<2>3. KnownIsProvable'
  BY <1>19 DEF HubClose, Requested, Answer
<2>4. CacheAgreesWithHub'
  BY <1>19 DEF HubClose, Requested, Answer
<2>5. CloseAnswered'
  BY <1>19 DEF HubClose, Requested, Answer
<2>6. NotCachedOnceClosing'
  BY <1>19 DEF HubClose, Requested, Answer
<2>7. OpenAnswersItsCaller'
  BY <1>19 DEF HubClose, Requested, Answer
<2>8. SecretLostOnlyWithAnswer'
  BY <1>19 DEF HubClose, Requested, Answer
<2>9. RequestsCarryProof'
  BY <1>19 DEF HubClose, Requested, Answer
<2> QED
  BY <2>1, <2>2, <2>3, <2>4, <2>5, <2>6, <2>7, <2>8, <2>9
<1>20. ASSUME NEW c \in Calls, HubRefuse(c) PROVE Handles'
  BY <1>20 DEF HubRefuse, Answer
<1>21. ASSUME NEW c \in Calls, HubFail(c) PROVE Handles'
  BY <1>21 DEF HubFail, Answer, Requested
<1>22. ASSUME Dispose PROVE Handles'
  BY <1>22 DEF Dispose, Empty
<1>23. ASSUME NEW ch \in Channels, Expire(ch) PROVE Handles'
  BY <1>23 DEF Expire
<1>24. CASE UNCHANGED vars
  BY <1>24 DEF vars
<1> HIDE DEF TypeOK, Shape, Handles
<1> QED
  BY <1>1, <1>2, <1>3, <1>4, <1>5, <1>6, <1>7, <1>8, <1>9, <1>10, <1>11, <1>12,
     <1>13, <1>14, <1>15, <1>16, <1>17, <1>18, <1>19, <1>20, <1>21, <1>22, <1>23, <1>24
     DEF Next, Client, Operation, Hub

\* The invariant is inductive, so it always holds.
THEOREM Invariance == Spec => []IInv
<1>1. IInv /\ [Next]_vars => IInv'
  BY TypeStep, ShapeStep, PaymentStep, HandlesStep DEF IInv
<1> QED
  BY InitIInv, <1>1, PTL DEF Spec

\* Every variable always has its type.
THEOREM TypeCorrect == Spec => []TypeOK
<1>1. IInv => TypeOK
  BY DEF IInv
<1> QED
  BY <1>1, Invariance, PTL

\* A one-time secret is lost only with the answer that carried it.
THEOREM SecretsKept == Spec => []SecretLostOnlyWithAnswer
<1>1. IInv => SecretLostOnlyWithAnswer
  BY DEF IInv, Handles
<1> QED
  BY <1>1, Invariance, PTL

\* Every request on an open channel carries the proof the hub asks for.
THEOREM ProofsSent == Spec => []RequestsCarryProof
<1>1. IInv => RequestsCarryProof
  BY DEF IInv, Handles
<1> QED
  BY <1>1, Invariance, PTL

\* A channel whose close was sent is never answered from the cache again.
THEOREM ClosedStaysOut == Spec => []NotCachedOnceClosing
<1>1. IInv => NotCachedOnceClosing
  BY DEF IInv, Handles
<1> QED
  BY <1>1, Invariance, PTL

\* An open is answered with a channel of its own key and its own deposit.
THEOREM OpensMatch == Spec => []OpenAnswersItsCaller
<1>1. IInv => OpenAnswersItsCaller
  BY DEF IInv, Handles
<1> QED
  BY <1>1, Invariance, PTL

\* run_once returns Ok only once its channel is settled.
THEOREM CyclesSettle == Spec => []RunOnceSettles
<1>1. IInv => RunOnceSettles
  BY DEF IInv, Handles, CloseAnswered, Shape, StageShape, RunOnceSettles
<1> QED
  BY <1>1, Invariance, PTL

-----------------------------------------------------------------------------
\* A deposit that is sent again

\* Call c posts channel/open for the deposit call d has an unexpired channel of.
SendsAgain(c, d) ==
    /\ pc[c] # "opening" /\ pc'[c] = "opening"
    /\ api[d] = "open" /\ pc[d] = "ok" /\ held[d] \notin expired
    /\ asked[d].tx # NoTx /\ asked'[c] = asked[d]

\* What DepositNotSentAgain comes to in the code: the channel a deposit opened has
\* left the cache, where the next open would have found it.
SentAgainOnceLeft ==
    \A c, d \in Calls : SendsAgain(c, d) => cache[asked[d].key].ch # held[d]

\* An open that misses is not for the deposit of the channel in the cache.
LEMMA MissIsLeft ==
    ASSUME IInv, NEW c \in Calls, NEW k \in Keys, NEW t \in SomeTx, OpenMiss(c, k, t),
           NEW d \in Calls, SendsAgain(c, d)
    PROVE  cache[asked[d].key].ch # held[d]
<1>1. asked[d] = [key |-> k, tx |-> t] /\ t # NoTx
  BY DEF OpenMiss, SendsAgain, IInv, TypeOK
<1>2. held[d] # NoChannel /\ terms[held[d]].tx = t
  BY <1>1 DEF IInv, Shape, StageShape, Handles, OpenAnswersItsCaller, SendsAgain
<1>3. cache[k].ch = held[d] => cache[k].tx = t
  BY <1>2 DEF IInv, Handles, CacheAgreesWithHub
<1>4. cache[k].ch # held[d]
  BY <1>1, <1>2, <1>3 DEF OpenMiss, Reuses, SendsAgain
<1> QED
  BY <1>1, <1>4

\* Of all steps only such an open posts channel/open.
LEMMA SendingMisses ==
    ASSUME IInv, [Next]_vars, NEW c \in Calls, NEW d \in Calls, SendsAgain(c, d)
    PROVE  cache[asked[d].key].ch # held[d]
<1>b. pc \in [Calls -> Stages]
  BY DEF IInv, TypeOK
<1>1. pc'[c] = "opening" /\ pc[c] # "opening"
  BY DEF SendsAgain
<1>2. ASSUME NEW e \in Calls, Client(e) PROVE \E k \in Keys, t \in SomeTx : OpenMiss(c, k, t)
  <2>1. ASSUME NEW k \in Keys, NEW t \in SomeTx, OpenMiss(e, k, t) PROVE e = c
    BY <1>1, <1>b, <2>1 DEF OpenMiss
  <2>2. \E k \in Keys, t \in SomeTx : OpenMiss(e, k, t)
    BY <1>1, <1>2, <1>b DEF Client, Operation, OpenHit, AfterOpen, OpenWithoutHash, OpenCapture,
       OpenReturns, OpenUndecodable, InvokeSend, InvokeWithoutRail, InvokeReturns, CloseSend,
       CloseReturns, Refused, TransportError, RunOnce
  <2> QED
    BY <2>1, <2>2
<1>3. ASSUME UNCHANGED caller PROVE FALSE
  BY <1>1, <1>3 DEF caller
<1>4. ASSUME NEW e \in Calls, Hub(e) PROVE FALSE
  BY <1>3, <1>4 DEF Hub, RequestLost, HubOpen, HubDebitChannel, HubDebitCredit, HubClose,
     HubRefuse, HubFail
<1> QED
  BY <1>2, <1>3, <1>4, MissIsLeft DEF Next, Dispose, Expire, vars

\* A deposit whose channel somebody has, and that has not expired, is posted again
\* only when that channel is no longer the one cached under its key.
THEOREM SentAgain == Spec => [][SentAgainOnceLeft]_vars
<1>1. IInv /\ [Next]_vars => [SentAgainOnceLeft]_vars
  BY SendingMisses DEF SentAgainOnceLeft
<1> QED
  BY <1>1, Invariance, PTL DEF Spec

-----------------------------------------------------------------------------
\* AgentChannels implements PaidCalls.

\* A caller told paid was debited; one told failed or refused was not and has
\* no request left that could be.
LEMMA OutcomeHonest == IInv => Paid!OutcomeMatchesDebit
<1> SUFFICES ASSUME IInv, NEW c \in Calls
             PROVE  /\ outcome[c] = "paid" => debits[c] = 1
                    /\ outcome[c] \in {"failed", "refused"} => debits[c] = 0
  BY DEF Paid!OutcomeMatchesDebit
<1>1. CASE outcome[c] = "paid"
  <2>1. result[c] = "paid"
    BY <1>1 DEF outcome
  <2> QED
    BY <1>1, <2>1 DEF IInv, Payment
<1>2. CASE outcome[c] \in {"failed", "refused"}
  <2>1. result[c] \in {"failed", "refused"}
    BY <1>2 DEF outcome
  <2>2. op[c] # "invoke"
    BY <2>1 DEF IInv, Shape, NetShape
  <2> QED
    BY <1>2, <2>1, <2>2 DEF IInv, Payment
<1> QED
  BY <1>1, <1>2

\* A step of one unfinished call that debits nothing tells its caller an
\* outcome, or tells nothing.
LEMMA TellOrStutter ==
    ASSUME IInv, IInv', NEW c \in Calls, pc[c] \notin {"ok", "err"}, debits' = debits,
           \A d \in Calls \ {c} : pc'[d] = pc[d] /\ result'[d] = result[d]
    PROVE  [Paid!Next]_(Paid!vars)
<1>1. outcome[c] = "pending"
  BY DEF outcome
<1>2. outcome' = [outcome EXCEPT ![c] = outcome'[c]]
  BY DEF outcome
<1>3. CASE outcome'[c] = "pending"
  BY <1>1, <1>2, <1>3 DEF outcome, Paid!vars
<1>4. CASE outcome'[c] # "pending"
  <2>1. outcome'[c] \in Paid!Outcomes \ {"pending"}
    BY <1>4 DEF outcome, Paid!Outcomes, IInv, TypeOK
  <2>2. Paid!OutcomeMatchesDebit'
    BY OutcomeHonest, PTL
  <2>3. Paid!Tell(c, outcome'[c])
    BY <1>1, <1>2, <2>2 DEF Paid!Tell, Paid!OutcomeMatchesDebit
  <2> QED
    BY <2>1, <2>3 DEF Paid!Next
<1> QED
  BY <1>3, <1>4

\* The hub's debit is PaidCalls' debit: the call has not been debited before,
\* and its caller has been told nothing, or a transport error.
LEMMA DebitIsDebit ==
    ASSUME IInv, NEW c \in Calls, Requested(c, "invoke"), Debited(c), UNCHANGED caller
    PROVE  Paid!Next
<1>1. debits[c] = 0 /\ result[c] = "none" /\ pc[c] # "ok"
  <2>1. result[c] = "none" /\ pc[c] # "ok"
    BY DEF IInv, Shape, NetShape, Requested, Awaiting
  <2>2. debits[c] \in 0..1 /\ debits[c] # 1
    BY <2>1 DEF IInv, Payment, Requested
  <2> QED
    BY <2>1, <2>2
<1>2. outcome[c] \in {"pending", "error"} /\ outcome' = outcome
  BY <1>1 DEF outcome, caller
<1>3. debits' = [debits EXCEPT ![c] = 1]
  BY <1>1 DEF Debited
<1> QED
  BY <1>1, <1>2, <1>3 DEF Paid!Next, Paid!Debit

\* Every step of the agent, the network or the hub is a step of PaidCalls or
\* leaves debits and outcomes alone.
LEMMA PaidStep == IInv /\ IInv' /\ [Next]_vars => [Paid!Next]_(Paid!vars)
<1> SUFFICES ASSUME IInv, IInv', [Next]_vars PROVE [Paid!Next]_(Paid!vars)
  OBVIOUS
<1>t. pc \in [Calls -> Stages] /\ result \in [Calls -> {"none", "paid", "failed", "refused"}]
  BY DEF IInv, TypeOK
<1>1. ASSUME NEW c \in Calls, Client(c) PROVE [Paid!Next]_(Paid!vars)
  <2>1. pc[c] \notin {"ok", "err"}
    BY <1>1 DEF Client, Operation, OpenHit, OpenMiss, MayOpen, OpenWithoutHash, OpenCapture, OpenReturns,
       OpenUndecodable, InvokeSend, InvokeWithoutRail, InvokeReturns, CloseSend, CloseReturns,
       Refused, TransportError, RunOnce
  <2>2. debits' = debits
    BY <1>1 DEF Client, Operation, OpenHit, OpenMiss, OpenWithoutHash, OpenCapture, OpenReturns,
       OpenUndecodable, InvokeSend, InvokeWithoutRail, InvokeReturns, CloseSend, CloseReturns,
       Refused, TransportError, RunOnce, hub
  <2>3. \A d \in Calls \ {c} : pc'[d] = pc[d] /\ result'[d] = result[d]
    BY <1>1, <1>t DEF Client, Operation, OpenHit, OpenMiss, OpenWithoutHash, OpenCapture, OpenReturns,
       OpenUndecodable, InvokeSend, InvokeWithoutRail, InvokeReturns, CloseSend, CloseReturns,
       Refused, TransportError, RunOnce
  <2> QED
    BY <2>1, <2>2, <2>3, TellOrStutter
<1>2. ASSUME NEW c \in Calls, HubDebitChannel(c) \/ HubDebitCredit(c)
      PROVE  [Paid!Next]_(Paid!vars)
  BY <1>2, DebitIsDebit DEF HubDebitChannel, HubDebitCredit
<1>3. ASSUME UNCHANGED <<caller, debits>> PROVE [Paid!Next]_(Paid!vars)
  BY <1>3 DEF caller, outcome, Paid!vars
<1>4. ASSUME NEW c \in Calls, Hub(c) PROVE [Paid!Next]_(Paid!vars)
  BY <1>2, <1>3, <1>4 DEF Hub, RequestLost, HubOpen, HubClose, HubRefuse, HubFail, hub
<1>5. ASSUME Dispose \/ \E ch \in Channels : Expire(ch) PROVE [Paid!Next]_(Paid!vars)
  BY <1>3, <1>5 DEF Dispose, Expire, hub
<1>6. CASE UNCHANGED vars
  BY <1>3, <1>6 DEF vars, hub
<1> QED
  BY <1>1, <1>4, <1>5, <1>6 DEF Next

\* Every behaviour of the agent, the network and the hub pays as PaidCalls
\* promises: at most one debit per call, whatever the caller is told.
THEOREM PaysAsPromised == Spec => PaidAsPromised
<1>1. Init => Paid!Init
  BY DEF Init, outcome, Paid!Init
<1> QED
  BY <1>1, PaidStep, Invariance, PTL DEF Spec, PaidAsPromised, Paid!Spec

\* What callers are told always agrees with the debits.
THEOREM OutcomesAgree == Spec => []Paid!OutcomeMatchesDebit
<1> QED
  BY OutcomeHonest, Invariance, PTL

-----------------------------------------------------------------------------
\* AgentSession: the calls that ask, beside the ones that pay.

\* Every step of a session is a step of the agent, or leaves it alone.
LEMMA SessionStep == [SessionNext]_sessionVars => [Next]_vars
<1> SUFFICES ASSUME [SessionNext]_sessionVars PROVE [Next]_vars
  OBVIOUS
<1>1. ASSUME NEW c \in Calls, SessionClient(c) PROVE [Next]_vars
  <2>1. Client(c) \/ UNCHANGED vars
    BY <1>1 DEF SessionClient, SessionOperation, Discover, DiscoverReturns, PlanReturns,
       GetChannelBalance, GetChannelBalanceReturns, WellKnownMiss, WellKnownHit,
       WellKnownReturns, QueryFails, Send, Client
  <2> QED
    BY <2>1 DEF Next
<1>2. ASSUME NEW c \in Calls, Hub(c) \/ HubAnswers(c) PROVE [Next]_vars
  BY <1>2 DEF HubAnswers, Next
<1>3. ASSUME SessionDispose \/ Republish \/ \E ch \in Channels : Expire(ch)
      PROVE  [Next]_vars
  BY <1>3 DEF SessionDispose, Republish, Next
<1>4. CASE UNCHANGED sessionVars
  BY <1>4 DEF sessionVars
<1> QED
  BY <1>1, <1>2, <1>3, <1>4 DEF SessionNext

\* A session is a behaviour of AgentChannels: what asks never pays, opens or
\* closes, so everything proved of the agent holds of its sessions.
THEOREM SessionIsAgent == SessionSpec => Spec
<1>1. SessionInit => Init
  BY DEF SessionInit
<1> QED
  BY <1>1, SessionStep, PTL DEF SessionSpec, Spec

\* The invariant of the agent holds throughout a session.
LEMMA SessionIInv == SessionSpec => []IInv
<1> QED
  BY SessionIsAgent, Invariance, PTL

\* Every step of a session keeps the types, and a call that asks is not paying.
LEMMA SessionTypeStep == IInv /\ SessionTypeOK /\ [SessionNext]_sessionVars => SessionTypeOK'
<1> SUFFICES ASSUME IInv, SessionTypeOK, [SessionNext]_sessionVars PROVE SessionTypeOK'
  OBVIOUS
<1>a. TypeOK'
  BY SessionStep, TypeStep DEF IInv
<1>b. query \in [Calls -> Queries] /\ manifest \in Nat /\ served \in Nat /\ floor \in Nat
      /\ dropped \subseteq SomeChannel
      /\ \A c \in Calls : query[c].kind = "balance" => query[c].ch # NoChannel
  BY DEF SessionTypeOK
<1>c. ASSUME NEW c \in Calls, Asked(c) PROVE pc[c] = "idle"
  BY <1>c DEF SessionTypeOK
<1>d. TypeOK
  BY DEF IInv
<1>e. /\ pc \in [Calls -> Stages] /\ held \in [Calls -> SomeChannel]
      /\ cache \in [Keys -> Entries] /\ balance \in [Channels -> 0..Deposit]
  BY <1>d DEF TypeOK
<1>1. ASSUME NEW c \in Calls, NEW kind \in Kinds, NEW ch \in SomeChannel, Send(c, kind, ch),
             kind = "balance" => ch # NoChannel
      PROVE  SessionTypeOK'
  <2>1. query' \in [Calls -> Queries]
    BY <1>1, <1>b DEF Send, Queries
  <2>4. \A d \in Calls : query'[d].kind = "balance" => query'[d].ch # NoChannel
    BY <1>1, <1>b DEF Send
  <2>2. pc' = pc /\ manifest' = manifest /\ served' = served /\ floor' = floor /\ dropped' = dropped
    BY <1>1 DEF Send, vars, caller
  <2>3. ASSUME NEW d \in Calls, Asked(d)' PROVE pc[d] = "idle"
    <3>1. CASE d = c
      BY <1>1, <3>1 DEF Send, Fresh
    <3>2. CASE d # c
      <4>1. query'[d] = query[d]
        BY <1>1, <3>2, <1>b DEF Send
      <4> QED
        BY <2>3, <4>1, <1>c DEF Asked
    <3> QED
      BY <3>1, <3>2
  <2> QED
    BY <1>a, <1>b, <2>1, <2>2, <2>3, <2>4 DEF SessionTypeOK
<1>2. ASSUME NEW c \in Calls, NEW q \in Queries, q.at \notin {"sent", "answered"} \/ Asked(c) \/ pc[c] = "idle",
             query' = [query EXCEPT ![c] = q], q.kind = "balance" => q.ch # NoChannel,
             pc' = pc \/ (q.at \notin {"sent", "answered"} /\ \A d \in Calls \ {c} : pc'[d] = pc[d]),
             manifest' \in Nat, served' = served, floor' = floor, dropped' = dropped
      PROVE  SessionTypeOK'
  <2>1. query' \in [Calls -> Queries]
    BY <1>2, <1>b
  <2>2. \A d \in Calls : query'[d].kind = "balance" => query'[d].ch # NoChannel
    BY <1>2, <1>b
  <2>3. ASSUME NEW d \in Calls, Asked(d)' PROVE pc'[d] = "idle"
    <3>1. CASE d = c
      <4>1. query'[d] = q
        BY <1>2, <3>1, <1>b
      <4>2. q.at \in {"sent", "answered"}
        BY <2>3, <4>1 DEF Asked
      <4> QED
        BY <1>2, <3>1, <4>2, <1>c
    <3>2. CASE d # c
      <4>1. query'[d] = query[d]
        BY <1>2, <3>2, <1>b
      <4>2. pc[d] = "idle"
        BY <2>3, <4>1, <1>c DEF Asked
      <4> QED
        BY <1>2, <3>2, <4>2
    <3> QED
      BY <3>1, <3>2
  <2> QED
    BY <1>a, <1>b, <1>2, <2>1, <2>2, <2>3 DEF SessionTypeOK
<1>3. ASSUME NEW c \in Calls, Discover(c) \/ WellKnownMiss(c) \/ \E ch \in Channels : GetChannelBalance(c, ch)
      PROVE  SessionTypeOK'
  BY <1>1, <1>3 DEF Discover, WellKnownMiss, GetChannelBalance, Kinds, SomeChannel
<1>4. ASSUME NEW c \in Calls, WellKnownHit(c) PROVE SessionTypeOK'
  <2> DEFINE q == [kind |-> "well_known", ch |-> NoChannel, at |-> "ok", said |-> manifest]
  <2>1. q \in Queries /\ q.kind # "balance" /\ q.at = "ok"
    BY <1>b DEF Queries, Kinds, SomeChannel
  <2> QED
    BY <1>2, <1>4, <1>b, <2>1 DEF WellKnownHit, vars, caller
<1>5. ASSUME NEW c \in Calls, NEW at \in {"ok", "err"}, Ends(c, at),
             pc' = pc \/ \A d \in Calls \ {c} : pc'[d] = pc[d],
             manifest' \in Nat, served' = served, floor' = floor, dropped' = dropped
      PROVE  SessionTypeOK'
  <2> DEFINE q == [query[c] EXCEPT !.at = at]
  <2>1. q \in Queries /\ q.at = at /\ q.kind = query[c].kind /\ q.ch = query[c].ch
    BY <1>b DEF Queries
  <2>2. query' = [query EXCEPT ![c] = q]
    BY <1>5, <1>b DEF Ends
  <2> HIDE DEF q
  <2> QED
    BY <1>2, <1>5, <1>b, <2>1, <2>2
<1>6. ASSUME NEW c \in Calls, RunOnce(c) PROVE \A d \in Calls \ {c} : pc'[d] = pc[d]
  BY <1>6, <1>e DEF RunOnce
<1>7. ASSUME NEW c \in Calls, WellKnownReturns(c) \/ DiscoverReturns(c) \/ PlanReturns(c) \/ QueryFails(c)
      PROVE  SessionTypeOK'
  <2>1. query[c].said \in Nat
    BY <1>b DEF Queries
  <2>2. manifest' \in Nat /\ served' = served /\ floor' = floor /\ dropped' = dropped
    BY <1>7, <1>b, <2>1 DEF WellKnownReturns, DiscoverReturns, PlanReturns, QueryFails
  <2>3. pc' = pc \/ \A d \in Calls \ {c} : pc'[d] = pc[d]
    BY <1>7, <1>6 DEF WellKnownReturns, DiscoverReturns, PlanReturns, QueryFails, vars, caller
  <2>4. Ends(c, "ok") \/ Ends(c, "err")
    BY <1>7 DEF WellKnownReturns, DiscoverReturns, PlanReturns, QueryFails
  <2> QED
    BY <1>5, <2>2, <2>3, <2>4
<1>8. ASSUME NEW c \in Calls, GetChannelBalanceReturns(c) PROVE SessionTypeOK'
  <2>1. PICK n \in {query[c].said, 0} : query' = [query EXCEPT ![c].at = "ok", ![c].said = n]
    BY <1>8 DEF GetChannelBalanceReturns
  <2>n. n \in Nat
    BY <1>b DEF Queries
  <2> DEFINE q == [query[c] EXCEPT !.at = "ok", !.said = n]
  <2>2. q \in Queries /\ q.at = "ok" /\ q.kind = query[c].kind /\ q.ch = query[c].ch
    BY <1>b, <2>n DEF Queries
  <2>3. query' = [query EXCEPT ![c] = q]
    BY <2>1, <1>b
  <2>4. UNCHANGED <<pc, manifest, served, floor, dropped>>
    BY <1>8 DEF GetChannelBalanceReturns, vars, caller
  <2> HIDE DEF q
  <2> QED
    BY <1>2, <1>b, <2>2, <2>3, <2>4
<1>9. ASSUME NEW c \in Calls, HubAnswers(c) PROVE SessionTypeOK'
  <2>1. PICK n : query' = [query EXCEPT ![c].at = "answered", ![c].said = n] /\ n \in Nat
    <3>1. query[c].kind = "balance" => balance[query[c].ch] \in Nat
      BY <1>b, <1>e DEF Queries, SomeChannel
    <3>2. served \in Nat /\ 0 \in Nat /\ 1 \in Nat
      BY <1>b
    <3> QED
      BY <1>9, <3>1, <3>2 DEF HubAnswers
  <2> DEFINE q == [query[c] EXCEPT !.at = "answered", !.said = n]
  <2>2. q \in Queries /\ q.kind = query[c].kind /\ q.ch = query[c].ch
    BY <1>b, <2>1 DEF Queries
  <2>3. query' = [query EXCEPT ![c] = q]
    BY <2>1, <1>b
  <2>4. UNCHANGED <<pc, manifest, served, floor, dropped>> /\ Asked(c)
    BY <1>9 DEF HubAnswers, vars, caller, Asked
  <2> HIDE DEF q
  <2> QED
    BY <1>2, <1>b, <2>2, <2>3, <2>4
<1>10. ASSUME UNCHANGED <<query, served, floor, manifest>>, dropped' \subseteq SomeChannel,
              \A c \in Calls : Asked(c) => pc'[c] = pc[c]
       PROVE  SessionTypeOK'
  <2>1. \A c \in Calls : Asked(c)' => Asked(c)
    BY <1>10 DEF Asked
  <2>2. \A c \in Calls : Asked(c)' => pc'[c] = "idle"
    BY <1>10, <2>1, <1>c
  <2> QED
    BY <1>a, <1>b, <1>10, <2>2 DEF SessionTypeOK
<1>11. ASSUME NEW c \in Calls, SessionOperation(c) PROVE SessionTypeOK'
  <2>1. \A d \in Calls \ {c} : pc'[d] = pc[d]
    BY <1>11, <1>e DEF SessionOperation, Operation, OpenHit, OpenMiss, OpenWithoutHash,
       OpenCapture, OpenReturns, OpenUndecodable, InvokeSend, InvokeWithoutRail,
       InvokeReturns, CloseSend, CloseReturns, Refused, TransportError
  <2>2. ~Asked(c)
    BY <1>11 DEF SessionOperation, Pays, Asked
  <2>3. dropped' \subseteq SomeChannel
    BY <1>11, <1>b, <1>e DEF SessionOperation
  <2>4. UNCHANGED <<query, served, floor, manifest>>
    BY <1>11 DEF SessionOperation
  <2> QED
    BY <1>10, <2>1, <2>2, <2>3, <2>4
<1>12. ASSUME NEW c \in Calls, Hub(c), UNCHANGED queries PROVE SessionTypeOK'
  <2>1. pc' = pc
    BY <1>12 DEF Hub, RequestLost, HubOpen, HubDebitChannel, HubDebitCredit, HubClose,
       HubRefuse, HubFail, caller
  <2> QED
    BY <1>10, <1>12, <1>b, <2>1 DEF queries
<1>13. ASSUME NEW ch \in Channels, Expire(ch), UNCHANGED queries PROVE SessionTypeOK'
  BY <1>10, <1>13, <1>b DEF queries, Expire, caller
<1>14. CASE SessionDispose
  <2>1. {cache[k].ch : k \in Keys} \subseteq SomeChannel
    BY <1>e DEF Entries
  <2>2. dropped' \subseteq SomeChannel
    BY <1>14, <1>b, <2>1 DEF SessionDispose
  <2>3. query' = query /\ pc' = pc /\ served' = served /\ manifest' \in Nat /\ floor' \in Nat
    BY <1>14, <1>b DEF SessionDispose, Dispose, caller, NoManifest
  <2>4. \A c \in Calls : Asked(c)' => pc'[c] = "idle"
    BY <2>3, <1>c DEF Asked
  <2> QED
    BY <1>a, <1>b, <2>2, <2>3, <2>4 DEF SessionTypeOK
<1>15. CASE Republish
  <2>1. query' = query /\ pc' = pc /\ served' \in Nat
        /\ UNCHANGED <<manifest, floor, dropped>>
    BY <1>15, <1>b DEF Republish, vars, caller
  <2>2. \A c \in Calls : Asked(c)' => pc'[c] = "idle"
    BY <2>1, <1>c DEF Asked
  <2> QED
    BY <1>a, <1>b, <2>1, <2>2 DEF SessionTypeOK
<1>16. CASE UNCHANGED sessionVars
  BY <1>10, <1>16, <1>b DEF sessionVars, queries, vars, caller
<1> QED
  BY <1>3, <1>4, <1>7, <1>8, <1>9, <1>11, <1>12, <1>13, <1>14, <1>15, <1>16
     DEF SessionNext, SessionClient

SessionTypes == IInv /\ SessionTypeOK

\* The types of a session, and the invariant of the agent, always hold.
LEMMA SessionTyped == SessionSpec => []SessionTypes
<1>1. SessionInit => SessionTypes
  <2> SUFFICES ASSUME SessionInit PROVE SessionTypes
    OBVIOUS
  <2>1. IInv
    BY InitIInv DEF SessionInit
  <2>2. query \in [Calls -> Queries]
    BY DEF SessionInit, NoQuery, Queries, Kinds, SomeChannel
  <2>3. \A c \in Calls : ~Asked(c) /\ query[c].kind # "balance"
    BY DEF SessionInit, NoQuery, Asked
  <2>4. manifest \in Nat /\ served \in Nat /\ floor \in Nat /\ dropped = {}
    BY DEF SessionInit, NoManifest
  <2> QED
    BY <2>1, <2>2, <2>3, <2>4 DEF SessionTypes, SessionTypeOK, IInv
<1>2. SessionTypes /\ [SessionNext]_sessionVars => SessionTypes'
  BY SessionStep, TypeStep, ShapeStep, PaymentStep, HandlesStep, SessionTypeStep
     DEF SessionTypes, IInv
<1> QED
  BY <1>1, <1>2, PTL DEF SessionSpec

\* What the agent keeps or is about to keep of the manifest is no older than the
\* last dispose that met no fetch, and no newer than what the hub serves.
ManifestInv ==
    /\ floor <= served /\ served # NoManifest
    /\ manifest # NoManifest => manifest \in floor..served
    /\ \A c \in Calls :
           query[c].kind = "well_known" /\ query[c].at = "answered" =>
               query[c].said \in floor..served

\* A step that leaves queries alone, or moves one of them to where it is not a
\* manifest on its way.
LEMMA ManifestKept ==
    ASSUME SessionTypes, ManifestInv, UNCHANGED <<served, floor>>, manifest' \in {manifest, NoManifest},
           \A c \in Calls : query'[c] = query[c] \/ query'[c].at # "answered"
                             \/ query'[c].kind # "well_known"
    PROVE  ManifestInv'
<1>1. \A c \in Calls : query'[c].kind = "well_known" /\ query'[c].at = "answered" =>
                            query'[c].said \in floor..served
  BY DEF ManifestInv
<1> QED
  BY <1>1 DEF ManifestInv

\* Every step keeps the manifest no older than that.
LEMMA ManifestStep ==
    ASSUME SessionTypes, ManifestInv, [SessionNext]_sessionVars PROVE ManifestInv'
<1>b. query \in [Calls -> Queries] /\ manifest \in Nat /\ served \in Nat /\ floor \in Nat
  BY DEF SessionTypes, SessionTypeOK
<1>1. ASSUME NEW c \in Calls, Discover(c) \/ WellKnownMiss(c) \/ WellKnownHit(c)
                              \/ \E ch \in Channels : GetChannelBalance(c, ch)
      PROVE  ManifestInv'
  <2>1. UNCHANGED <<manifest, served, floor>> /\ query'[c].at # "answered"
        /\ \A d \in Calls \ {c} : query'[d] = query[d]
    BY <1>1, <1>b DEF Discover, WellKnownMiss, WellKnownHit, GetChannelBalance, Send
  <2> QED
    BY <2>1, ManifestKept
<1>2. ASSUME NEW c \in Calls, DiscoverReturns(c) \/ PlanReturns(c) \/ QueryFails(c)
      PROVE  ManifestInv'
  <2>1. UNCHANGED <<manifest, served, floor>>
    BY <1>2 DEF DiscoverReturns, PlanReturns, QueryFails
  <2>2. Ends(c, "ok") \/ Ends(c, "err")
    BY <1>2 DEF DiscoverReturns, PlanReturns, QueryFails
  <2>3. query'[c].at # "answered" /\ \A d \in Calls \ {c} : query'[d] = query[d]
    BY <2>2, <1>b DEF Ends, Queries
  <2> QED
    BY <2>1, <2>3, ManifestKept
<1>3. ASSUME NEW c \in Calls, GetChannelBalanceReturns(c) PROVE ManifestInv'
  <2>1. UNCHANGED <<manifest, served, floor>>
    BY <1>3 DEF GetChannelBalanceReturns
  <2>2. query'[c].at # "answered" /\ \A d \in Calls \ {c} : query'[d] = query[d]
    BY <1>3, <1>b DEF GetChannelBalanceReturns, Queries
  <2> QED
    BY <2>1, <2>2, ManifestKept
<1>4. ASSUME NEW c \in Calls, WellKnownReturns(c) PROVE ManifestInv'
  <2>1. query[c].said \in floor..served
    BY <1>4 DEF WellKnownReturns, ManifestInv
  <2>2. manifest' = query[c].said /\ UNCHANGED <<served, floor>>
    BY <1>4 DEF WellKnownReturns
  <2>3. query'[c].at # "answered" /\ \A d \in Calls \ {c} : query'[d] = query[d]
    BY <1>4, <1>b DEF WellKnownReturns, Ends, Queries
  <2>4. \A d \in Calls : query'[d].kind = "well_known" /\ query'[d].at = "answered" =>
                            query'[d].said \in floor..served
    BY <2>3 DEF ManifestInv
  <2> QED
    BY <2>1, <2>2, <2>4 DEF ManifestInv
<1>5. ASSUME NEW c \in Calls, HubAnswers(c) PROVE ManifestInv'
  <2>1. UNCHANGED <<manifest, served, floor>>
    BY <1>5 DEF HubAnswers
  <2>2. \A d \in Calls \ {c} : query'[d] = query[d]
    BY <1>5, <1>b DEF HubAnswers
  <2>3. query'[c].kind = query[c].kind
    BY <1>5, <1>b DEF HubAnswers, Queries
  <2>4. query[c].kind = "well_known" => query'[c].said = served
    BY <1>5, <1>b DEF HubAnswers, Queries
  <2>5. \A d \in Calls : query'[d].kind = "well_known" /\ query'[d].at = "answered" =>
                            query'[d].said \in floor..served
    BY <1>b, <2>2, <2>3, <2>4 DEF ManifestInv
  <2> QED
    BY <2>1, <2>5 DEF ManifestInv
<1>6. ASSUME UNCHANGED <<query, manifest, served, floor>> PROVE ManifestInv'
  BY <1>6, ManifestKept
<1>7. CASE SessionDispose
  <2>1. query' = query /\ served' = served /\ manifest' = NoManifest
    BY <1>7 DEF SessionDispose
  <2>2. CASE Fetching
    BY <1>7, <2>1, <2>2, ManifestKept DEF SessionDispose
  <2>3. CASE ~Fetching
    <3>1. \A c \in Calls : ~(query[c].kind = "well_known" /\ query[c].at = "answered")
      BY <2>3 DEF Fetching, Asked
    <3>2. floor' = served
      BY <1>7, <2>3 DEF SessionDispose
    <3> QED
      BY <1>b, <2>1, <3>1, <3>2 DEF ManifestInv
  <2> QED
    BY <2>2, <2>3
<1>8. CASE Republish
  <2>1. UNCHANGED <<query, manifest, floor>> /\ served' = served + 1
    BY <1>8 DEF Republish
  <2>2. floor..served \subseteq floor..(served + 1)
    BY <1>b
  <2>3. floor <= served + 1 /\ served + 1 # NoManifest
    BY <1>b DEF ManifestInv, NoManifest
  <2> QED
    BY <2>1, <2>2, <2>3 DEF ManifestInv
<1> QED
  BY <1>1, <1>2, <1>3, <1>4, <1>5, <1>6, <1>7, <1>8
     DEF SessionNext, SessionClient, SessionOperation, queries, sessionVars

\* After a dispose that met no fetch, well_known never again answers with a
\* manifest the hub had replaced by then.
THEOREM ManifestFresh == SessionSpec => []ManifestSinceDispose
<1>1. SessionInit => ManifestInv
  BY DEF SessionInit, ManifestInv, NoManifest, NoQuery
<1>2. SessionTypes /\ ManifestInv => ManifestSinceDispose
  BY DEF SessionTypes, SessionTypeOK, ManifestInv, ManifestSinceDispose
<1> QED
  BY <1>1, <1>2, SessionTyped, ManifestStep, PTL DEF SessionSpec

\* What is cached of a channel is the balance it came with.
CachedAsOpened ==
    \A k \in Keys : cache[k].ch # NoChannel => cache[k].balance = terms[cache[k].ch].balance

\* So it is, and run_once opens only with a plan and without an api_key.
SessionShape ==
    /\ CachedAsOpened
    /\ \A c \in Calls : api[c] = "run_once" =>
           /\ pc[c] # "err" => query[c].at = "ok"
           /\ pc[c] \in {"planned", "opening", "captured"} => ~ApiKey

\* A step of one call leaves the others and the hub's channels alone.
LEMMA OneCall ==
    ASSUME TypeOK, NEW c \in Calls, Client(c)
    PROVE  /\ \A d \in Calls \ {c} : /\ pc'[d] = pc[d] /\ api'[d] = api[d]
                                     /\ asked'[d] = asked[d] /\ held'[d] = held[d]
                                     /\ result'[d] = result[d]
                                     /\ op'[d] = op[d] /\ about'[d] = about[d]
           /\ UNCHANGED <<status, terms, balance, expired>>
<1> USE DEF TypeOK, caller, exchange, agent, hub
<1>1. ASSUME NEW k \in Keys, NEW t \in SomeTx, OpenHit(c, k, t) \/ OpenMiss(c, k, t)
      PROVE  /\ \A d \in Calls \ {c} : /\ pc'[d] = pc[d] /\ api'[d] = api[d]
                                     /\ asked'[d] = asked[d] /\ held'[d] = held[d]
                                     /\ result'[d] = result[d]
                                     /\ op'[d] = op[d] /\ about'[d] = about[d]
             /\ UNCHANGED <<status, terms, balance, expired>>
  BY <1>1 DEF OpenHit, OpenMiss, Post
<1>2. ASSUME OpenWithoutHash(c) \/ OpenCapture(c) \/ OpenReturns(c) \/ OpenUndecodable(c)
             \/ InvokeWithoutRail(c) \/ InvokeReturns(c) \/ CloseReturns(c)
             \/ Refused(c) \/ TransportError(c) \/ RunOnce(c)
      PROVE  /\ \A d \in Calls \ {c} : /\ pc'[d] = pc[d] /\ api'[d] = api[d]
                                     /\ asked'[d] = asked[d] /\ held'[d] = held[d]
                                     /\ result'[d] = result[d]
                                     /\ op'[d] = op[d] /\ about'[d] = about[d]
             /\ UNCHANGED <<status, terms, balance, expired>>
  BY <1>2 DEF OpenWithoutHash, OpenCapture, OpenReturns, OpenUndecodable, InvokeWithoutRail,
     InvokeReturns, CloseReturns, Refused, TransportError, RunOnce, Read
<1>3. ASSUME NEW ch \in SomeChannel, InvokeSend(c, ch) \/ CloseSend(c, ch)
      PROVE  /\ \A d \in Calls \ {c} : /\ pc'[d] = pc[d] /\ api'[d] = api[d]
                                     /\ asked'[d] = asked[d] /\ held'[d] = held[d]
                                     /\ result'[d] = result[d]
                                     /\ op'[d] = op[d] /\ about'[d] = about[d]
             /\ UNCHANGED <<status, terms, balance, expired>>
  BY <1>3 DEF InvokeSend, CloseSend, Post
<1> QED
  BY <1>1, <1>2, <1>3 DEF Client, Operation, SomeChannel

\* A step of the hub leaves the agent and what a call is known by alone.
LEMMA HubAlone ==
    ASSUME NEW c \in Calls, Hub(c) PROVE UNCHANGED <<caller, op, agent, expired>>
  BY DEF Hub, RequestLost, HubOpen, HubDebitChannel, HubDebitCredit, HubClose, HubRefuse,
     HubFail, caller, agent, hub

\* A channel the hub has opened keeps its terms.
LEMMA TermsStay ==
    ASSUME TypeOK, NEW ch \in Channels, [Next]_vars
    PROVE  status[ch] # "none" => terms'[ch] = terms[ch]
<1>1. ASSUME NEW c \in Calls, Hub(c), status[ch] # "none" PROVE terms'[ch] = terms[ch]
  BY <1>1 DEF Hub, RequestLost, HubOpen, HubDebitChannel, HubDebitCredit, HubClose, HubRefuse,
     HubFail, hub, TypeOK
<1> QED
  BY <1>1, OneCall DEF Next, Dispose, Expire, hub, vars

\* Once a close was sent it stays sent, on the same channel.
LEMMA CloseStays ==
    ASSUME IInv, [Next]_vars, NEW c \in Calls, CloseBegun(c)
    PROVE  CloseBegun(c)' /\ held'[c] = held[c]
<1>a. ApiKey' = ApiKey
  BY RailStays DEF IInv
<1>b. pc[c] \in {"closing", "ok", "err"} /\ TypeOK
  BY DEF IInv, Shape, StageShape
<1>1. ASSUME NEW d \in Calls, Client(d) PROVE CloseBegun(c)' /\ held'[c] = held[c]
  <2>1. CASE d = c
    BY <1>1, <2>1, <1>a, <1>b DEF CloseBegun, Client, Operation, OpenHit, OpenMiss, MayOpen,
       OpenWithoutHash, OpenCapture, OpenReturns, OpenUndecodable, InvokeSend,
       InvokeWithoutRail, InvokeReturns, CloseSend, CloseReturns, Refused, TransportError,
       RunOnce, TypeOK
  <2>2. CASE d # c
    BY <1>1, <2>2, <1>a, <1>b, OneCall DEF CloseBegun
  <2> QED
    BY <2>1, <2>2
<1>2. ASSUME UNCHANGED caller PROVE CloseBegun(c)' /\ held'[c] = held[c]
  BY <1>2, <1>a DEF caller, CloseBegun
<1> QED
  BY <1>1, <1>2, HubAlone DEF Next, Dispose, Expire, vars

\* A call whose search has succeeded asks nothing more.
LEMMA PlanStays ==
    ASSUME SessionTypes, [SessionNext]_sessionVars, NEW c \in Calls, query[c].at = "ok"
    PROVE  query'[c].at = "ok"
<1>b. query \in [Calls -> Queries]
  BY DEF SessionTypes, SessionTypeOK
<1>1. ASSUME NEW d \in Calls, SessionClient(d) \/ HubAnswers(d) PROVE query'[c].at = "ok"
  BY <1>1, <1>b DEF SessionClient, SessionOperation, Discover, DiscoverReturns, PlanReturns,
     GetChannelBalance, GetChannelBalanceReturns, WellKnownMiss, WellKnownHit,
     WellKnownReturns, QueryFails, Send, Fresh, Asked, Ends, HubAnswers, Queries
<1>2. ASSUME query' = query PROVE query'[c].at = "ok"
  BY <1>2
<1> QED
  BY <1>1, <1>2 DEF SessionNext, SessionDispose, Republish, queries, sessionVars

\* An entry is written with the balance its channel came with, and kept or emptied
\* after that.
LEMMA CachedStep ==
    ASSUME TypeOK, Handles, CachedAsOpened, [Next]_vars PROVE CachedAsOpened'
<1> SUFFICES ASSUME NEW k \in Keys, cache'[k].ch # NoChannel
             PROVE  cache'[k].balance = terms'[cache'[k].ch].balance
  BY DEF CachedAsOpened
<1>1. CASE cache'[k] = cache[k]
  <2>1. cache[k].ch \in Channels /\ status[cache[k].ch] # "none"
    BY <1>1 DEF Handles, KnownIsProvable, Known, TypeOK, Entries, SomeChannel
  <2>2. terms'[cache[k].ch] = terms[cache[k].ch]
    BY <2>1, TermsStay
  <2> QED
    BY <1>1, <2>2 DEF CachedAsOpened
<1>2. CASE cache'[k] # cache[k]
  <2>1. ASSUME NEW c \in Calls, Client(c) PROVE OpenReturns(c) /\ k = asked[c].key
    <3>1. ~\E l \in Keys, t \in SomeTx : OpenMiss(c, l, t)
      BY <1>2 DEF OpenMiss, TypeOK, Empty
    <3>2. ASSUME NEW ch \in Channels, CloseSend(c, ch) PROVE FALSE
      <4>1. cache'[k] \in {Empty, cache[k]}
        BY <3>2 DEF CloseSend
      <4> QED
        BY <1>2, <4>1 DEF Empty
    <3>3. OpenReturns(c)
      BY <1>2, <2>1, <3>1, <3>2 DEF Client, Operation, OpenHit, OpenWithoutHash, OpenCapture,
         OpenUndecodable, InvokeSend, InvokeWithoutRail, InvokeReturns, CloseReturns, Refused,
         TransportError, RunOnce, agent
    <3> QED
      BY <1>2, <3>3 DEF OpenReturns, TypeOK
  <2>2. ~Dispose
    BY <1>2 DEF Dispose, Empty
  <2>3. PICK c \in Calls : OpenReturns(c) /\ k = asked[c].key
    BY <1>2, <2>1, <2>2, HubAlone DEF Next, Expire, agent, vars
  <2>4. terms' = terms
    BY <2>3 DEF OpenReturns, hub
  <2>5. cache'[k] = [ch |-> held[c], tx |-> asked[c].tx, balance |-> terms[held[c]].balance]
    BY <2>3 DEF OpenReturns, TypeOK
  <2> QED
    BY <2>4, <2>5
<1> QED
  BY <1>1, <1>2

\* What is cached keeps agreeing with the hub, and what run_once does with its
\* search.
LEMMA SessionShapeStep ==
    ASSUME SessionTypes, SessionShape, [SessionNext]_sessionVars PROVE SessionShape'
<1>a. ApiKey' = ApiKey
  BY SessionStep, RailStays DEF SessionTypes, IInv
<1>b. TypeOK /\ Shape /\ Handles /\ [Next]_vars
  BY SessionStep DEF SessionTypes, IInv
<1>c. query \in [Calls -> Queries]
  BY DEF SessionTypes, SessionTypeOK
<1>1. CachedAsOpened'
  BY <1>b, CachedStep DEF SessionShape
<1>2. ASSUME NEW c \in Calls, api'[c] = "run_once"
      PROVE  /\ pc'[c] # "err" => query'[c].at = "ok"
             /\ pc'[c] \in {"planned", "opening", "captured"} => ~ApiKey'
  <2>1. ASSUME NEW d \in Calls, SessionOperation(d)
        PROVE  /\ pc'[c] # "err" => query'[c].at = "ok"
               /\ pc'[c] \in {"planned", "opening", "captured"} => ~ApiKey'
    <3>0. query' = query /\ Operation(d) /\ Client(d)
      BY <2>1 DEF SessionOperation, Client
    <3>1. CASE d = c
      <4> DEFINE Opening(p) == p \in {"planned", "opening", "captured"}
      <4>1. api[c] = "run_once" /\ pc[c] # "err" /\ (Opening(pc'[c]) => Opening(pc[c]))
        <5>1. ASSUME NEW k \in Keys, NEW t \in SomeTx, OpenHit(c, k, t) \/ OpenMiss(c, k, t)
              PROVE  api[c] = "run_once" /\ pc[c] # "err" /\ (Opening(pc'[c]) => Opening(pc[c]))
          BY <5>1, <1>2, <1>b DEF OpenHit, OpenMiss, MayOpen, AfterOpen, Api, TypeOK, Shape, StageShape
        <5>2. ASSUME OpenCapture(c) \/ OpenReturns(c) \/ OpenUndecodable(c)
              PROVE  api[c] = "run_once" /\ pc[c] # "err" /\ (Opening(pc'[c]) => Opening(pc[c]))
          BY <5>2, <1>2, <1>b DEF OpenCapture, OpenReturns, OpenUndecodable, AfterOpen, TypeOK
        <5>3. ASSUME InvokeReturns(c) \/ CloseReturns(c) \/ Refused(c) \/ TransportError(c)
              PROVE  api[c] = "run_once" /\ pc[c] # "err" /\ (Opening(pc'[c]) => Opening(pc[c]))
          BY <5>3, <1>2, <1>b DEF InvokeReturns, CloseReturns, Refused, TransportError, TypeOK
        <5>4. ASSUME NEW ch \in SomeChannel, InvokeSend(c, ch) \/ CloseSend(c, ch)
              PROVE  api[c] = "run_once" /\ pc[c] # "err" /\ (Opening(pc'[c]) => Opening(pc[c]))
          BY <5>4, <1>2, <1>b DEF InvokeSend, CloseSend, Api, TypeOK
        <5>5. ~OpenWithoutHash(c) /\ ~InvokeWithoutRail(c)
          BY <3>1, <1>2, <1>b DEF OpenWithoutHash, InvokeWithoutRail, TypeOK
        <5> QED
          BY <3>0, <3>1, <5>1, <5>2, <5>3, <5>4, <5>5 DEF Operation, SomeChannel
      <4> QED
        BY <4>1, <3>0, <1>a DEF SessionShape
    <3>2. CASE d # c
      BY <3>0, <3>2, <1>2, <1>a, <1>b, OneCall DEF SessionShape
    <3> QED
      BY <3>1, <3>2
  <2>2. ASSUME NEW d \in Calls, RunOnce(d), PlanReturns(d) \/ QueryFails(d)
        PROVE  /\ pc'[c] # "err" => query'[c].at = "ok"
               /\ pc'[c] \in {"planned", "opening", "captured"} => ~ApiKey'
    <3>1. CASE d = c
      <4>1. pc'[c] = "err" \/ (pc'[c] = IF ApiKey THEN "holding" ELSE "planned")
        BY <2>2, <3>1, <1>b DEF RunOnce, TypeOK
      <4>2. pc'[c] # "err" => query'[c].at = "ok"
        <5>1. CASE pc'[c] = "err"
          BY <5>1
        <5>2. CASE pc'[c] # "err"
          <6>1. PlanReturns(c) /\ query[c].said # 0
            BY <2>2, <3>1, <5>2, <1>b
               DEF PlanReturns, QueryFails, RunOnce, vars, caller, TypeOK
          <6>2. Ends(c, "ok")
            BY <6>1 DEF PlanReturns
          <6> QED
            BY <6>2, <1>c DEF Ends, Queries
        <5> QED
          BY <5>1, <5>2
      <4> QED
        BY <4>1, <4>2, <1>a
    <3>2. CASE d # c
      <4>1. query'[c] = query[c]
        BY <2>2, <3>2, <1>c DEF PlanReturns, QueryFails, Ends
      <4>2. api'[c] = api[c] /\ pc'[c] = pc[c]
        BY <2>2, <3>2, <1>b, OneCall DEF Client
      <4> QED
        BY <4>1, <4>2, <1>2, <1>a DEF SessionShape
    <3> QED
      BY <3>1, <3>2
  <2>3. ASSUME UNCHANGED caller
        PROVE  /\ pc'[c] # "err" => query'[c].at = "ok"
               /\ pc'[c] \in {"planned", "opening", "captured"} => ~ApiKey'
    BY <2>3, <1>2, <1>a, PlanStays DEF caller, SessionShape
  <2>4. ASSUME NEW d \in Calls, SessionClient(d), ~SessionOperation(d), ~UNCHANGED caller
        PROVE  RunOnce(d) /\ (PlanReturns(d) \/ QueryFails(d))
    BY <2>4 DEF SessionClient, Discover, DiscoverReturns, PlanReturns,
       GetChannelBalance, GetChannelBalanceReturns, WellKnownMiss, WellKnownHit,
       WellKnownReturns, QueryFails, Send, vars
  <2> QED
    BY <2>1, <2>2, <2>3, <2>4, HubAlone DEF SessionNext, HubAnswers, SessionDispose, Dispose,
       Republish, Expire, sessionVars, vars
<1> QED
  BY <1>1, <1>2 DEF SessionShape

\* A call that has asked for a channel keeps having asked for it.
LEMMA OpensStays ==
    ASSUME SessionTypes, SessionShape, [SessionNext]_sessionVars, NEW c \in Calls, Opens(c)
    PROVE  Opens(c)' /\ asked'[c] = asked[c]
<1>a. ApiKey' = ApiKey
  BY SessionStep, RailStays DEF SessionTypes, IInv
<1>b. TypeOK /\ [Next]_vars /\ pc[c] \notin {"idle", "planned"}
  BY SessionStep DEF SessionTypes, IInv, Shape, StageShape, Opens
<1>1. api[c] = "run_once" => query'[c].at = "ok"
  BY PlanStays DEF Opens
<1>2. api'[c] = api[c] /\ asked'[c] = asked[c] /\ pc'[c] # "planned"
  <2>1. ASSUME NEW d \in Calls, Client(d) PROVE api'[c] = api[c] /\ asked'[c] = asked[c] /\ pc'[c] # "planned"
    <3>1. CASE d = c
      <4>1. pc[c] \in {"holding", "invoked"} => api[c] = "run_once"
        BY DEF SessionTypes, IInv, Shape, StageShape
      <4>2. ASSUME NEW x \in SomeChannel, InvokeSend(c, x) \/ CloseSend(c, x)
            PROVE  api'[c] = api[c] /\ asked'[c] = asked[c] /\ pc'[c] # "planned"
        BY <4>1, <4>2, <1>b DEF InvokeSend, CloseSend, Api, TypeOK
      <4>3. ASSUME OpenCapture(c) \/ OpenReturns(c) \/ OpenUndecodable(c) \/ InvokeReturns(c)
                   \/ CloseReturns(c) \/ Refused(c) \/ TransportError(c)
            PROVE  api'[c] = api[c] /\ asked'[c] = asked[c] /\ pc'[c] # "planned"
        BY <4>3, <1>b DEF OpenCapture, OpenReturns, OpenUndecodable, InvokeReturns,
           CloseReturns, Refused, TransportError, AfterOpen, TypeOK
      <4> QED
        BY <2>1, <3>1, <4>2, <4>3, <1>b DEF Client, Operation, OpenHit, OpenMiss, MayOpen,
           OpenWithoutHash, InvokeWithoutRail, RunOnce, SomeChannel
    <3>2. CASE d # c
      BY <2>1, <3>2, <1>b, OneCall
    <3> QED
      BY <3>1, <3>2
  <2>2. ASSUME UNCHANGED caller PROVE api'[c] = api[c] /\ asked'[c] = asked[c] /\ pc'[c] # "planned"
    BY <2>2, <1>b DEF caller
  <2> QED
    BY <2>1, <2>2, <1>b, HubAlone DEF Next, Dispose, Expire, vars
<1> QED
  BY <1>a, <1>1, <1>2 DEF Opens

\* An open that displaced a channel goes on displacing it.
LEMMA DisplacedStays ==
    ASSUME SessionTypes, SessionShape, [SessionNext]_sessionVars, NEW ch \in Channels,
           status[ch] # "none", Displaced(ch)
    PROVE  Displaced(ch)'
<1>b. TypeOK /\ [Next]_vars
  BY SessionStep DEF SessionTypes, IInv
<1>t. terms'[ch] = terms[ch]
  BY <1>b, TermsStay
<1>1. PICK c \in Calls : /\ Opens(c) /\ asked[c].key = terms[ch].key /\ held[c] # ch
                         /\ asked[c].tx # terms[ch].tx \/ (held[c] # NoChannel /\ pc[c] # "captured")
  BY DEF Displaced
<1>2. Opens(c)' /\ asked'[c] = asked[c]
  BY <1>1, OpensStays
<1>3. \/ held'[c] = held[c] /\ pc'[c] # "captured"
      \/ held'[c] = held[c] /\ pc'[c] = pc[c]
      \/ OpenCapture(c) \/ OpenUndecodable(c)
  <2>1. ASSUME NEW d \in Calls, Client(d), d = c, ~OpenCapture(c), ~OpenUndecodable(c)
        PROVE  held'[c] = held[c] /\ pc'[c] # "captured"
    <3>1. pc[c] \notin {"idle", "planned"}
      BY <1>1 DEF SessionTypes, IInv, Shape, StageShape, Opens
    <3> QED
      BY <2>1, <3>1, <1>b DEF Client, Operation, OpenHit, OpenMiss, MayOpen,
         OpenWithoutHash, OpenReturns, InvokeSend,
         InvokeWithoutRail, InvokeReturns, CloseSend, CloseReturns, Refused, TransportError,
         RunOnce, AfterOpen, TypeOK
  <2>2. ASSUME NEW d \in Calls, Client(d), d # c PROVE held'[c] = held[c] /\ pc'[c] = pc[c]
    BY <2>2, <1>b, OneCall
  <2>3. ASSUME UNCHANGED caller PROVE held'[c] = held[c] /\ pc'[c] = pc[c]
    BY <2>3 DEF caller
  <2> QED
    BY <2>1, <2>2, <2>3, <1>b, HubAlone DEF Next, Dispose, Expire, vars
<1>4. CASE OpenCapture(c)
  <2>1. pc[c] = "opening" /\ net[c] = "ok" /\ held'[c] = about[c]
    BY <1>4, <1>b DEF OpenCapture, TypeOK
  <2>2. op[c] = "open" /\ about[c] # NoChannel /\ held[c] = NoChannel
    BY <2>1 DEF SessionTypes, IInv, Shape, StageShape, NetShape, Awaiting
  <2>3. terms[about[c]].tx = asked[c].tx
    BY <2>2 DEF SessionTypes, IInv, Handles, UnreadIsFresh
  <2>4. held'[c] # ch /\ asked[c].tx # terms[ch].tx
    BY <1>1, <2>1, <2>2, <2>3
  <2> QED
    BY <1>1, <1>2, <1>t, <2>4 DEF Displaced
<1>5. CASE OpenUndecodable(c)
  <2>1. pc[c] = "captured" /\ held'[c] = NoChannel
    BY <1>5, <1>b DEF OpenUndecodable, TypeOK
  <2>2. NoChannel # ch
    OBVIOUS
  <2> QED
    BY <1>1, <1>2, <1>t, <2>1, <2>2 DEF Displaced
<1>6. CASE held'[c] = held[c] /\ (pc'[c] # "captured" \/ pc'[c] = pc[c])
  <2>2. asked[c].tx # terms[ch].tx \/ (held[c] # NoChannel /\ pc'[c] # "captured")
    BY <1>1, <1>6
  <2> QED
    BY <1>1, <1>2, <1>t, <1>6, <2>2 DEF Displaced
<1> QED
  BY <1>3, <1>4, <1>5, <1>6

\* The answer that names a channel stays unused until the channel is cached, or
\* its answer does not decode.
LEMMA AnswerStays ==
    ASSUME SessionTypes, [SessionNext]_sessionVars, NEW ch \in Channels, AnswerUnused(ch)
    PROVE  AnswerUnused(ch)' \/ Cached(ch)' \/ ch \in dropped'
<1>b. TypeOK /\ Shape /\ [Next]_vars
  BY SessionStep DEF SessionTypes, IInv
<1>1. PICK c \in Calls : \/ op[c] = "open" /\ about[c] = ch
                         \/ pc[c] = "captured" /\ held[c] = ch
  BY DEF AnswerUnused
<1>2. CASE pc[c] = "captured" /\ held[c] = ch
  <2>1. CASE OpenReturns(c)
    <3>1. cache'[asked[c].key].ch = ch /\ asked[c].key \in Keys
      BY <1>2, <2>1, <1>b DEF OpenReturns, TypeOK, Asks
    <3> QED
      BY <3>1 DEF Cached
  <2>2. CASE OpenUndecodable(c)
    <3>1. pc'[c] = "err"
      BY <2>2, <1>b DEF OpenUndecodable, TypeOK
    <3>2. SessionOperation(c)
      <4>1. ~UNCHANGED caller
        BY <1>2, <3>1 DEF caller
      <4>2. PICK d \in Calls : SessionClient(d)
        BY <4>1, HubAlone DEF SessionNext, HubAnswers, SessionDispose, Dispose, Republish, Expire,
           sessionVars, vars
      <4>3. SessionOperation(d) \/ RunOnce(d)
        BY <4>1, <4>2 DEF SessionClient, Discover, DiscoverReturns, PlanReturns,
           GetChannelBalance, GetChannelBalanceReturns, WellKnownMiss, WellKnownHit,
           WellKnownReturns, QueryFails, Send, vars
      <4>4. d = c
        BY <4>3, <1>2, <3>1, <1>b, OneCall DEF SessionOperation, Client
      <4>5. ~RunOnce(c)
        BY <1>2 DEF RunOnce
      <4> QED
        BY <4>3, <4>4, <4>5
    <3> QED
      BY <1>2, <3>1, <3>2 DEF SessionOperation
  <2>3. CASE ~OpenReturns(c) /\ ~OpenUndecodable(c)
    <3>1. pc'[c] = pc[c] /\ held'[c] = held[c]
      <4>1. ~Client(c)
        BY <1>2, <2>3, <1>b DEF Client, Operation, OpenHit, OpenMiss, MayOpen, OpenWithoutHash,
           OpenCapture, InvokeSend, InvokeWithoutRail, InvokeReturns, CloseSend, CloseReturns,
           Refused, TransportError, RunOnce
      <4> QED
        BY <4>1, <1>b, OneCall, HubAlone DEF Next, Dispose, Expire, vars, caller
    <3> QED
      BY <1>2, <3>1 DEF AnswerUnused
  <2> QED
    BY <2>1, <2>2, <2>3
<1>3. CASE op[c] = "open" /\ about[c] = ch
  <2>a. net[c] \notin {"request", "refused", "failed", "none"} /\ pc[c] \in {"opening", "err"}
    BY <1>3, <1>b DEF Shape, NetShape, StageShape, Awaiting, TypeOK, Stages
  <2>1. ASSUME Client(c) PROVE AnswerUnused(ch)'
    <3>1. CASE OpenCapture(c)
      BY <1>3, <3>1, <1>b DEF OpenCapture, AnswerUnused, TypeOK
    <3>2. CASE TransportError(c)
      BY <1>3, <3>2 DEF TransportError, AnswerUnused
    <3> QED
      BY <2>1, <2>a, <3>1, <3>2 DEF Client, Operation, OpenHit, OpenMiss, MayOpen,
         OpenWithoutHash, OpenReturns, OpenUndecodable, InvokeSend, InvokeWithoutRail,
         InvokeReturns, CloseSend, CloseReturns, Refused, RunOnce
  <2>2. ASSUME NEW d \in Calls, Client(d), d # c PROVE AnswerUnused(ch)'
    BY <1>3, <2>2, <1>b, OneCall DEF AnswerUnused
  <2>3. ASSUME NEW d \in Calls, Hub(d) PROVE AnswerUnused(ch)'
    <3>1. about'[c] = about[c] /\ op'[c] = op[c]
      BY <2>3, <2>a, <1>b DEF Hub, RequestLost, HubOpen, HubDebitChannel, HubDebitCredit, HubClose,
         HubRefuse, HubFail, Requested, TypeOK
    <3> QED
      BY <1>3, <3>1 DEF AnswerUnused
  <2>4. ASSUME UNCHANGED exchange PROVE AnswerUnused(ch)'
    BY <1>3, <2>4 DEF exchange, AnswerUnused
  <2> QED
    BY <1>b, <2>1, <2>2, <2>3, <2>4 DEF Next, Dispose, Expire, vars, caller
<1> QED
  BY <1>1, <1>2, <1>3

\* A channel that leaves the cache leaves it for one of the causes.
LEMMA EvictedWithCause ==
    ASSUME SessionTypes, SessionShape, [SessionNext]_sessionVars, NEW ch \in Channels,
           status'[ch] = "open", ch \notin expired', Cached(ch), ~Cached(ch)'
    PROVE  ch \in dropped' \/ Displaced(ch)' \/ CloseSent(ch)' \/ 2 * terms'[ch].balance <= Deposit
<1>b. TypeOK /\ Shape /\ Handles /\ [Next]_vars
  BY SessionStep DEF SessionTypes, IInv
<1>a. ApiKey' = ApiKey
  BY <1>b, RailStays
<1>1. PICK k \in Keys : cache[k].ch = ch
  BY DEF Cached
<1>2. ch # NoChannel /\ status[ch] # "none" /\ terms[ch].key = k /\ terms[ch].tx = cache[k].tx
      /\ cache[k].balance = terms[ch].balance
  BY <1>1, <1>b DEF Handles, CacheAgreesWithHub, KnownIsProvable, Known, SessionShape,
     CachedAsOpened
<1>t. terms'[ch] = terms[ch]
  BY <1>2, <1>b, TermsStay
<1>3. cache'[k].ch # ch /\ cache' # cache
  BY <1>1 DEF Cached
<1>4. ASSUME SessionDispose PROVE ch \in dropped'
  BY <1>1, <1>4 DEF SessionDispose
<1>5. ASSUME NEW c \in Calls, Client(c)
      PROVE  Displaced(ch)' \/ CloseSent(ch)' \/ 2 * terms'[ch].balance <= Deposit
  <2>1. ASSUME NEW l \in Keys, NEW t \in SomeTx, OpenMiss(c, l, t)
        PROVE  Displaced(ch)' \/ 2 * terms'[ch].balance <= Deposit
    <3>1. l = k /\ UNCHANGED hub
      BY <2>1, <1>1, <1>3, <1>b DEF OpenMiss, TypeOK
    <3>2. /\ asked'[c].key = k /\ asked'[c].tx = t /\ pc'[c] = "opening"
          /\ held'[c] = NoChannel
      BY <2>1, <3>1, <1>b DEF OpenMiss, MayOpen, TypeOK, Shape, StageShape
    <3>3. Opens(c)'
      <4>1. CASE api[c] = "run_once"
        <5>1. pc[c] = "planned"
          BY <2>1, <4>1, <1>b DEF OpenMiss, MayOpen, Shape, StageShape
        <5>2. query[c].at = "ok" /\ ~ApiKey
          BY <4>1, <5>1 DEF SessionShape
        <5>3. api'[c] = "run_once"
          BY <2>1, <4>1, <1>b DEF OpenMiss, Api, TypeOK
        <5>4. query'[c].at = "ok"
          BY <5>2, PlanStays
        <5> QED
          BY <5>2, <5>3, <5>4, <3>2, <1>a DEF Opens
      <4>2. CASE api[c] # "run_once"
        BY <2>1, <4>2, <1>b DEF OpenMiss, Api, TypeOK, Opens
      <4> QED
        BY <4>1, <4>2
    <3>4. CASE t # NoTx
      <4>1. cache[k].tx # t
        BY <2>1, <3>1, <3>4, <1>1, <1>2 DEF OpenMiss, Reuses, hub
      <4> QED
        BY <3>2, <3>3, <4>1, <1>2, <1>t DEF Displaced
    <3>5. CASE t = NoTx
      <4>1. ch \notin expired
        BY <3>1 DEF hub
      <4>2. ~(2 * cache[k].balance > Deposit)
        BY <2>1, <3>1, <3>5, <4>1, <1>1, <1>2 DEF OpenMiss, Reuses, IsReusable
      <4>3. terms[ch].balance \in 0..Deposit
        BY <1>b DEF TypeOK, Terms
      <4> QED
        BY <4>2, <4>3, <1>2, <1>t
    <3> QED
      BY <3>4, <3>5
  <2>2. ASSUME OpenReturns(c) PROVE Displaced(ch)'
    <3>1. pc[c] = "captured" /\ asked[c].key = k
      BY <2>2, <1>1, <1>3, <1>b DEF OpenReturns, TypeOK
    <3>2. held[c] # ch /\ held[c] # NoChannel /\ api[c] \in {"open", "run_once"}
      BY <3>1, <1>1, <1>b DEF Handles, CapturedIsPrivate, Shape, StageShape
    <3>3. api' = api /\ asked' = asked /\ held' = held /\ pc'[c] \in {"ok", "holding"}
      BY <2>2, <1>b DEF OpenReturns, AfterOpen, TypeOK
    <3>4. api[c] = "run_once" => query'[c].at = "ok" /\ ~ApiKey
      BY <3>1, PlanStays DEF SessionShape
    <3>5. Opens(c)'
      BY <3>2, <3>3, <3>4, <1>a DEF Opens
    <3> QED
      BY <3>1, <3>2, <3>3, <3>5, <1>2, <1>t DEF Displaced
  <2>3. ASSUME NEW x \in Channels, CloseSend(c, x) PROVE CloseSent(ch)'
    <3>1. x = ch
      BY <2>3, <1>1, <1>3, <1>b DEF CloseSend, TypeOK
    <3>2. held'[c] = ch /\ pc'[c] = "closing" /\ result' = result
      BY <2>3, <3>1, <1>b DEF CloseSend, TypeOK
    <3>3. CloseBegun(c)'
      <4>1. CASE pc[c] = "idle"
        BY <2>3, <4>1, <1>b DEF CloseSend, Api, TypeOK, CloseBegun, Shape, StageShape
      <4>2. CASE pc[c] = "invoked"
        <5>1. api[c] = "run_once" /\ ~ApiKey /\ result[c] \in {"paid", "failed"}
          BY <4>2, <1>b DEF Shape, StageShape
        <5>2. api'[c] = "run_once"
          BY <2>3, <5>1, <1>b DEF CloseSend, Api, TypeOK
        <5> QED
          BY <5>1, <5>2, <3>2, <1>a DEF CloseBegun
      <4> QED
        BY <2>3, <4>1, <4>2 DEF CloseSend
    <3> QED
      BY <3>2, <3>3 DEF CloseSent
  <2> QED
    BY <1>3, <1>5, <2>1, <2>2, <2>3 DEF Client, Operation, OpenHit, OpenWithoutHash, OpenCapture,
       OpenUndecodable, InvokeSend, InvokeWithoutRail, InvokeReturns, CloseReturns, Refused,
       TransportError, RunOnce, agent
<1>6. (\E c \in Calls : Client(c)) \/ SessionDispose
  <2>1. ASSUME NEW c \in Calls, SessionClient(c) PROVE Client(c)
    BY <2>1, <1>3 DEF SessionClient, SessionOperation, Discover, DiscoverReturns, PlanReturns,
       GetChannelBalance, GetChannelBalanceReturns, WellKnownMiss, WellKnownHit,
       WellKnownReturns, QueryFails, Send, Client, vars, agent
  <2> QED
    BY <1>3, <2>1, HubAlone DEF SessionNext, HubAnswers, Republish, Expire, sessionVars, vars, agent
<1> QED
  BY <1>4, <1>5, <1>6

\* An open channel is out of reach only for one of the causes, after every step.
LEMMA LeftStep ==
    ASSUME SessionTypes, SessionTypes', SessionShape, LeftOnlyWithCause, [SessionNext]_sessionVars
    PROVE  LeftOnlyWithCause'
<1>b. TypeOK /\ [Next]_vars
  BY SessionStep DEF SessionTypes, IInv
<1> SUFFICES ASSUME NEW ch \in Channels, status'[ch] = "open", ch \notin expired', ~Cached(ch)'
             PROVE  \/ AnswerUnused(ch)' \/ ch \in dropped' \/ Displaced(ch)' \/ CloseSent(ch)'
                    \/ 2 * terms'[ch].balance <= Deposit
  BY DEF LeftOnlyWithCause
<1>1. CASE status[ch] = "none"
  <2>1. PICK c \in Calls : HubOpen(c, ch)
    <3>1. ASSUME NEW c \in Calls, Hub(c), status'[ch] # status[ch],
                 ~\E x \in Channels : HubOpen(c, x)
          PROVE  status'[ch] = "closed"
      BY <3>1, <1>b DEF Hub, RequestLost, HubDebitChannel, HubDebitCredit, HubClose, HubRefuse,
         HubFail, hub, TypeOK
    <3>2. ASSUME NEW c \in Calls, NEW x \in Channels, HubOpen(c, x), status'[ch] # status[ch]
          PROVE  x = ch
      BY <3>2, <1>b DEF HubOpen, TypeOK
    <3>3. PICK c \in Calls : Hub(c)
      BY <1>1, <1>b, OneCall DEF Next, Dispose, Expire, hub, vars
    <3> QED
      BY <1>1, <3>1, <3>2, <3>3
  <2>2. op'[c] = "open" /\ about'[c] = ch
    BY <2>1, <1>b DEF HubOpen, Requested, TypeOK
  <2> QED
    BY <2>2 DEF AnswerUnused
<1>2. CASE status[ch] # "none" /\ Cached(ch)
  BY <1>2, EvictedWithCause
<1>3. CASE status[ch] # "none" /\ ~Cached(ch)
  <2>1. status[ch] = "open" /\ ch \notin expired
    <3>1. ch \notin expired
      <4>1. expired \subseteq expired'
        BY <1>b, OneCall, HubAlone DEF Next, Dispose, Expire, hub, vars
      <4> QED
        BY <4>1
    <3>2. status[ch] # "closed"
      <4>1. ASSUME NEW c \in Calls, Hub(c), status[ch] = "closed" PROVE status'[ch] = "closed"
        BY <4>1, <1>b DEF Hub, RequestLost, HubOpen, HubDebitChannel, HubDebitCredit, HubClose,
           HubRefuse, HubFail, hub, TypeOK
      <4> QED
        BY <4>1, <1>b, OneCall DEF Next, Dispose, Expire, hub, vars
    <3> QED
      BY <1>3, <3>1, <3>2, <1>b DEF TypeOK
  <2>2. \/ AnswerUnused(ch) \/ ch \in dropped \/ Displaced(ch) \/ CloseSent(ch)
        \/ 2 * terms[ch].balance <= Deposit
    BY <1>3, <2>1 DEF LeftOnlyWithCause
  <2>3. CASE AnswerUnused(ch)
    BY <2>3, AnswerStays
  <2>4. CASE ch \in dropped
    BY <2>4 DEF SessionNext, SessionClient, SessionOperation, Discover, DiscoverReturns, PlanReturns,
       GetChannelBalance, GetChannelBalanceReturns, WellKnownMiss, WellKnownHit,
       WellKnownReturns, QueryFails, Send, HubAnswers, SessionDispose, Republish, queries, sessionVars
  <2>5. CASE Displaced(ch)
    BY <1>3, <2>5, DisplacedStays
  <2>6. CASE CloseSent(ch)
    BY <2>6, <1>b, CloseStays DEF CloseSent, SessionTypes
  <2>7. CASE 2 * terms[ch].balance <= Deposit
    BY <1>3, <2>7, <1>b, TermsStay
  <2> QED
    BY <2>2, <2>3, <2>4, <2>5, <2>6, <2>7
<1> QED
  BY <1>1, <1>2, <1>3

\* Whatever is lost, late or concurrent, a channel with money on it stays where
\* the next open of its key finds it, but for the causes LeftOnlyWithCause names.
THEOREM ChannelsStayInReach == SessionSpec => []LeftOnlyWithCause
<1>1. SessionInit => SessionShape /\ LeftOnlyWithCause
  BY DEF SessionInit, Init, Empty, SessionShape, CachedAsOpened, LeftOnlyWithCause
<1>2. SessionTypes /\ SessionTypes' /\ SessionShape /\ LeftOnlyWithCause
      /\ [SessionNext]_sessionVars => SessionShape' /\ LeftOnlyWithCause'
  BY SessionShapeStep, LeftStep
<1> QED
  BY <1>1, <1>2, SessionTyped, PTL DEF SessionSpec

-----------------------------------------------------------------------------
\* What is left on a channel, and who spent it

\* The calls debited on a channel account for what was spent on it.
Accounted ==
    \A ch \in Channels :
        status[ch] # "none" => Used(ch) = Price * Cardinality(DebitedOn(ch))

\* What get_channel_balance was told lies between what is left by now and what
\* the channel came with.
ToldInRange ==
    \A c \in Calls : query[c].kind = "balance" =>
        /\ status[query[c].ch] # "none"
        /\ query[c].said # 0 => query[c].said \in balance[query[c].ch]..terms[query[c].ch].balance

\* Price times one more.
LEMMA TimesOneMore == ASSUME NEW p \in Nat, NEW n \in Nat PROVE p * (n + 1) = p * n + p
  OBVIOUS

\* A product of naturals is one.
LEMMA NatTimes == ASSUME NEW p \in Nat, NEW n \in Nat PROVE p * n \in Nat
  OBVIOUS

\* Some of the calls are finitely many.
LEMMA DebitedFinite ==
    ASSUME NEW ch PROVE IsFiniteSet(DebitedOn(ch)) /\ Cardinality(DebitedOn(ch)) \in Nat
<1>1. IsFiniteSet(DebitedOn(ch))
  BY SessionAssumption, FS_Subset DEF DebitedOn
<1> QED
  BY <1>1, FS_CardinalityType

\* A step that debits nothing leaves the calls debited on every channel as they are.
LEMMA DebitedStays ==
    ASSUME IInv, IInv', [Next]_vars, debits' = debits, NEW ch \in Channels
    PROVE  DebitedOn(ch)' = DebitedOn(ch)
<1>1. ASSUME NEW c \in Calls, debits[c] = 1 PROVE held'[c] = held[c]
  <2>1. pc[c] \in {"invoking", "invoked", "closing", "ok", "err"}
    <3>1. result[c] = "paid" \/ op[c] = "invoke"
      BY <1>1 DEF IInv, Payment
    <3>2. pc[c] \in Stages
      BY DEF IInv, TypeOK
    <3>3. StageShape(c) /\ NetShape(c)
      BY DEF IInv, Shape
    <3>4. pc[c] \in {"idle", "planned", "opening", "captured", "holding"} =>
              result[c] = "none" /\ op[c] # "invoke"
      BY <3>3 DEF StageShape, NetShape, Awaiting
    <3> QED
      BY <3>1, <3>2, <3>4 DEF Stages
  <2>2. TypeOK
    BY DEF IInv
  <2>3. ASSUME Client(c) PROVE held'[c] = held[c]
    <3>1. ASSUME NEW x \in SomeChannel, InvokeSend(c, x) \/ CloseSend(c, x)
          PROVE  held'[c] = held[c]
      BY <2>1, <2>2, <3>1 DEF InvokeSend, CloseSend, TypeOK
    <3> QED
      BY <2>1, <2>2, <2>3, <3>1 DEF Client, Operation, OpenHit, OpenMiss, MayOpen,
         OpenWithoutHash, OpenCapture, OpenReturns, OpenUndecodable, InvokeWithoutRail,
         InvokeReturns, CloseReturns, Refused, TransportError, RunOnce, SomeChannel
  <2>4. ASSUME NEW d \in Calls, Client(d), d # c PROVE held'[c] = held[c]
    BY <2>2, <2>4, OneCall
  <2> QED
    BY <2>3, <2>4, HubAlone DEF Next, Dispose, Expire, vars, caller
<1> QED
  BY <1>1 DEF DebitedOn

\* A debit takes the price from one channel and adds one call to those debited on it.
LEMMA AccountedStep ==
    ASSUME IInv, IInv', [Next]_vars, Accounted PROVE Accounted'
<1>b. TypeOK
  BY DEF IInv
<1> SUFFICES ASSUME NEW ch \in Channels, status'[ch] # "none"
             PROVE  Used(ch)' = Price * Cardinality(DebitedOn(ch)')
  BY DEF Accounted
<1>1. ASSUME debits' = debits, UNCHANGED <<status, terms, balance>>
      PROVE  Used(ch)' = Price * Cardinality(DebitedOn(ch)')
  BY <1>1, DebitedStays DEF Accounted, Used
<1>2. ASSUME NEW c \in Calls, NEW x \in Channels, HubOpen(c, x)
      PROVE  Used(ch)' = Price * Cardinality(DebitedOn(ch)')
  <2>1. debits' = debits
    BY <1>2 DEF HubOpen
  <2>2. CASE x = ch
    <3>1. balance'[ch] = terms'[ch].balance /\ terms'[ch].balance \in Nat
      BY <1>2, <2>2, <1>b DEF HubOpen, TypeOK
    <3>2. DebitedOn(ch) = {}
      BY <1>2, <2>2 DEF HubOpen, DebitedOn, IInv, Handles, KnownIsProvable, Known
    <3>3. Used(ch)' = 0
      BY <3>1 DEF Used
    <3>4. Cardinality(DebitedOn(ch)') = 0
      BY <2>1, <3>2, DebitedStays, FS_EmptySet
    <3> QED
      BY <3>3, <3>4
  <2>3. CASE x # ch
    <3>1. Used(ch)' = Used(ch) /\ status'[ch] = status[ch]
      BY <1>2, <2>3, <1>b DEF HubOpen, TypeOK, Used
    <3> QED
      BY <2>1, <3>1, DebitedStays DEF Accounted
  <2> QED
    BY <2>2, <2>3
<1>3. ASSUME NEW c \in Calls, HubDebitChannel(c)
      PROVE  Used(ch)' = Price * Cardinality(DebitedOn(ch)')
  <2>1. debits[c] = 0 /\ held[c] = about[c] /\ about[c] \in Channels
    <3>1. op[c] = "invoke" /\ net[c] = "request" /\ about[c] # NoChannel
      BY <1>3 DEF HubDebitChannel, Requested
    <3>2. held[c] = about[c] /\ result[c] = "none" /\ debits[c] \in 0..1
      BY <3>1 DEF IInv, Shape, NetShape, Payment
    <3>3. debits[c] # 1
      BY <3>1, <3>2 DEF IInv, Payment
    <3> QED
      BY <3>1, <3>2, <3>3, <1>b DEF TypeOK, SomeChannel
  <2>2. /\ held' = held /\ debits' = [debits EXCEPT ![c] = 1] /\ terms' = terms /\ status' = status
        /\ balance' = [balance EXCEPT ![about[c]] = @ - Price]
    BY <1>3, <2>1 DEF HubDebitChannel, Debited, caller
  <2>3. CASE about[c] = ch
    <3>1. DebitedOn(ch)' = DebitedOn(ch) \cup {c} /\ c \notin DebitedOn(ch)
      BY <2>1, <2>2, <2>3, <1>b DEF DebitedOn, TypeOK
    <3>2. Cardinality(DebitedOn(ch)') = Cardinality(DebitedOn(ch)) + 1
      BY <3>1, DebitedFinite, FS_AddElement
    <3>3. Used(ch)' = Used(ch) + Price
      <4>1. balance[ch] \in Nat /\ terms[ch].balance \in Nat /\ balance'[ch] = balance[ch] - Price
        BY <2>2, <2>3, <1>b DEF TypeOK, Terms
      <4> QED
        BY <2>2, <4>1 DEF Used
    <3>4. Used(ch) = Price * Cardinality(DebitedOn(ch))
      BY <2>2 DEF Accounted
    <3> HIDE DEF DebitedOn, Used
    <3> QED
      BY <3>2, <3>3, <3>4, DebitedFinite, TimesOneMore
  <2>4. CASE about[c] # ch
    <3>1. DebitedOn(ch)' = DebitedOn(ch)
      BY <2>1, <2>2, <2>4, <1>b DEF DebitedOn, TypeOK
    <3>2. Used(ch)' = Used(ch)
      BY <2>1, <2>2, <2>4, <1>b DEF Used, TypeOK
    <3> QED
      BY <2>2, <3>1, <3>2 DEF Accounted
  <2> QED
    BY <2>3, <2>4
<1>4. ASSUME NEW c \in Calls, HubDebitCredit(c)
      PROVE  Used(ch)' = Price * Cardinality(DebitedOn(ch)')
  <2>1. held[c] # ch
    BY <1>4 DEF HubDebitCredit, Requested, IInv, Shape, NetShape
  <2>2. UNCHANGED <<held, status, terms, balance>> /\ debits' = [debits EXCEPT ![c] = debits[c] + 1]
    BY <1>4 DEF HubDebitCredit, Debited, caller
  <2>3. DebitedOn(ch)' = DebitedOn(ch)
    BY <2>1, <2>2, <1>b DEF DebitedOn, TypeOK
  <2> QED
    BY <2>2, <2>3 DEF Accounted, Used
<1>5. ASSUME NEW c \in Calls, HubClose(c)
      PROVE  Used(ch)' = Price * Cardinality(DebitedOn(ch)')
  <2>1. debits' = debits /\ terms' = terms /\ balance' = balance
    BY <1>5 DEF HubClose
  <2>2. status[ch] # "none"
    BY <1>5, <1>b DEF HubClose, TypeOK
  <2> QED
    BY <2>1, <2>2, DebitedStays DEF Accounted, Used
<1>6. ASSUME NEW c \in Calls, Client(c) PROVE debits' = debits
  BY <1>6 DEF Client, Operation, OpenHit, OpenMiss, OpenWithoutHash, OpenCapture, OpenReturns,
     OpenUndecodable, InvokeSend, InvokeWithoutRail, InvokeReturns, CloseSend, CloseReturns,
     Refused, TransportError, RunOnce, hub
<1>7. ASSUME NEW c \in Calls, Client(c) PROVE UNCHANGED <<status, terms, balance>>
  BY <1>7, <1>b, OneCall
<1>8. ASSUME NEW c \in Calls, Hub(c) PROVE Used(ch)' = Price * Cardinality(DebitedOn(ch)')
  BY <1>1, <1>2, <1>3, <1>4, <1>5, <1>8 DEF Hub, RequestLost, HubRefuse, HubFail, hub
<1> QED
  BY <1>1, <1>6, <1>7, <1>8 DEF Next, Dispose, Expire, hub, vars

\* What a channel has left never rises, and never falls below 0.
LEMMA BalanceFalls ==
    ASSUME TypeOK, NEW ch \in Channels, [Next]_vars, status[ch] # "none"
    PROVE  balance'[ch] <= balance[ch] /\ status'[ch] # "none"
<1>b. balance[ch] \in Nat /\ Price \in Nat
  BY DEF TypeOK
<1>1. ASSUME NEW c \in Calls, Hub(c) PROVE balance'[ch] <= balance[ch] /\ status'[ch] # "none"
  <2>1. ASSUME HubDebitChannel(c) PROVE balance'[ch] <= balance[ch] /\ status'[ch] # "none"
    BY <2>1, <1>b DEF HubDebitChannel, TypeOK
  <2>2. ASSUME NEW x \in Channels, HubOpen(c, x)
        PROVE  balance'[ch] <= balance[ch] /\ status'[ch] # "none"
    BY <2>2, <1>b DEF HubOpen, TypeOK
  <2>3. ASSUME HubClose(c) PROVE balance'[ch] <= balance[ch] /\ status'[ch] # "none"
    BY <2>3, <1>b DEF HubClose, TypeOK
  <2> QED
    BY <1>1, <1>b, <2>1, <2>2, <2>3 DEF Hub, RequestLost, HubDebitCredit, HubRefuse, HubFail, hub
<1>2. ASSUME UNCHANGED <<status, balance>> PROVE balance'[ch] <= balance[ch] /\ status'[ch] # "none"
  BY <1>2, <1>b
<1> QED
  BY <1>1, <1>2, OneCall DEF Next, Dispose, Expire, hub, vars

\* What was told stays in its range while the channel is drawn down.
LEMMA ToldStays ==
    ASSUME SessionTypes, ToldInRange, [SessionNext]_sessionVars,
           NEW c \in Calls, query[c].kind = "balance", query'[c].ch = query[c].ch,
           query'[c].said \in {query[c].said, 0}
    PROVE  /\ status'[query'[c].ch] # "none"
           /\ query'[c].said # 0 =>
                  query'[c].said \in balance'[query'[c].ch]..terms'[query'[c].ch].balance
<1> DEFINE ch == query[c].ch
<1>1. ch \in Channels /\ status[ch] # "none"
  BY DEF SessionTypes, SessionTypeOK, Queries, SomeChannel, ToldInRange
<1>2. TypeOK /\ [Next]_vars /\ TypeOK'
  BY SessionStep, TypeStep DEF SessionTypes, IInv
<1>3. balance'[ch] <= balance[ch] /\ status'[ch] # "none" /\ terms'[ch] = terms[ch]
  BY <1>1, <1>2, BalanceFalls, TermsStay
<1>4. balance[ch] \in Nat /\ balance'[ch] \in Nat /\ terms[ch].balance \in Nat
  BY <1>1, <1>2 DEF TypeOK, Terms
<1>5. query[c].said # 0 => query[c].said \in balance[ch]..terms[ch].balance
  BY DEF ToldInRange
<1> HIDE DEF ch
<1>6. query[c].said # 0 => query[c].said \in balance'[ch]..terms'[ch].balance
  BY <1>3, <1>4, <1>5
<1> QED
  BY <1>3, <1>6 DEF ch

\* An answer tells what is left, and what was told stays in its range.
LEMMA ToldStep ==
    ASSUME SessionTypes, SessionTypes', ToldInRange, Accounted, [SessionNext]_sessionVars
    PROVE  ToldInRange'
<1>b. query \in [Calls -> Queries]
  BY DEF SessionTypes, SessionTypeOK
<1>c. TypeOK /\ Shape /\ Handles
  BY DEF SessionTypes, IInv
<1> SUFFICES ASSUME NEW c \in Calls, query'[c].kind = "balance"
             PROVE  /\ status'[query'[c].ch] # "none"
                    /\ query'[c].said # 0 =>
                           query'[c].said \in balance'[query'[c].ch]..terms'[query'[c].ch].balance
  BY DEF ToldInRange
<1>1. ASSUME query'[c] = query[c]
      PROVE  /\ status'[query'[c].ch] # "none"
             /\ query'[c].said # 0 =>
                    query'[c].said \in balance'[query'[c].ch]..terms'[query'[c].ch].balance
  BY <1>1, ToldStays
<1>2. ASSUME NEW ch \in Channels, GetChannelBalance(c, ch)
      PROVE  /\ status'[query'[c].ch] # "none"
             /\ query'[c].said # 0 =>
                    query'[c].said \in balance'[query'[c].ch]..terms'[query'[c].ch].balance
  <2>1. query'[c].ch = ch /\ query'[c].said = 0 /\ status' = status /\ ch \in HandedOut
    BY <1>2, <1>b DEF GetChannelBalance, Send, vars, hub
  <2>2. status[ch] # "none"
    BY <2>1, <1>c DEF HandedOut, Handles, KnownIsProvable, Known
  <2> QED
    BY <2>1, <2>2
<1>3. ASSUME NEW at, query' = [query EXCEPT ![c].at = at]
      PROVE  /\ status'[query'[c].ch] # "none"
             /\ query'[c].said # 0 =>
                    query'[c].said \in balance'[query'[c].ch]..terms'[query'[c].ch].balance
  <2>1. query'[c].kind = query[c].kind /\ query'[c].ch = query[c].ch /\ query'[c].said = query[c].said
    BY <1>3, <1>b DEF Queries
  <2> QED
    BY <2>1, ToldStays
<1>4. ASSUME GetChannelBalanceReturns(c)
      PROVE  /\ status'[query'[c].ch] # "none"
             /\ query'[c].said # 0 =>
                    query'[c].said \in balance'[query'[c].ch]..terms'[query'[c].ch].balance
  <2>1. PICK n \in {query[c].said, 0} : query' = [query EXCEPT ![c].at = "ok", ![c].said = n]
    BY <1>4 DEF GetChannelBalanceReturns
  <2>2. query'[c].ch = query[c].ch /\ query'[c].said = n /\ query[c].kind = "balance"
    BY <1>4, <2>1, <1>b DEF GetChannelBalanceReturns, Queries
  <2> QED
    BY <2>1, <2>2, ToldStays
<1>5. ASSUME HubAnswers(c)
      PROVE  /\ status'[query'[c].ch] # "none"
             /\ query'[c].said # 0 =>
                    query'[c].said \in balance'[query'[c].ch]..terms'[query'[c].ch].balance
  <2>1. query'[c].kind = query[c].kind /\ query'[c].ch = query[c].ch
        /\ UNCHANGED <<status, terms, balance>>
    BY <1>5, <1>b DEF HubAnswers, Queries, vars, hub
  <2>2. query'[c].said = balance[query[c].ch]
    <3>1. PICK n : n = balance[query[c].ch] /\ query' = [query EXCEPT ![c].at = "answered", ![c].said = n]
      BY <1>5, <2>1 DEF HubAnswers
    <3> QED
      BY <3>1, <1>b DEF Queries
  <2> DEFINE ch == query[c].ch
  <2>3. ch \in Channels /\ status[ch] # "none"
    BY <2>1 DEF SessionTypes, SessionTypeOK, Queries, SomeChannel, ToldInRange
  <2>4. Used(ch) = Price * Cardinality(DebitedOn(ch))
    BY <2>3 DEF Accounted
  <2>5. balance[ch] \in Nat /\ terms[ch].balance \in Nat /\ Price \in Nat
    BY <2>3, <1>c DEF TypeOK, Terms
  <2>6. balance[ch] <= terms[ch].balance
    <3>1. Price * Cardinality(DebitedOn(ch)) >= 0
      BY <2>5, DebitedFinite, NatTimes
    <3> QED
      BY <2>4, <2>5, <3>1 DEF Used
  <2> HIDE DEF ch
  <2>7. balance[ch] \in balance[ch]..terms[ch].balance
    BY <2>5, <2>6
  <2> QED
    BY <2>1, <2>2, <2>3, <2>7 DEF ch
<1>6. ASSUME NEW d \in Calls, SessionClient(d) \/ HubAnswers(d), d # c PROVE query'[c] = query[c]
  BY <1>6, <1>b DEF SessionClient, SessionOperation, Discover, DiscoverReturns, PlanReturns,
     GetChannelBalance, GetChannelBalanceReturns, WellKnownMiss, WellKnownHit,
     WellKnownReturns, QueryFails, Send, Ends, HubAnswers
<1>7. ASSUME SessionClient(c)
      PROVE  /\ status'[query'[c].ch] # "none"
             /\ query'[c].said # 0 =>
                    query'[c].said \in balance'[query'[c].ch]..terms'[query'[c].ch].balance
  <2>1. ~Discover(c) /\ ~WellKnownMiss(c) /\ ~WellKnownHit(c)
    BY <1>b DEF Discover, WellKnownMiss, WellKnownHit, Send
  <2>2. SessionOperation(c) => query'[c] = query[c]
    BY DEF SessionOperation
  <2> QED
    BY <1>1, <1>2, <1>3, <1>4, <1>7, <2>1, <2>2 DEF SessionClient, DiscoverReturns, PlanReturns,
       WellKnownReturns, QueryFails, Ends
<1>8. ASSUME query' = query
      PROVE  /\ status'[query'[c].ch] # "none"
             /\ query'[c].said # 0 =>
                    query'[c].said \in balance'[query'[c].ch]..terms'[query'[c].ch].balance
  BY <1>1, <1>8
<1> QED
  BY <1>1, <1>5, <1>6, <1>7, <1>8 DEF SessionNext, SessionDispose, Republish, queries, sessionVars

\* All that is known of what was spent.
SpentInv == SessionTypes /\ SessionShape /\ Accounted /\ ToldInRange

\* The account of every channel adds up throughout a session.
LEMMA SessionSpent == SessionSpec => []SpentInv
<1>1. SessionInit => SessionShape /\ Accounted /\ ToldInRange
  BY DEF SessionInit, Init, NoQuery, Empty, SessionShape, CachedAsOpened, Accounted, ToldInRange
<1>2. SessionTypes /\ SessionTypes' /\ SessionShape /\ Accounted /\ ToldInRange
      /\ [SessionNext]_sessionVars => SessionShape' /\ Accounted' /\ ToldInRange'
  BY SessionStep, SessionShapeStep, AccountedStep, ToldStep DEF SessionTypes
<1> QED
  BY <1>1, <1>2, SessionTyped, PTL DEF SessionSpec, SpentInv

\* A cached balance, and one get_channel_balance told, is above what is left by
\* the invokes of this agent and nothing else.
THEOREM BalanceStale == SessionSpec => []BalanceStaleByInvokes
<1>1. SpentInv => BalanceStaleByInvokes
  <2> SUFFICES ASSUME SpentInv PROVE BalanceStaleByInvokes
    OBVIOUS
  <2>1. ASSUME NEW k \in Keys, cache[k].ch # NoChannel
        PROVE  cache[k].balance - balance[cache[k].ch] =
                   Price * Cardinality(DebitedOn(cache[k].ch))
    <3>1. cache[k].ch \in Channels /\ status[cache[k].ch] # "none"
      BY <2>1 DEF SpentInv, SessionTypes, IInv, TypeOK, Entries, SomeChannel, Handles,
         KnownIsProvable, Known
    <3> QED
      BY <2>1, <3>1 DEF SpentInv, SessionShape, CachedAsOpened, Accounted, Used
  <2> QED
    BY <2>1 DEF SpentInv, ToldInRange, BalanceStaleByInvokes
<1> QED
  BY <1>1, SessionSpent, PTL

\* Of a run_once that returned, the price billed is one of those that add up to
\* what its channel was used for.
LEMMA BillIsOne == IInv /\ Accounted => BillMeetsSettlement
<1> SUFFICES ASSUME IInv, Accounted, NEW c \in Calls, api[c] = "run_once", pc[c] = "ok", ~ApiKey
             PROVE  Used(held[c]) = Bill(c) + Price * Cardinality(DebitedOn(held[c]) \ {c})
  BY DEF BillMeetsSettlement
<1>a. TypeOK /\ Shape /\ Handles /\ Payment
  BY DEF IInv
<1> DEFINE ch == held[c]
           others == DebitedOn(ch) \ {c}
<1>1. ch \in Channels /\ result[c] \in {"paid", "failed"} /\ op[c] = "none"
  BY <1>a DEF Shape, StageShape, NetShape, CloseBegun, Awaiting, TypeOK, SomeChannel
<1>2. Used(ch) = Price * Cardinality(DebitedOn(ch))
  BY <1>1, <1>a DEF Accounted, Handles, KnownIsProvable, Known
<1>3. IsFiniteSet(others) /\ Cardinality(others) \in Nat /\ c \notin others
  BY DebitedFinite, FS_RemoveElement, FS_CardinalityType
<1>4. CASE result[c] = "paid"
  <2>1. DebitedOn(ch) = others \cup {c}
    BY <1>4, <1>a DEF Payment, DebitedOn
  <2>2. Cardinality(DebitedOn(ch)) = Cardinality(others) + 1
    BY <1>3, <2>1, FS_AddElement
  <2>3. Bill(c) = Price
    BY <1>4 DEF Bill
  <2> HIDE DEF ch, others
  <2>4. Used(ch) = Price + Price * Cardinality(others)
    BY <1>2, <1>3, <2>2, TimesOneMore
  <2> QED
    BY <2>3, <2>4 DEF ch, others
<1>5. CASE result[c] = "failed"
  <2>1. debits[c] # 1
    BY <1>1, <1>5, <1>a DEF Payment
  <2>2. DebitedOn(ch) = others
    BY <2>1 DEF DebitedOn
  <2>3. Bill(c) = 0
    BY <1>5 DEF Bill
  <2>4. Price * Cardinality(others) \in Nat
    BY <1>3, NatTimes
  <2> HIDE DEF ch, others
  <2>5. Used(ch) = 0 + Price * Cardinality(others)
    BY <1>2, <2>2, <2>4
  <2> QED
    BY <2>3, <2>5 DEF ch, others
<1> QED
  BY <1>1, <1>4, <1>5

\* A bill of materials and its settlement differ by what other calls spent on
\* the same channel, and by nothing else.
THEOREM BillsMeetSettlements == SessionSpec => []BillMeetsSettlement
<1>1. SpentInv => BillMeetsSettlement
  BY BillIsOne DEF SpentInv, SessionTypes
<1> QED
  BY <1>1, SessionSpent, PTL

-----------------------------------------------------------------------------
\* EventLoopChannels: the agents of TypeScript and Dart.

\* The steps of the event loop that AgentChannels does not have.
OwnStep(c) == \/ Opened(c) \/ AttestationFails(c) \/ TsHeaders(c) \/ TsClosed(c)
              \/ DartClientClosed(c)

\* Every other step is one of AgentChannels, or leaves its state alone.
LEMMA LoopStep == [LoopNext]_loopVars => [Next]_vars \/ \E c \in Calls : OwnStep(c)
<1> SUFFICES ASSUME [LoopNext]_loopVars PROVE [Next]_vars \/ \E c \in Calls : OwnStep(c)
  OBVIOUS
<1>1. ASSUME NEW c \in Calls, Ts(c) PROVE Client(c) \/ OwnStep(c)
  BY <1>1 DEF Ts, TsOpenChannel, TsInvoke, TsCloseChannel, TsRunOnce, TsOpened, TsInvoked,
     TsRefused, TsFails, OwnStep, Client, Operation
<1>2. ASSUME NEW c \in Calls, Dart(c) PROVE Client(c) \/ OwnStep(c)
  BY <1>2 DEF Dart, DartOpenChannel, DartInvoke, DartCloseChannel, DartRunOnce, DartOpened,
     DartInvoked, DartClosed, DartRefused, DartFails, OwnStep, Client, Operation
<1>3. ASSUME TsDispose \/ DartDispose \/ DartFetchTrustedHashes PROVE [Next]_vars
  BY <1>3 DEF TsDispose, DartDispose, DartFetchTrustedHashes, Next
<1>4. CASE UNCHANGED loopVars
  BY <1>4 DEF loopVars
<1> QED
  BY <1>1, <1>2, <1>3, <1>4 DEF LoopNext, Next

\* The event loop's own steps keep the types.
LEMMA OwnTypes == ASSUME TypeOK, Shape, NEW c \in Calls, OwnStep(c) PROVE TypeOK'
<1> USE DEF NoAccount, TypeOK, Stages, Nets, SomeChannel, SomeTx, Asks, Entries, Terms,
            caller, exchange, agent, hub
<1>1. CASE Opened(c)
  <2>1. op[c] = "open" /\ net[c] = "ok"
    BY <1>1 DEF Opened, Shape, NetShape, Awaiting
  <2>2. about[c] \in Channels
    BY <2>1 DEF Shape, NetShape
  <2> QED
    BY <1>1, <2>2 DEF Opened, Read, AfterOpen, Shape, StageShape
<1>2. CASE AttestationFails(c)
  BY <1>2 DEF AttestationFails
<1>3. CASE TsHeaders(c)
  BY <1>3 DEF TsHeaders
<1>4. CASE TsClosed(c)
  BY <1>4 DEF TsClosed, Read
<1>5. ASSUME NEW k \in Keys, NEW t \in SomeTx, OpenOnClosed(c, k, t), ThrowsOnClosed(c)
      PROVE  TypeOK'
  BY <1>5 DEF OpenOnClosed, ThrowsOnClosed, Api, Empty
<1>6. ASSUME NEW ch \in SomeChannel, InvokeOnClosed(c, ch), ThrowsOnClosed(c)
      PROVE  TypeOK'
  BY <1>6 DEF InvokeOnClosed, ThrowsOnClosed, Api
<1>7. ASSUME NEW ch \in Channels, CloseOnClosed(c, ch), ThrowsOnClosed(c)
      PROVE  TypeOK'
  BY <1>7 DEF CloseOnClosed, ThrowsOnClosed, Api, Empty
<1> HIDE DEF TypeOK
<1> QED
  BY <1>1, <1>2, <1>3, <1>4, <1>5, <1>6, <1>7 DEF OwnStep, DartClientClosed

\* They keep the rail, and a call and its exchange in step with each other.
LEMMA OwnShape == ASSUME TypeOK, Shape, NEW c \in Calls, OwnStep(c) PROVE ApiKey' = ApiKey /\ Shape'
<1>a. ApiKey' = ApiKey
  BY DEF OwnStep, Opened, AttestationFails, TsHeaders, TsClosed, DartClientClosed, ThrowsOnClosed, hub, ApiKey
<1> USE <1>a
<1> USE DEF TypeOK, Stages, Nets, SomeChannel, SomeTx, Asks, Entries, Terms,
            caller, exchange, agent, hub, Shape, StageShape, NetShape, Awaiting, CloseBegun
<1>1. CASE Opened(c)
  BY <1>1 DEF Opened, Read, AfterOpen
<1>2. CASE AttestationFails(c)
  BY <1>2 DEF AttestationFails
<1>3. CASE TsHeaders(c)
  BY <1>3 DEF TsHeaders
<1>4. CASE TsClosed(c)
  BY <1>4 DEF TsClosed, Read
<1>5. ASSUME NEW k \in Keys, NEW t \in SomeTx, OpenOnClosed(c, k, t), ThrowsOnClosed(c)
      PROVE  Shape'
  BY <1>5 DEF OpenOnClosed, ThrowsOnClosed, Api, MayOpen
<1>6. ASSUME NEW ch \in SomeChannel, InvokeOnClosed(c, ch), ThrowsOnClosed(c)
      PROVE  Shape'
  BY <1>6 DEF InvokeOnClosed, ThrowsOnClosed, Api, HandedOut
<1>7. ASSUME NEW ch \in Channels, CloseOnClosed(c, ch), ThrowsOnClosed(c)
      PROVE  Shape'
  BY <1>7 DEF CloseOnClosed, ThrowsOnClosed, Api, HandedOut
<1> HIDE DEF TypeOK, Shape
<1> QED
  BY <1>1, <1>2, <1>3, <1>4, <1>5, <1>6, <1>7 DEF OwnStep, DartClientClosed

\* They keep a call's exchange truthful about its debit.
LEMMA OwnPayment == ASSUME TypeOK, Shape, Payment, NEW c \in Calls, OwnStep(c) PROVE Payment'
<1> USE DEF TypeOK, caller, exchange, agent, hub, Shape, StageShape, NetShape, Awaiting,
            CloseBegun, Payment
<1>1. CASE Opened(c)
  BY <1>1 DEF Opened, Read
<1>2. CASE AttestationFails(c)
  BY <1>2 DEF AttestationFails
<1>3. CASE TsHeaders(c)
  BY <1>3 DEF TsHeaders
<1>4. CASE TsClosed(c)
  <2>1. op[c] = "close"
    BY <1>4 DEF TsClosed
  <2>2. debits[c] = 1 => result[c] = "paid"
    BY <2>1
  <2> QED
    BY <1>4, <2>2 DEF TsClosed, Read
<1>5. CASE DartClientClosed(c)
  BY <1>5 DEF DartClientClosed, ThrowsOnClosed
<1> QED
  BY <1>1, <1>2, <1>3, <1>4, <1>5 DEF OwnStep

\* They keep what the agent, its callers and the hub know of a channel consistent.
LEMMA OwnHandles == ASSUME TypeOK, Shape, Handles, NEW c \in Calls, OwnStep(c) PROVE Handles'
<1>a. ApiKey' = ApiKey
  BY OwnShape
<1> USE <1>a
<1> USE DEF TypeOK, Stages, Nets, SomeChannel, SomeTx, Asks, Entries, Terms,
            caller, exchange, agent, hub, Shape, StageShape, NetShape, Awaiting,
            CloseBegun, Handles, UnreadIsFresh, CapturedIsPrivate,
            KnownIsProvable, CacheAgreesWithHub, CloseAnswered,
            NotCachedOnceClosing, OpenAnswersItsCaller, SecretLostOnlyWithAnswer,
            RequestsCarryProof, Known
<1>1. CASE Opened(c)
  BY <1>1 DEF Opened, Read, AfterOpen
<1>2. CASE AttestationFails(c)
  BY <1>2 DEF AttestationFails
<1>3. CASE TsHeaders(c)
  <2>1. pc[c] = "closing" /\ net[c] = "ok" => status[held[c]] = "closed"
    OBVIOUS
  <2> QED
    BY <1>3, <2>1 DEF TsHeaders, Waiting
<1>4. CASE TsClosed(c)
  BY <1>4 DEF TsClosed, Read
<1>5. ASSUME NEW k \in Keys, NEW t \in SomeTx, OpenOnClosed(c, k, t), ThrowsOnClosed(c)
      PROVE  Handles'
  BY <1>5 DEF OpenOnClosed, ThrowsOnClosed, Api, MayOpen, Empty
<1>6. ASSUME NEW ch \in SomeChannel, InvokeOnClosed(c, ch), ThrowsOnClosed(c)
      PROVE  Handles'
  BY <1>6 DEF InvokeOnClosed, ThrowsOnClosed, Api, HandedOut
<1>7. ASSUME NEW ch \in Channels, CloseOnClosed(c, ch), ThrowsOnClosed(c)
      PROVE  Handles'
  BY <1>7 DEF CloseOnClosed, ThrowsOnClosed, Api, HandedOut, Empty
<1> HIDE DEF TypeOK, Shape, Handles
<1> QED
  BY <1>1, <1>2, <1>3, <1>4, <1>5, <1>6, <1>7 DEF OwnStep, DartClientClosed

\* Every step of the event loop keeps the invariant of AgentChannels.
LEMMA LoopKeepsIInv == IInv /\ [LoopNext]_loopVars => IInv'
<1>1. IInv /\ [Next]_vars => IInv'
  BY TypeStep, ShapeStep, PaymentStep, HandlesStep DEF IInv
<1>2. ASSUME IInv, NEW c \in Calls, OwnStep(c) PROVE IInv'
  BY <1>2, OwnTypes, OwnShape, OwnPayment, OwnHandles DEF IInv
<1> QED
  BY <1>1, <1>2, LoopStep

\* A step of one call, or of the hub on its exchange, leaves the exchanges of the
\* others alone.
LEMMA OthersWait ==
    ASSUME TypeOK, NEW c \in Calls, Client(c) \/ Hub(c) \/ OwnStep(c), NEW d \in Calls \ {c}
    PROVE  pc'[d] = pc[d] /\ net'[d] = net[d]
<1> USE DEF TypeOK, caller, exchange
<1>1. CASE Client(c)
  BY <1>1 DEF Client, Operation, OpenHit, OpenMiss, OpenWithoutHash, OpenCapture, OpenReturns,
     OpenUndecodable, InvokeSend, InvokeWithoutRail, InvokeReturns, CloseSend, CloseReturns,
     Refused, TransportError, RunOnce, Post, Read
<1>2. CASE Hub(c)
  BY <1>2 DEF Hub, RequestLost, HubOpen, HubDebitChannel, HubDebitCredit, HubClose, HubRefuse,
     HubFail, Answer
<1>3. CASE OwnStep(c)
  BY <1>3 DEF OwnStep, Opened, AttestationFails, TsHeaders, TsClosed, DartClientClosed,
     ThrowsOnClosed, Read
<1> QED
  BY <1>1, <1>2, <1>3

\* A step of a call that reads nothing leaves the readers where they are.
LEMMA ReadingStays ==
    ASSUME LoopIInv, IInv', sdk' = sdk, open' \in BOOLEAN, sdk = "ts" => open' = open,
           reading' = reading, NEW c \in Calls, c \notin reading,
           \A d \in Calls \ {c} : pc'[d] = pc[d] /\ net'[d] = net[d]
    PROVE  LoopTypeOK'
BY DEF LoopIInv, LoopTypeOK, IInv, Waiting

\* Whose body is awaited is a call whose answer is there.
LEMMA LoopTypeStep == LoopIInv /\ IInv' /\ [LoopNext]_loopVars => LoopTypeOK'
<1> SUFFICES ASSUME LoopIInv, IInv', [LoopNext]_loopVars PROVE LoopTypeOK'
  OBVIOUS
<1>a. TypeOK /\ IInv /\ LoopTypeOK
  BY DEF LoopIInv, IInv
<1>b. \A c \in Calls : c \in reading => Waiting(c) /\ net[c] \in {"ok", "refused", "failed"}
  BY <1>a DEF LoopTypeOK
<1>1. ASSUME NEW c \in Calls, Ts(c) PROVE LoopTypeOK'
  <2>0. /\ \A d \in Calls \ {c} : pc'[d] = pc[d] /\ net'[d] = net[d]
        /\ sdk = "ts" /\ sdk' = sdk /\ open' = open
    <3>1. Client(c) \/ OwnStep(c)
      BY <1>1 DEF Ts, TsOpenChannel, TsInvoke, TsCloseChannel, TsRunOnce, TsOpened, TsInvoked,
         TsRefused, TsFails, OwnStep, Client, Operation
    <3> QED
      BY <1>1, <1>a, <3>1, OthersWait DEF Ts, TsOpenChannel, TsInvoke, TsCloseChannel, TsRunOnce,
         TsHeaders, TsOpened, TsInvoked, TsClosed, TsRefused, TsFails, TsBody, loop
  <2>1. CASE TsHeaders(c)
    BY <1>a, <1>b, <2>0, <2>1 DEF TsHeaders, LoopTypeOK, IInv, caller, exchange, Waiting
  <2>2. CASE reading' = reading \ {c}
    BY <1>a, <1>b, <2>0, <2>2 DEF LoopTypeOK, IInv, Waiting
  <2>3. CASE ~Waiting(c) /\ UNCHANGED loop
    BY <1>a, <1>b, <2>0, <2>3, ReadingStays DEF LoopTypeOK, loop
  <2> QED
    BY <1>1, <2>1, <2>2, <2>3 DEF Ts, TsOpenChannel, TsInvoke, TsCloseChannel, TsRunOnce,
       TsOpened, TsInvoked, TsClosed, TsRefused, TsFails, TsBody, Waiting, OpenHit, OpenMiss,
       MayOpen, OpenWithoutHash, InvokeSend, InvokeWithoutRail, AttestationFails, CloseSend,
       RunOnce
<1>2. ASSUME NEW c \in Calls, Dart(c) PROVE LoopTypeOK'
  <2>1. sdk = "dart" /\ UNCHANGED loop
    BY <1>2 DEF Dart, DartOpenChannel, DartInvoke, DartCloseChannel, DartRunOnce,
       DartClientClosed, ThrowsOnClosed, DartOpened, DartInvoked, DartClosed, DartRefused,
       DartFails, loop
  <2> QED
    BY <1>a, <2>1 DEF LoopTypeOK, IInv, loop
<1>3. ASSUME NEW c \in Calls, Hub(c), UNCHANGED loop PROVE LoopTypeOK'
  <2>1. c \notin reading
    BY <1>3, <1>b DEF Hub, RequestLost, HubOpen, HubDebitChannel, HubDebitCredit, HubClose,
       HubRefuse, HubFail, Requested
  <2> QED
    BY <1>3, <1>a, <2>1, OthersWait, ReadingStays DEF LoopTypeOK, loop
<1>4. ASSUME UNCHANGED <<pc, net, sdk, reading>>, open' \in BOOLEAN, sdk = "ts" => open' = open
      PROVE  LoopTypeOK'
  BY <1>4, <1>a DEF LoopTypeOK, IInv, Waiting
<1>5. CASE sdk = "ts" /\ TsDispose
  BY <1>4, <1>5, <1>a DEF TsDispose, Dispose, caller, exchange, loop, LoopTypeOK
<1>6. CASE sdk = "dart" /\ (DartDispose \/ DartFetchTrustedHashes)
  BY <1>4, <1>6 DEF DartDispose, DartFetchTrustedHashes, Dispose, caller, exchange, vars
<1>7. ASSUME NEW ch \in Channels, Expire(ch), UNCHANGED loop PROVE LoopTypeOK'
  BY <1>4, <1>7, <1>a DEF Expire, caller, exchange, loop, LoopTypeOK
<1>8. CASE UNCHANGED loopVars
  BY <1>4, <1>8, <1>a DEF loopVars, vars, caller, exchange, loop, LoopTypeOK
<1> QED
  BY <1>1, <1>2, <1>3, <1>5, <1>6, <1>7, <1>8 DEF LoopNext

\* The invariant is inductive on the event loop of either SDK.
THEOREM LoopInvariance == LoopSpec => []LoopIInv
<1>1. LoopInit => LoopIInv
  BY InitIInv DEF LoopInit, LoopIInv, LoopTypeOK, IInv
<1>2. LoopIInv /\ [LoopNext]_loopVars => LoopIInv'
  BY LoopKeepsIInv, LoopTypeStep DEF LoopIInv
<1> QED
  BY <1>1, <1>2, PTL DEF LoopSpec

\* A one-time secret is lost only with the answer that carried it.
THEOREM LoopSecretsKept == LoopSpec => []SecretLostOnlyWithAnswer
<1>1. LoopIInv => SecretLostOnlyWithAnswer
  BY DEF LoopIInv, IInv, Handles
<1> QED
  BY <1>1, LoopInvariance, PTL

\* Every request on an open channel carries the proof the hub asks for, though a
\* close forgets the secret before its body is read.
THEOREM LoopProofsSent == LoopSpec => []RequestsCarryProof
<1>1. LoopIInv => RequestsCarryProof
  BY DEF LoopIInv, IInv, Handles
<1> QED
  BY <1>1, LoopInvariance, PTL

\* A channel whose close was sent, or could not be sent because the client was
\* closed, is never answered from the cache again.
THEOREM LoopClosedStaysOut == LoopSpec => []NotCachedOnceClosing
<1>1. LoopIInv => NotCachedOnceClosing
  BY DEF LoopIInv, IInv, Handles
<1> QED
  BY <1>1, LoopInvariance, PTL

\* An open is answered with a channel of its own key and its own deposit.
THEOREM LoopOpensMatch == LoopSpec => []OpenAnswersItsCaller
<1>1. LoopIInv => OpenAnswersItsCaller
  BY DEF LoopIInv, IInv, Handles
<1> QED
  BY <1>1, LoopInvariance, PTL

\* run_once of either SDK returns Ok only once its channel is settled.
THEOREM LoopCyclesSettle == LoopSpec => []RunOnceSettles
<1>1. LoopIInv => RunOnceSettles
  BY DEF LoopIInv, IInv, Handles, CloseAnswered, Shape, StageShape, RunOnceSettles
<1> QED
  BY <1>1, LoopInvariance, PTL

\* Every step of the event loop is a step of PaidCalls or leaves debits and
\* outcomes alone.
LEMMA LoopPaidStep == IInv /\ IInv' /\ [LoopNext]_loopVars => [Paid!Next]_(Paid!vars)
<1> SUFFICES ASSUME IInv, IInv', NEW c \in Calls, OwnStep(c) PROVE [Paid!Next]_(Paid!vars)
  BY LoopStep, PaidStep
<1>t. pc \in [Calls -> Stages] /\ result \in [Calls -> {"none", "paid", "failed", "refused"}]
  BY DEF IInv, TypeOK
<1>1. CASE TsHeaders(c)
  BY <1>1 DEF TsHeaders, caller, hub, outcome, Paid!vars
<1>2. CASE ~TsHeaders(c)
  <2>1. pc[c] \notin {"ok", "err"}
    BY <1>2 DEF OwnStep, Opened, AttestationFails, TsClosed, DartClientClosed, OpenOnClosed,
       InvokeOnClosed, CloseOnClosed, MayOpen
  <2>2. debits' = debits
    BY <1>2 DEF OwnStep, Opened, AttestationFails, TsClosed, DartClientClosed, ThrowsOnClosed, hub
  <2>3. \A d \in Calls \ {c} : pc'[d] = pc[d] /\ result'[d] = result[d]
    BY <1>2, <1>t DEF OwnStep, Opened, AttestationFails, TsClosed, DartClientClosed, ThrowsOnClosed
  <2> QED
    BY <2>1, <2>2, <2>3, TellOrStutter
<1> QED
  BY <1>1, <1>2

\* The TypeScript and the Dart agent pay as PaidCalls promises.
THEOREM LoopPays == LoopSpec => PaidAsPromised
<1>1. LoopInit => Paid!Init
  BY DEF LoopInit, Init, outcome, Paid!Init
<1>2. LoopIInv => IInv
  BY DEF LoopIInv
<1> QED
  BY <1>1, <1>2, LoopPaidStep, LoopInvariance, PTL DEF LoopSpec, PaidAsPromised, Paid!Spec

\* The event loop's own steps debit nothing, and a call that was debited keeps its
\* channel.
LEMMA OwnAccounted ==
    ASSUME IInv, IInv', NEW c \in Calls, OwnStep(c), Accounted PROVE Accounted'
<1>b. /\ debits \in [Calls -> Nat] /\ held \in [Calls -> SomeChannel]
      /\ StageShape(c) /\ NetShape(c)
  BY DEF IInv, TypeOK, Shape
<1>1. UNCHANGED <<status, terms, balance, debits>>
  BY DEF OwnStep, Opened, AttestationFails, TsHeaders, TsClosed, DartClientClosed,
     ThrowsOnClosed, caller, hub
<1>2. debits[c] = 1 => pc[c] \notin {"idle", "planned", "opening"}
  BY <1>b DEF IInv, Payment, StageShape, NetShape, Awaiting
<1>3. ASSUME NEW d \in Calls, debits[d] = 1 PROVE held'[d] = held[d]
  <2>1. CASE Opened(c)
    BY <1>2, <1>3, <1>b, <2>1 DEF Opened
  <2>2. CASE DartClientClosed(c)
    BY <1>2, <1>3, <1>b, <2>2 DEF DartClientClosed, OpenOnClosed, InvokeOnClosed, CloseOnClosed,
       SomeChannel
  <2>3. CASE AttestationFails(c) \/ TsHeaders(c) \/ TsClosed(c)
    BY <2>3 DEF AttestationFails, TsHeaders, TsClosed, caller
  <2> QED
    BY <2>1, <2>2, <2>3 DEF OwnStep
<1>4. \A ch \in Channels : DebitedOn(ch)' = DebitedOn(ch)
  BY <1>1, <1>3 DEF DebitedOn
<1> QED
  BY <1>1, <1>4 DEF Accounted, Used

\* An entry they write has the balance of the answer.
LEMMA OwnCached ==
    ASSUME IInv, CachedAsOpened, NEW c \in Calls, OwnStep(c) PROVE CachedAsOpened'
<1>b. cache \in [Keys -> Entries] /\ terms' = terms
  BY DEF IInv, TypeOK, OwnStep, Opened, AttestationFails, TsHeaders, TsClosed, DartClientClosed,
     ThrowsOnClosed, hub
<1>1. CASE Opened(c)
  BY <1>1, <1>b DEF Opened, CachedAsOpened
<1>2. ASSUME \A k \in Keys : cache'[k] \in {cache[k], Empty} PROVE CachedAsOpened'
  BY <1>2, <1>b DEF CachedAsOpened, Empty
<1>3. CASE DartClientClosed(c)
  BY <1>2, <1>3, <1>b DEF DartClientClosed, OpenOnClosed, InvokeOnClosed, CloseOnClosed
<1>4. CASE AttestationFails(c) \/ TsHeaders(c) \/ TsClosed(c)
  BY <1>2, <1>4 DEF AttestationFails, TsHeaders, TsClosed, agent
<1> QED
  BY <1>1, <1>3, <1>4 DEF OwnStep

LoopSpent == LoopIInv /\ Accounted /\ CachedAsOpened

\* The account of every channel adds up on the event loop.
LEMMA LoopSpends == LoopSpec => []LoopSpent
<1>1. LoopInit => Accounted /\ CachedAsOpened
  BY DEF LoopInit, Init, Empty, Accounted, CachedAsOpened
<1>2. LoopIInv /\ LoopIInv' /\ Accounted /\ CachedAsOpened /\ [LoopNext]_loopVars
      => Accounted' /\ CachedAsOpened'
  BY LoopStep, AccountedStep, CachedStep, OwnAccounted, OwnCached DEF LoopIInv, IInv
<1> QED
  BY <1>1, <1>2, LoopInvariance, PTL DEF LoopSpec, LoopSpent

\* The balance a TypeScript or Dart agent has cached, on which it decides to reuse a
\* channel, is above what is left by its own invokes and nothing else.
CachedStaleByInvokes ==
    \A k \in Keys : cache[k].ch # NoChannel =>
        cache[k].balance - balance[cache[k].ch] = Price * Cardinality(DebitedOn(cache[k].ch))

\* The agents of an event loop reuse a channel on no staler a balance.
THEOREM LoopBalanceStale == LoopSpec => []CachedStaleByInvokes
<1>1. LoopSpent => CachedStaleByInvokes
  <2> SUFFICES ASSUME LoopSpent, NEW k \in Keys, cache[k].ch # NoChannel
               PROVE  cache[k].balance - balance[cache[k].ch] =
                          Price * Cardinality(DebitedOn(cache[k].ch))
    BY DEF CachedStaleByInvokes
  <2>1. cache[k].ch \in Channels /\ status[cache[k].ch] # "none"
    BY DEF LoopSpent, LoopIInv, IInv, TypeOK, Entries, SomeChannel, Handles, KnownIsProvable, Known
  <2> QED
    BY <2>1 DEF LoopSpent, CachedAsOpened, Accounted, Used
<1> QED
  BY <1>1, LoopSpends, PTL

\* Their bills and settlements differ by what other calls spent on the same channel,
\* and by nothing else.
THEOREM LoopBillsMeet == LoopSpec => []BillMeetsSettlement
<1>1. LoopSpent => BillMeetsSettlement
  BY BillIsOne DEF LoopSpent, LoopIInv
<1> QED
  BY <1>1, LoopSpends, PTL

\* On the event loop, too, a deposit is posted again only when its channel is no
\* longer the one cached under its key.
THEOREM LoopSentAgain == LoopSpec => [][SentAgainOnceLeft]_loopVars
<1>1. ASSUME IInv, NEW e \in Calls, OwnStep(e), NEW c \in Calls, NEW d \in Calls, SendsAgain(c, d)
      PROVE  FALSE
  BY <1>1 DEF IInv, TypeOK, SendsAgain, OwnStep, Opened, AfterOpen, AttestationFails, TsHeaders,
     TsClosed, DartClientClosed, ThrowsOnClosed, caller
<1>2. LoopIInv /\ [LoopNext]_loopVars => [SentAgainOnceLeft]_loopVars
  BY <1>1, LoopStep, SendingMisses DEF LoopIInv, SentAgainOnceLeft
<1> QED
  BY <1>2, LoopInvariance, PTL DEF LoopSpec
=============================================================================
