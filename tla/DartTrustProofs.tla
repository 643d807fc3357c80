--------------------------- MODULE DartTrustProofs ---------------------------
(***************************************************************************)
(* The map and the cache of DartTrust agree, and what an invoke is sent on *)
(* is what the agent was last given, for every set of requests, every      *)
(* registry, every lifetime and every clock.                               *)
(***************************************************************************)
EXTENDS DartTrust, TLAPS

USE TrustAssumption

IdleIsUnchecked == \A r \in Requests : pc[r] = "idle" => checked[r] = Unchecked

\* Who was told something has returned.
ToldIsDone == \A r \in Requests : told[r] # "nothing" => pc[r] = "done"

IInv == TypeOK /\ CacheAgreesWithMap /\ IdleIsUnchecked /\ ToldIsDone

\* Reading the cache keeps its type and only ever forgets.
LEMMA PrunedKeeps ==
    ASSUME TypeOK, NEW c \in Caps
    PROVE  /\ Pruned(c) \in [Caps -> [hash : SomeHash, until : Nat]]
           /\ \A d \in Caps : Pruned(c)[d] \in {cache[d], Absent}
<1> QED
  BY DEF TypeOK, Pruned, Absent, SomeHash

\* What sending a request leaves well typed.
LEMMA PostTypes ==
    ASSUME TypeOK, NEW r \in Requests, NEW k \in {"fetch", "invoke", "other"}, Post(r, k),
           cache' \in [Caps -> [hash : SomeHash, until : Nat]],
           checked' \in [Requests -> [cap : Caps \cup {NoCap}, hash : SomeHash]]
    PROVE  TypeOK'
<1> QED
  BY DEF TypeOK, Post, hashMap, SomeHash, RegistryType

\* What answering its caller leaves well typed.
LEMMA TellTypes ==
    ASSUME TypeOK, NEW r \in Requests,
           NEW what \in {"count", "-1", "exception", "answer"}, Tell(r, what)
    PROVE  /\ pc' \in [Requests -> {"idle", "waiting", "done"}]
           /\ kind' = kind
           /\ got' \in [Requests -> RegistryType]
           /\ checked' \in [Requests -> [cap : Caps \cup {NoCap}, hash : SomeHash]]
           /\ told' \in [Requests -> {"nothing", "count", "-1", "exception", "answer", "safety"}]
<1>1. Nothing \in RegistryType
  BY DEF Nothing, RegistryType, SomeHash
<1>2. Unchecked \in [cap : Caps \cup {NoCap}, hash : SomeHash]
  BY DEF Unchecked, SomeHash
<1> QED
  BY <1>1, <1>2 DEF TypeOK, Tell

\* Every step keeps the types of the variables.
LEMMA TypeStep == TypeOK /\ [Next]_vars => TypeOK'
<1> SUFFICES ASSUME TypeOK, [Next]_vars PROVE TypeOK'
  OBVIOUS
<1>1. ASSUME NEW r \in Requests, FetchSend(r) \/ OtherSend(r) \/ InvokeSend(r) PROVE TypeOK'
  BY <1>1, PostTypes DEF TypeOK, FetchSend, OtherSend, InvokeSend
<1>2. ASSUME NEW r \in Requests, NEW a \in Attestations, InvokeAttested(r, a) PROVE TypeOK'
  <2>1. a.cap \in Caps /\ a.hash \in SomeHash
    BY DEF Attestations, SomeHash
  <2>2. checked' \in [Requests -> [cap : Caps \cup {NoCap}, hash : SomeHash]]
    BY <1>2, <2>1 DEF InvokeAttested, TypeOK
  <2>3. cache' \in [Caps -> [hash : SomeHash, until : Nat]]
    BY <1>2, <2>1, PrunedKeeps DEF InvokeAttested
  <2> QED
    BY <1>2, <2>2, <2>3, PostTypes DEF InvokeAttested
<1>3. ASSUME NEW r \in Requests, NEW a \in Attestations, InvokeRejected(r, a) PROVE TypeOK'
  <2>1. cache' \in [Caps -> [hash : SomeHash, until : Nat]]
    BY <1>3, PrunedKeeps DEF InvokeRejected, Attestations
  <2> QED
    BY <1>3, <2>1 DEF InvokeRejected, hashMap, TypeOK
<1>4. ASSUME NEW r \in Requests, FetchReturns(r) PROVE TypeOK'
  <2>1. got[r].hashes \in [Caps -> SomeHash]
    BY DEF TypeOK, RegistryType
  <2>2. trusted' \in [Caps -> SomeHash]
    BY <1>4, <2>1 DEF FetchReturns, TypeOK
  <2>3. cache' \in [Caps -> [hash : SomeHash, until : Nat]]
    BY <1>4, <2>1 DEF FetchReturns, Entry, TypeOK
  <2>4. net' \in [Requests -> {"none", "request", "answered", "refused", "broken"}]
    BY <1>4 DEF FetchReturns, CloseClient, TypeOK
  <2>5. PICK what \in {"count", "exception"} : Tell(r, what)
    BY <1>4 DEF FetchReturns
  <2> QED
    BY <1>4, <2>2, <2>3, <2>4, <2>5, TellTypes DEF FetchReturns, CloseClient, TypeOK
<1>5. ASSUME NEW r \in Requests, FetchFails(r) PROVE TypeOK'
  <2>1. net' \in [Requests -> {"none", "request", "answered", "refused", "broken"}]
    BY <1>5 DEF FetchFails, CloseClient, TypeOK
  <2>2. PICK what \in {"-1", "exception"} : Tell(r, what)
    BY <1>5 DEF FetchFails
  <2> QED
    BY <1>5, <2>1, <2>2, TellTypes DEF FetchFails, CloseClient, verifier, hashMap, TypeOK
<1>6. ASSUME NEW r \in Requests, Returns(r) \/ InvokeTimeout(r) PROVE TypeOK'
  <2>1. PICK what \in {"answer", "exception"} : Tell(r, what)
    BY <1>6 DEF Returns, InvokeTimeout
  <2> QED
    BY <1>6, <2>1, TellTypes DEF Returns, InvokeTimeout, verifier, hashMap, TypeOK
<1>7. ASSUME NEW r \in Requests, Answer(r) PROVE TypeOK'
  <2>1. got' \in [Requests -> RegistryType]
    BY <1>7 DEF Answer, TypeOK
  <2> QED
    BY <1>7, <2>1 DEF Answer, verifier, hashMap, TypeOK
<1>8. ASSUME NEW r \in Requests, Break(r) PROVE TypeOK'
  BY <1>8 DEF Break, verifier, hashMap, TypeOK
<1>9. ASSUME NEW c \in Caps, VerifyAttestation(c) PROVE TypeOK'
  BY <1>9, PrunedKeeps DEF VerifyAttestation, hashMap, request, TypeOK
<1>10. ASSUME NEW c \in Caps, NEW h \in Hashes, TrustCodeHash(c, h) PROVE TypeOK'
  BY <1>10 DEF TrustCodeHash, Entry, request, TypeOK, SomeHash
<1>11. CASE Dispose
  BY <1>11 DEF Dispose, verifier, hashMap, TypeOK
<1>12. CASE Republish
  BY <1>12 DEF Republish, verifier, hashMap, request, TypeOK
<1>13. CASE Tick
  BY <1>13 DEF Tick, verifier, hashMap, request, TypeOK
<1>14. CASE UNCHANGED vars
  BY <1>14 DEF vars, verifier, hashMap, request, TypeOK
<1>15. ASSUME NEW r \in Requests, FetchThrows(r) PROVE TypeOK'
  <2>1. cache' \in [Caps -> [hash : SomeHash, until : Nat]]
    BY <1>15 DEF FetchThrows, Listed, Entry, TypeOK, RegistryType
  <2>2. net' \in [Requests -> {"none", "request", "answered", "refused", "broken"}]
    BY <1>15 DEF FetchThrows, CloseClient, TypeOK
  <2> QED
    BY <1>15, <2>1, <2>2, TellTypes DEF FetchThrows, CloseClient, hashMap, TypeOK
<1>16. ASSUME NEW c \in Caps, NEW h \in SomeHash, CallerWrites(c, h) PROVE TypeOK'
  BY <1>16 DEF CallerWrites, request, TypeOK
<1> QED
  BY <1>1, <1>2, <1>3, <1>4, <1>5, <1>6, <1>7, <1>8, <1>9, <1>10, <1>11, <1>12, <1>13, <1>14,
     <1>15, <1>16
     DEF Next, Ends

\* Where the two stores have diverged they stay so, unless both are written: what a
\* caller was told is not taken back.
LEMMA DivergedStays ==
    ASSUME TypeOK, ToldIsDone, [Next]_vars, NEW c \in Caps, Diverged(c)
    PROVE  Diverged(c)' \/ (c \in rewritten /\ c \notin rewritten')
<1>1. ASSUME UNCHANGED <<map, kind, told>>
      PROVE  Diverged(c)' \/ (c \in rewritten /\ c \notin rewritten')
  BY <1>1 DEF Diverged
<1>2. ASSUME map' = map, \A r \in Requests : told[r] # "nothing" =>
                             told'[r] = told[r] /\ kind'[r] = kind[r]
      PROVE  Diverged(c)' \/ (c \in rewritten /\ c \notin rewritten')
  BY <1>2 DEF Diverged
<1>3. ASSUME NEW q \in Requests, NEW k, Post(q, k)
      PROVE  map' = map /\ \A r \in Requests : told[r] # "nothing" =>
                               told'[r] = told[r] /\ kind'[r] = kind[r]
  BY <1>3 DEF Post, hashMap, ToldIsDone, TypeOK
<1>4. ASSUME NEW q \in Requests, NEW what, Tell(q, what)
      PROVE  \A r \in Requests : told[r] # "nothing" =>
                 told'[r] = told[r] /\ kind'[r] = kind[r]
  BY <1>4 DEF Tell, ToldIsDone, TypeOK
<1>5. ASSUME NEW q \in Requests,
             \/ FetchSend(q) \/ OtherSend(q) \/ InvokeSend(q)
             \/ \E a \in Attestations : InvokeAttested(q, a)
      PROVE  Diverged(c)' \/ (c \in rewritten /\ c \notin rewritten')
  BY <1>2, <1>3, <1>5 DEF FetchSend, OtherSend, InvokeSend, InvokeAttested
<1>6. ASSUME NEW q \in Requests, NEW a \in Attestations, InvokeRejected(q, a)
      PROVE  Diverged(c)' \/ (c \in rewritten /\ c \notin rewritten')
  <2>1. map' = map /\ \A r \in Requests : told[r] # "nothing" =>
                           told'[r] = told[r] /\ kind'[r] = kind[r]
    BY <1>6 DEF InvokeRejected, hashMap, ToldIsDone, TypeOK
  <2> QED
    BY <1>2, <2>1
<1>7. ASSUME NEW q \in Requests, Ends(q)
      PROVE  Diverged(c)' \/ (c \in rewritten /\ c \notin rewritten')
  <2>1. map' = map
    BY <1>7 DEF Ends, FetchReturns, FetchThrows, FetchFails, Returns, InvokeTimeout,
                verifier, hashMap
  <2>2. \A r \in Requests : told[r] # "nothing" => told'[r] = told[r] /\ kind'[r] = kind[r]
    BY <1>4, <1>7 DEF Ends, FetchReturns, FetchThrows, FetchFails, Returns, InvokeTimeout
  <2> QED
    BY <1>2, <2>1, <2>2
<1>8. ASSUME NEW q \in Requests, Answer(q) \/ Break(q)
      PROVE  Diverged(c)' \/ (c \in rewritten /\ c \notin rewritten')
  BY <1>1, <1>8 DEF Answer, Break, verifier, hashMap
<1>9. ASSUME NEW d \in Caps,
             \/ VerifyAttestation(d) \/ \E h \in Hashes : TrustCodeHash(d, h)
             \/ \E h \in SomeHash : CallerWrites(d, h)
      PROVE  Diverged(c)' \/ (c \in rewritten /\ c \notin rewritten')
  BY <1>1, <1>9 DEF VerifyAttestation, TrustCodeHash, CallerWrites, hashMap, request
<1>10. CASE Dispose \/ Republish \/ Tick \/ UNCHANGED vars
  BY <1>1, <1>10 DEF Dispose, Republish, Tick, vars, verifier, hashMap, request
<1> QED
  BY <1>5, <1>6, <1>7, <1>8, <1>9, <1>10 DEF Next

\* Every step keeps the cache in agreement with the map: the agent writes both or says
\* that it could not, the caller's own writes are counted, and reading only forgets.
LEMMA AgreementStep ==
    TypeOK /\ CacheAgreesWithMap /\ ToldIsDone /\ [Next]_vars => CacheAgreesWithMap'
<1> SUFFICES ASSUME TypeOK, CacheAgreesWithMap, ToldIsDone, [Next]_vars
             PROVE CacheAgreesWithMap'
  OBVIOUS
<1>0. \A c \in Caps : Diverged(c) => Diverged(c)' \/ (c \in rewritten /\ c \notin rewritten')
  BY DivergedStays
<1>1. ASSUME NEW c \in Caps, cache' = Pruned(c), UNCHANGED hashMap PROVE CacheAgreesWithMap'
  <2>1. \A d \in Caps : cache'[d] \in {cache[d], Absent}
    BY <1>1, PrunedKeeps
  <2> QED
    BY <1>0, <1>1, <2>1 DEF CacheAgreesWithMap, Absent, hashMap
<1>2. ASSUME UNCHANGED <<cache, hashMap>> PROVE CacheAgreesWithMap'
  BY <1>0, <1>2 DEF CacheAgreesWithMap, hashMap
<1>3. ASSUME NEW r \in Requests, FetchReturns(r) PROVE CacheAgreesWithMap'
  <2>1. \A c \in Listed(r) : cache'[c].hash = trusted'[c]
    BY <1>3 DEF FetchReturns, Listed, Entry
  <2>2. \A c \in Caps \ Listed(r) :
           /\ cache'[c] = cache[c] /\ trusted'[c] = trusted[c]
           /\ c \in rewritten => c \in rewritten'
    BY <1>3 DEF FetchReturns
  <2> SUFFICES ASSUME NEW c \in Caps, cache'[c].hash # NoHash
               PROVE  cache'[c].hash = trusted'[c] \/ Diverged(c)'
    BY DEF CacheAgreesWithMap
  <2>3. CASE c \in Listed(r)
    BY <2>1, <2>3
  <2>4. CASE c \notin Listed(r)
    BY <1>0, <2>2, <2>4 DEF CacheAgreesWithMap
  <2> QED
    BY <2>3, <2>4
<1>4. ASSUME NEW c \in Caps, NEW h \in Hashes, TrustCodeHash(c, h) PROVE CacheAgreesWithMap'
  <2>1. cache'[c].hash = trusted'[c]
    BY <1>4 DEF TrustCodeHash, Entry, TypeOK
  <2>2. \A d \in Caps \ {c} :
           /\ cache'[d] = cache[d] /\ trusted'[d] = trusted[d]
           /\ d \in rewritten => d \in rewritten'
    BY <1>4 DEF TrustCodeHash, TypeOK
  <2> QED
    BY <1>0, <2>1, <2>2 DEF CacheAgreesWithMap
<1>5. ASSUME NEW r \in Requests, NEW a \in Attestations,
             InvokeAttested(r, a) \/ InvokeRejected(r, a)
      PROVE CacheAgreesWithMap'
  BY <1>1, <1>5 DEF InvokeAttested, InvokeRejected, Post, Attestations
<1>6. ASSUME NEW r \in Requests,
             \/ FetchSend(r) \/ OtherSend(r) \/ InvokeSend(r)
             \/ FetchFails(r) \/ Returns(r) \/ InvokeTimeout(r) \/ Answer(r) \/ Break(r)
      PROVE CacheAgreesWithMap'
  BY <1>2, <1>6 DEF FetchSend, OtherSend, InvokeSend, Post, FetchFails, Returns,
                    InvokeTimeout, Answer, Break, verifier
<1>7. ASSUME NEW c \in Caps, VerifyAttestation(c) PROVE CacheAgreesWithMap'
  BY <1>1, <1>7 DEF VerifyAttestation
<1>8. CASE Dispose \/ Republish \/ Tick \/ UNCHANGED vars
  BY <1>2, <1>8 DEF Dispose, Republish, Tick, vars, verifier
<1>9. ASSUME NEW r \in Requests, FetchThrows(r) PROVE CacheAgreesWithMap'
  <2>1. map' = "fixed" /\ kind'[r] = "fetch" /\ told'[r] = "exception"
    BY <1>9 DEF FetchThrows, Tell, hashMap, TypeOK
  <2> QED
    BY <2>1 DEF CacheAgreesWithMap, Diverged
<1>10. ASSUME NEW c \in Caps, NEW h \in SomeHash, CallerWrites(c, h) PROVE CacheAgreesWithMap'
  <2>1. c \in rewritten' /\ cache' = cache /\ \A d \in Caps \ {c} : trusted'[d] = trusted[d]
    BY <1>10 DEF CallerWrites, TypeOK
  <2>2. \A d \in Caps : d \in rewritten => d \in rewritten'
    BY <1>10 DEF CallerWrites
  <2> QED
    BY <1>0, <2>1, <2>2 DEF CacheAgreesWithMap, Diverged
<1> QED
  BY <1>3, <1>4, <1>5, <1>6, <1>7, <1>8, <1>9, <1>10 DEF Next, Ends

\* Every step keeps who was told something among those that have returned.
LEMMA ToldStep == TypeOK /\ ToldIsDone /\ [Next]_vars => ToldIsDone'
<1> SUFFICES ASSUME TypeOK, ToldIsDone, [Next]_vars PROVE ToldIsDone'
  OBVIOUS
<1>1. ASSUME NEW r \in Requests, NEW k, Post(r, k) PROVE ToldIsDone'
  BY <1>1 DEF Post, ToldIsDone, TypeOK
<1>2. ASSUME NEW r \in Requests, NEW what, Tell(r, what) PROVE ToldIsDone'
  BY <1>2 DEF Tell, ToldIsDone, TypeOK
<1>3. ASSUME UNCHANGED <<pc, told>> PROVE ToldIsDone'
  BY <1>3 DEF ToldIsDone
<1>4. ASSUME NEW r \in Requests,
             \/ FetchSend(r) \/ OtherSend(r) \/ InvokeSend(r)
             \/ \E a \in Attestations : InvokeAttested(r, a)
      PROVE ToldIsDone'
  BY <1>1, <1>4 DEF FetchSend, OtherSend, InvokeSend, InvokeAttested
<1>5. ASSUME NEW r \in Requests, NEW a \in Attestations, InvokeRejected(r, a)
      PROVE ToldIsDone'
  BY <1>5 DEF InvokeRejected, ToldIsDone, TypeOK
<1>6. ASSUME NEW r \in Requests, Ends(r) PROVE ToldIsDone'
  BY <1>2, <1>6 DEF Ends, FetchReturns, FetchThrows, FetchFails, Returns, InvokeTimeout
<1>7. ASSUME NEW r \in Requests, Answer(r) \/ Break(r) PROVE ToldIsDone'
  BY <1>3, <1>7 DEF Answer, Break
<1>8. ASSUME NEW c \in Caps,
             \/ VerifyAttestation(c) \/ \E h \in Hashes : TrustCodeHash(c, h)
             \/ \E h \in SomeHash : CallerWrites(c, h)
      PROVE ToldIsDone'
  BY <1>3, <1>8 DEF VerifyAttestation, TrustCodeHash, CallerWrites, request
<1>9. CASE Dispose \/ Republish \/ Tick \/ UNCHANGED vars
  BY <1>3, <1>9 DEF Dispose, Republish, Tick, vars, request
<1> QED
  BY <1>4, <1>5, <1>6, <1>7, <1>8, <1>9 DEF Next

\* Every step keeps what is not sent unchecked.
LEMMA IdleStep == TypeOK /\ IdleIsUnchecked /\ [Next]_vars => IdleIsUnchecked'
<1> SUFFICES ASSUME TypeOK, IdleIsUnchecked, [Next]_vars PROVE IdleIsUnchecked'
  OBVIOUS
<1>1. ASSUME NEW r \in Requests, NEW k \in {"fetch", "invoke", "other"}, Post(r, k),
             \A q \in Requests \ {r} : checked'[q] = checked[q]
      PROVE IdleIsUnchecked'
  BY <1>1 DEF Post, IdleIsUnchecked, TypeOK
<1>2. ASSUME NEW r \in Requests,
             NEW what \in {"count", "-1", "exception", "answer"}, Tell(r, what)
      PROVE IdleIsUnchecked'
  BY <1>2 DEF Tell, IdleIsUnchecked, TypeOK
<1>3. ASSUME UNCHANGED <<pc, checked>> PROVE IdleIsUnchecked'
  BY <1>3 DEF IdleIsUnchecked
<1>4. ASSUME NEW r \in Requests, FetchSend(r) \/ OtherSend(r) \/ InvokeSend(r)
      PROVE IdleIsUnchecked'
  BY <1>1, <1>4 DEF FetchSend, OtherSend, InvokeSend
<1>5. ASSUME NEW r \in Requests, NEW a \in Attestations, InvokeAttested(r, a)
      PROVE IdleIsUnchecked'
  BY <1>1, <1>5 DEF InvokeAttested, TypeOK
<1>6. ASSUME NEW r \in Requests, NEW a \in Attestations, InvokeRejected(r, a)
      PROVE IdleIsUnchecked'
  BY <1>6 DEF InvokeRejected, IdleIsUnchecked, TypeOK
<1>7. ASSUME NEW r \in Requests,
             \/ FetchReturns(r) \/ FetchThrows(r) \/ FetchFails(r) \/ Returns(r)
             \/ InvokeTimeout(r)
      PROVE IdleIsUnchecked'
  BY <1>2, <1>7 DEF FetchReturns, FetchThrows, FetchFails, Returns, InvokeTimeout
<1>8. ASSUME NEW r \in Requests, Answer(r) \/ Break(r) PROVE IdleIsUnchecked'
  BY <1>3, <1>8 DEF Answer, Break
<1>9. ASSUME NEW c \in Caps,
             \/ VerifyAttestation(c) \/ \E h \in Hashes : TrustCodeHash(c, h)
             \/ \E h \in SomeHash : CallerWrites(c, h)
      PROVE IdleIsUnchecked'
  BY <1>3, <1>9 DEF VerifyAttestation, TrustCodeHash, CallerWrites, request
<1>10. CASE Dispose \/ Republish \/ Tick \/ UNCHANGED vars
  BY <1>3, <1>10 DEF Dispose, Republish, Tick, vars, request
<1> QED
  BY <1>4, <1>5, <1>6, <1>7, <1>8, <1>9, <1>10 DEF Next, Ends

\* The initial state: the constructor's hashes are in the map, the cache is
\* empty.
LEMMA TrustInit == Init => IInv
<1> SUFFICES ASSUME Init PROVE IInv
  OBVIOUS
<1>1. TypeOK
  <2>1. Nothing \in RegistryType
    BY DEF Nothing, RegistryType, SomeHash
  <2>2. Unchecked \in [cap : Caps \cup {NoCap}, hash : SomeHash]
    BY DEF Unchecked, SomeHash
  <2>3. Absent \in [hash : SomeHash, until : Nat]
    BY DEF Absent, SomeHash
  <2> QED
    <3>1. trusted \in [Caps -> SomeHash] /\ map \in Maps /\ registry \in Registries /\ now \in 0..MaxClock
      BY DEF Init
    <3>2. cache \in [Caps -> [hash : SomeHash, until : Nat]]
      BY <2>3 DEF Init
    <3>3. /\ got \in [Requests -> RegistryType]
          /\ checked \in [Requests -> [cap : Caps \cup {NoCap}, hash : SomeHash]]
      BY <2>1, <2>2 DEF Init
    <3> QED
      BY <3>1, <3>2, <3>3 DEF Init, TypeOK
<1>2. CacheAgreesWithMap
  BY DEF Init, CacheAgreesWithMap, Absent
<1>3. IdleIsUnchecked
  BY DEF Init, IdleIsUnchecked
<1>4. ToldIsDone
  BY DEF Init, ToldIsDone
<1> QED
  BY <1>1, <1>2, <1>3, <1>4 DEF IInv

\* Every variable has its type, and the cache agrees with the map, always.
THEOREM TrustInvariance == Spec => []IInv
<1>1. IInv /\ [Next]_vars => IInv'
  BY TypeStep, AgreementStep, IdleStep, ToldStep DEF IInv
<1> QED
  BY <1>1, TrustInit, PTL DEF Spec

\* The types alone.
THEOREM TrustTypes == Spec => []TypeOK
<1>1. IInv => TypeOK
  BY DEF IInv
<1> QED
  BY <1>1, TrustInvariance, PTL

\* The cache never holds another hash than the map behind it, unless others write that
\* or nobody can.
THEOREM CacheAgrees == Spec => []CacheAgreesWithMap
<1>1. IInv => CacheAgreesWithMap
  BY DEF IInv
<1> QED
  BY <1>1, TrustInvariance, PTL

\* An invoke with an attestation is sent only on the code hash the map has for the
\* capability, or, where the two have diverged, on the one the cache has.
THEOREM SentOnTrusted == Spec => SentOnTrustedCode
<1> DEFINE SentOn(r) ==
               LET c == checked'[r].cap IN
               \/ trusted[c] \in {NoHash, checked'[r].hash}
               \/ Diverged(c) /\ Fresh(c) /\ cache[c].hash = checked'[r].hash
           Sent == \A r \in Requests : Sends(r) /\ checked'[r] # Unchecked => SentOn(r)
<1>1. IInv /\ [Next]_vars => Sent
  <2> SUFFICES ASSUME IInv, [Next]_vars, NEW r \in Requests, Sends(r),
                      checked'[r] # Unchecked
               PROVE  SentOn(r)
    OBVIOUS
  <2>1. checked[r] = Unchecked
    BY DEF IInv, IdleIsUnchecked, Sends
  <2>2. ASSUME NEW q \in Requests, NEW a \in Attestations, InvokeAttested(q, a)
        PROVE  SentOn(r)
    <3>1. q = r /\ checked'[r] = [cap |-> a.cap, hash |-> a.hash]
      BY <2>1, <2>2 DEF InvokeAttested, IInv, TypeOK
    <3>2. a.cap \in Caps /\ a.hash \in Hashes
      BY DEF Attestations
    <3>3. \/ Expected(a.cap) = trusted[a.cap]
          \/ Diverged(a.cap) /\ Fresh(a.cap) /\ Expected(a.cap) = cache[a.cap].hash
      BY <3>2 DEF IInv, CacheAgreesWithMap, Expected, Fresh
    <3>4. Expected(a.cap) # NoHash => a.hash = Expected(a.cap)
      BY <2>2 DEF InvokeAttested, Valid
    <3>5. Fresh(a.cap) => cache[a.cap].hash # NoHash
      BY DEF Fresh
    <3> QED
      BY <3>1, <3>2, <3>3, <3>4, <3>5
  <2>3. checked'[r] # checked[r]
    BY <2>1
  <2>4. ~(pc'[r] = pc[r] \/ pc'[r] = "done")
    BY DEF Sends
  <2>5. ASSUME NEW q \in Requests, NEW what, Tell(q, what)
        PROVE  pc'[r] = pc[r] \/ pc'[r] = "done"
    BY <2>5 DEF Tell, IInv, TypeOK
  <2>6. ASSUME NEW q \in Requests, Ends(q)
        PROVE  FALSE
    BY <2>4, <2>5, <2>6 DEF Ends, FetchReturns, FetchThrows, FetchFails, Returns, InvokeTimeout
  <2>7. ASSUME NEW q \in Requests,
               \/ FetchSend(q) \/ OtherSend(q) \/ InvokeSend(q) \/ Answer(q) \/ Break(q)
               \/ \E a \in Attestations : InvokeRejected(q, a)
        PROVE  FALSE
    BY <2>3, <2>7 DEF FetchSend, OtherSend, InvokeSend, Answer, Break, InvokeRejected
  <2>8. ASSUME \/ Dispose \/ Republish \/ Tick \/ UNCHANGED vars
               \/ \E c \in Caps : \/ VerifyAttestation(c)
                                  \/ \E h \in Hashes : TrustCodeHash(c, h)
                                  \/ \E h \in SomeHash : CallerWrites(c, h)
        PROVE  FALSE
    BY <2>3, <2>8 DEF Dispose, Republish, Tick, vars, VerifyAttestation, TrustCodeHash,
                      CallerWrites, request
  <2> QED
    BY <2>2, <2>6, <2>7, <2>8 DEF Next
<1> QED
  BY <1>1, TrustInvariance, PTL DEF Spec, SentOnTrustedCode
=============================================================================
