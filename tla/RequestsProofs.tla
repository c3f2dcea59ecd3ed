----------------------------- MODULE RequestsProofs -----------------------------
(***************************************************************************)
(* For any number of runs, chunks and retries: when a run starts only      *)
(* after every request of the one before has landed or vanished, an index  *)
(* with a completion marker holds the chunks of the run that wrote it and  *)
(* no others, however its requests were retried, lost or late.             *)
(***************************************************************************)
EXTENDS Requests, TLAPS

LEMMA KeyFacts == MarkerKey \notin ChunkIds /\ ChunkIds \subseteq Int /\ MarkerKey \in Int
  BY BoundsAssumption DEF MarkerKey, ChunkIds

\* What a request that fits the run does at the store.
LEMMA EffectFits ==
  ASSUME RequestsTypeOK, SentFits, NEW r \in Sent, Effect(r), current # 0
  PROVE  /\ chunks' \in [ChunkIds -> 0 .. MaxCrawls]
         /\ mark' \in 0 .. current
         /\ r.key = MarkerKey => chunks' = chunks /\ mark' = IF r.op = "put" THEN current ELSE 0
         /\ r.key # MarkerKey =>
              /\ mark' = mark
              /\ r.key \in ChunkIds
              /\ \A i \in ChunkIds : chunks'[i] = IF i # r.key THEN chunks[i] ELSE IF i < size[current] THEN current ELSE 0
<1>1. r \in Request /\ r.run = current /\ current \in 1 .. MaxCrawls
  BY DEF RequestsTypeOK, SentFits, Sent
<1>2. r.key \in ChunkIds \cup {MarkerKey} /\ r.op \in {"put", "delete"}
  BY <1>1 DEF Request
<1>3. CASE r.key = MarkerKey
  <2>1. chunks' = chunks /\ mark' = IF r.op = "put" THEN current ELSE 0
    BY <1>1, <1>3 DEF Effect
  <2>2. QED
    BY <1>1, <1>3, <2>1, BoundsAssumption DEF RequestsTypeOK
<1>4. CASE r.key # MarkerKey
  <2>1. r.op = "put" <=> r.key < size[current]
    BY <1>4 DEF SentFits
  <2>2. mark' = mark /\ chunks' = [chunks EXCEPT ![r.key] = IF r.op = "put" THEN current ELSE 0]
    BY <1>1, <1>4 DEF Effect
  <2>3. QED
    BY <1>1, <1>2, <1>4, <2>1, <2>2, BoundsAssumption DEF RequestsTypeOK
<1>5. QED
  BY <1>3, <1>4

\* A store that is the run's stays so.
LEMMA KeepsWhole ==
  ASSUME RequestsTypeOK, SentFits, NEW r \in Sent, Effect(r), current # 0, Whole(current)
  PROVE  \A i \in ChunkIds : chunks'[i] = IF i < size[current] THEN current ELSE 0
<1>1. CASE r.key = MarkerKey
  BY <1>1, EffectFits DEF Whole
<1>2. CASE r.key # MarkerKey
  BY <1>2, EffectFits DEF Whole
<1>3. QED
  BY <1>1, <1>2

LEMMA InitInv == RequestsInit => RequestsInv
<1> SUFFICES ASSUME RequestsInit PROVE RequestsInv
  OBVIOUS
<1>1. RequestsTypeOK
  BY BoundsAssumption DEF RequestsInit, RequestsTypeOK, Ended, Asking, None, ChunkIds
<1>2. SentFits /\ WaitingFits /\ Progress /\ OldMarker /\ (mark # 0 => Whole(mark))
  BY DEF RequestsInit, SentFits, WaitingFits, Progress, OldMarker, Sent, None
<1>3. QED
  BY <1>1, <1>2 DEF RequestsInv

LEMMA StartInv ==
  ASSUME Settled, RequestsInv, NEW n \in 0 .. MaxChunks, Start(n)
  PROVE  RequestsInv'
<1> USE DEF RequestsInv, Start, store
<1>1. current' = current + 1 /\ current' \in 1 .. MaxCrawls /\ waiting' = {} /\ loose' = {} /\ asks' = "clear"
  BY BoundsAssumption DEF RequestsTypeOK, None
<1>2. RequestsTypeOK'
  BY <1>1, BoundsAssumption DEF RequestsTypeOK, Asking, Ended
<1>3. SentFits' /\ WaitingFits' /\ Progress' /\ OldMarker'
  BY <1>1 DEF SentFits, WaitingFits, Progress, OldMarker, Sent
<1>4. (mark # 0 => Whole(mark))'
  <2> SUFFICES ASSUME mark # 0 PROVE Whole(mark)'
    OBVIOUS
  <2>1. mark \in 1 .. MaxCrawls /\ mark # current + 1
    BY BoundsAssumption DEF RequestsTypeOK
  <2>2. size'[mark] = size[mark] /\ chunks' = chunks /\ mark' = mark
    BY <2>1 DEF RequestsTypeOK
  <2>3. QED
    BY <2>2 DEF Whole
<1>5. QED
  BY <1>2, <1>3, <1>4

LEMMA SendInv == ASSUME RequestsInv, Send PROVE RequestsInv'
<1> USE DEF RequestsInv
<1>1. PICK key \in Asked : waiting' = {Attempt(key)}
  BY DEF Send
<1>2. /\ asks \in Asking /\ current \in 1 .. MaxCrawls
      /\ UNCHANGED <<chunks, mark, current, size, asks, next, stale, try, loose>>
  BY DEF Send, store, client, RequestsTypeOK, Asking
<1> DEFINE r == Attempt(key)
<1>3. /\ r.op = IF asks \in {"clear", "prune"} THEN "delete" ELSE "put"
      /\ r.key = key /\ r.run = current /\ r.try = try
  BY DEF Attempt
<1>4. /\ asks \in {"clear", "marker"} => key = MarkerKey
      /\ asks = "put" => key = next /\ next < size[current] /\ key \in ChunkIds
      /\ asks = "prune" => key \in stale /\ key \in ChunkIds
  <2>1. asks = "put" => next < size[current] /\ size[current] \in 0 .. MaxChunks /\ next \in 0 .. MaxChunks
    BY <1>2 DEF Progress, RequestsTypeOK
  <2>2. QED
    BY <1>1, <2>1, BoundsAssumption DEF Asked, RequestsTypeOK, ChunkIds
<1>5. r \in Request
  BY <1>2, <1>4 DEF Attempt, Request, RequestsTypeOK, Asking
<1>6. RequestsTypeOK'
  BY <1>1, <1>2, <1>5 DEF RequestsTypeOK
<1>7. WaitingFits'
  BY <1>1, <1>2, <1>3, <1>4 DEF WaitingFits
<1>8. /\ r.key # MarkerKey => (r.op = "put" <=> r.key < size[current])
      /\ r.key = MarkerKey /\ r.op = "put" => Whole(current)
  <2>1. CASE asks = "clear"
    BY <2>1, <1>3, <1>4
  <2>2. CASE asks = "put"
    BY <2>2, <1>3, <1>4, KeyFacts
  <2>3. CASE asks = "prune"
    <3>1. key \in stale /\ key \in ChunkIds /\ size[current] \in 0 .. MaxChunks
      BY <1>2, <1>4, <2>3 DEF RequestsTypeOK
    <3>2. key >= size[current]
      BY <2>3, <3>1 DEF Progress
    <3>3. ~(key < size[current])
      BY <3>1, <3>2, KeyFacts, BoundsAssumption
    <3>4. QED
      BY <1>3, <2>3, <3>1, <3>3, KeyFacts
  <2>4. CASE asks = "marker"
    BY <2>4, <1>3, <1>4 DEF Progress
  <2>5. QED
    BY <1>2, <2>1, <2>2, <2>3, <2>4 DEF Asking
<1>9. SentFits'
  BY <1>1, <1>2, <1>3, <1>8 DEF SentFits, Sent, Whole
<1>10. Progress' /\ (mark # 0 => Whole(mark))'
  BY <1>2 DEF Progress, Whole
<1>11. OldMarker'
  BY <1>1, <1>2, <1>3, <1>4 DEF OldMarker, Sent, Asking
<1>12. QED
  BY <1>6, <1>7, <1>9, <1>10, <1>11

\* The next chunk is there, or the next step begins.
LEMMA AnswerInv == ASSUME RequestsInv, Answer PROVE RequestsInv'
<1> USE DEF RequestsInv
<1>1. PICK r \in waiting : Effect(r) /\ Advance(r.key)
  BY DEF Answer
<1>2. /\ r \in Sent /\ r \in Request /\ asks \in Asking /\ current \in 1 .. MaxCrawls
      /\ r.op = IF asks \in {"clear", "prune"} THEN "delete" ELSE "put"
      /\ asks \in {"clear", "marker"} => r.key = MarkerKey
      /\ asks = "put" => r.key = next
      /\ asks = "prune" => r.key \in stale
  BY DEF WaitingFits, RequestsTypeOK, Sent, Asking
<1>3. UNCHANGED <<current, size, loose>> /\ waiting' = {} /\ try' = 0
  BY DEF Answer, None
<1>4. /\ chunks' \in [ChunkIds -> 0 .. MaxCrawls]
      /\ mark' \in 0 .. current
      /\ r.key = MarkerKey => chunks' = chunks /\ mark' = IF r.op = "put" THEN current ELSE 0
      /\ r.key # MarkerKey =>
           /\ mark' = mark
           /\ r.key \in ChunkIds
           /\ \A i \in ChunkIds : chunks'[i] = IF i # r.key THEN chunks[i] ELSE IF i < size[current] THEN current ELSE 0
  BY <1>1, <1>2, EffectFits
<1>5. Whole(current) => \A i \in ChunkIds : chunks'[i] = IF i < size[current] THEN current ELSE 0
  BY <1>1, <1>2, KeepsWhole
<1>6. size[current] \in 0 .. MaxChunks /\ next \in 0 .. MaxChunks /\ stale \subseteq ChunkIds
  BY <1>2 DEF RequestsTypeOK
<1>7. /\ next' = IF asks = "put" THEN next + 1 ELSE next
      /\ stale' = IF asks = "prune" THEN stale \ {r.key} ELSE stale
      /\ asks = "clear"  => asks' = IF size[current] = 0 THEN "list" ELSE "put"
      /\ asks = "put"    => asks' = IF next + 1 = size[current] THEN "list" ELSE "put"
      /\ asks = "prune"  => asks' = IF stale' = {} THEN "marker" ELSE "prune"
      /\ asks = "marker" => asks' = "done"
  BY <1>1 DEF Advance
<1>p. asks = "put" => /\ next < size[current]
                     /\ \A i \in ChunkIds : i < next + 1 => chunks'[i] = current
  <2> SUFFICES ASSUME asks = "put" PROVE next < size[current] /\ \A i \in ChunkIds : i < next + 1 => chunks'[i] = current
    OBVIOUS
  <2>1. next < size[current] /\ r.key = next /\ \A i \in ChunkIds : i < next => chunks[i] = current
    BY <1>2 DEF Progress
  <2>2. next # MarkerKey
    BY <1>6, BoundsAssumption DEF MarkerKey
  <2>3. \A i \in ChunkIds : chunks'[i] = IF i # next THEN chunks[i] ELSE IF i < size[current] THEN current ELSE 0
    BY <1>4, <2>1, <2>2
  <2>4. ASSUME NEW i \in ChunkIds, i < next + 1 PROVE chunks'[i] = current
    <3>1. i \in Int /\ next \in Int
      BY <1>6, KeyFacts, BoundsAssumption
    <3>2. CASE i = next
      BY <2>1, <2>3, <3>2
    <3>3. CASE i < next
      BY <2>1, <2>3, <3>1, <3>3
    <3>4. QED
      BY <2>4, <3>1, <3>2, <3>3
  <2>5. QED
    BY <2>1, <2>4
<1>8. RequestsTypeOK'
  <2>1. next' \in 0 .. MaxChunks
    BY <1>6, <1>7, BoundsAssumption DEF Progress
  <2>2. stale' \subseteq ChunkIds /\ asks' \in Ended \cup Asking \cup {"list"}
    BY <1>2, <1>6, <1>7 DEF Asking, Ended
  <2>3. QED
    BY <1>2, <1>3, <1>4, <2>1, <2>2, BoundsAssumption DEF RequestsTypeOK
<1>9. SentFits'
  BY <1>3, <1>5 DEF SentFits, Sent, Whole
<1>10. WaitingFits'
  BY <1>3 DEF WaitingFits
<1>11. (asks = "clear" => next = 0)'
  BY <1>2, <1>7 DEF Asking
<1>12. (asks = "put" => next < size[current] /\ \A i \in ChunkIds : i < next => chunks[i] = current)'
  <2>1. CASE asks = "clear"
    BY <2>1, <1>3, <1>6, <1>7, BoundsAssumption, KeyFacts DEF Progress, ChunkIds
  <2>2. CASE asks = "put"
    <3>1. next \in Int /\ size[current] \in Int /\ next' = next + 1 /\ UNCHANGED <<current, size>>
      BY <2>2, <1>3, <1>6, <1>7, BoundsAssumption
    <3>2. asks' = "put" => next + 1 < size[current]
      BY <2>2, <3>1, <1>p, <1>7
    <3>3. QED
      BY <2>2, <3>1, <3>2, <1>p
  <2>3. QED
    BY <2>1, <2>2, <1>2, <1>7 DEF Asking
<1>13. (asks \in {"list", "prune"} => \A i \in ChunkIds : i < size[current] => chunks[i] = current)'
  <2>1. CASE asks = "clear"
    BY <2>1, <1>3, <1>6, <1>7, BoundsAssumption DEF ChunkIds
  <2>2. CASE asks = "put"
    <3>1. asks' \in {"list", "prune"} => size[current] = next + 1
      BY <2>2, <1>7
    <3>2. QED
      BY <2>2, <3>1, <1>3, <1>p
  <2>3. CASE asks = "prune"
    BY <2>3, <1>2, <1>3, <1>4, <1>6, <1>7, BoundsAssumption, KeyFacts DEF Progress, ChunkIds
  <2>4. QED
    BY <2>1, <2>2, <2>3, <1>2, <1>7 DEF Asking
<1>14. (asks = "prune" =>
          /\ stale # {} /\ \A i \in stale : i >= size[current]
          /\ \A i \in ChunkIds : i >= size[current] /\ chunks[i] # 0 => i \in stale)'
  <2>1. CASE asks = "prune"
    <3>1. r.key \in ChunkIds /\ r.key >= size[current]
      BY <2>1, <1>2, <1>6 DEF Progress
    <3>2. chunks'[r.key] = 0
      BY <3>1, <1>4, <1>6, KeyFacts, BoundsAssumption DEF ChunkIds
    <3>3. QED
      BY <2>1, <3>1, <3>2, <1>3, <1>4, <1>7, KeyFacts DEF Progress
  <2>2. QED
    BY <2>1, <1>2, <1>7 DEF Asking
<1>15. (asks \in {"marker", "done"} => Whole(current))'
  <2>1. CASE asks = "prune"
    <3>1. r.key \in ChunkIds /\ r.key >= size[current]
      BY <2>1, <1>2, <1>6 DEF Progress
    <3>2. chunks'[r.key] = 0
      BY <3>1, <1>4, <1>6, KeyFacts, BoundsAssumption DEF ChunkIds
    <3>3. ASSUME asks' = "marker", NEW i \in ChunkIds
          PROVE  chunks'[i] = IF i < size[current] THEN current ELSE 0
      <4>1. stale \subseteq {r.key}
        BY <3>3, <2>1, <1>7
      <4>2. CASE i = r.key
        BY <4>2, <3>1, <3>2, <1>6, KeyFacts, BoundsAssumption DEF ChunkIds
      <4>3. CASE i # r.key
        <5>1. chunks'[i] = chunks[i]
          BY <4>3, <3>1, <1>4, KeyFacts
        <5>2. i >= size[current] => chunks[i] = 0
          BY <4>1, <4>3, <2>1 DEF Progress
        <5>3. i < size[current] => chunks[i] = current
          BY <2>1 DEF Progress
        <5>4. QED
          BY <5>1, <5>2, <5>3, <1>6, BoundsAssumption DEF ChunkIds
      <4>4. QED
        BY <4>2, <4>3
    <3>4. asks' \in {"marker", "prune"}
      BY <2>1, <1>7
    <3>5. QED
      BY <3>3, <3>4, <1>3 DEF Whole
  <2>2. CASE asks = "marker"
    BY <2>2, <1>3, <1>5 DEF Progress, Whole
  <2>3. QED
    BY <2>1, <2>2, <1>2, <1>7 DEF Asking
<1>16. Progress'
  BY <1>11, <1>12, <1>13, <1>14, <1>15 DEF Progress
<1>17. mark' \in {0, current} /\ (mark' = current => (asks \in {"put", "prune"} /\ mark = current) \/ asks = "marker")
  <2>1. CASE asks \in {"clear", "marker"}
    BY <2>1, <1>2, <1>4
  <2>2. CASE asks \in {"put", "prune"}
    BY <2>2, <1>2, <1>4, <1>6, KeyFacts, BoundsAssumption DEF OldMarker, Progress, ChunkIds
  <2>3. QED
    BY <2>1, <2>2, <1>2 DEF Asking
<1>18. OldMarker'
  BY <1>3, <1>17 DEF OldMarker
<1>19. (mark # 0 => Whole(mark))'
  BY <1>2, <1>3, <1>5, <1>17 DEF Progress, Whole
<1>20. QED
  BY <1>8, <1>9, <1>10, <1>16, <1>18, <1>19

LEMMA ListInv == ASSUME RequestsInv, List PROVE RequestsInv'
<1> USE DEF RequestsInv, List, store
<1>1. /\ UNCHANGED <<chunks, mark, current, size, next, waiting, try, loose>>
      /\ stale' = {i \in ChunkIds : i >= size[current] /\ chunks[i] # 0}
      /\ asks' = IF stale' = {} THEN "marker" ELSE "prune"
      /\ asks = "list" /\ waiting = {}
  BY DEF WaitingFits, Asking
<1>2. RequestsTypeOK'
  BY <1>1 DEF RequestsTypeOK, Asking, Ended
<1>3. SentFits' /\ WaitingFits' /\ (mark # 0 => Whole(mark))'
  BY <1>1 DEF SentFits, WaitingFits, Sent, Whole
<1>4. Progress'
  <2>1. size[current] \in Int /\ \A i \in ChunkIds : i < size[current] => chunks[i] = current
    BY <1>1, BoundsAssumption DEF Progress, RequestsTypeOK
  <2>2. stale' = {} => Whole(current)
    BY <1>1, <2>1, KeyFacts DEF Whole
  <2>3. QED
    BY <1>1, <2>1, <2>2 DEF Progress, Whole
<1>5. OldMarker'
  BY <1>1 DEF OldMarker, Sent
<1>6. QED
  BY <1>2, <1>3, <1>4, <1>5

\* An attempt goes from the one that is waited for to the loose ones, or away, and the
\* run goes on with the same request or fails.
LEMMA GiveUpInv ==
  ASSUME RequestsInv, UNCHANGED <<chunks, mark, current, size, next, stale>>,
         waiting' = {}, loose' \subseteq Sent, try' \in 0 .. MaxRetries, asks' \in {asks, "failed"},
         asks # "idle"
  PROVE  RequestsInv'
<1> USE DEF RequestsInv
<1>1. RequestsTypeOK'
  BY DEF RequestsTypeOK, Sent, Ended
<1>2. SentFits' /\ WaitingFits' /\ OldMarker' /\ (mark # 0 => Whole(mark))'
  BY DEF SentFits, WaitingFits, OldMarker, Sent, Whole
<1>3. Progress'
  BY DEF Progress, Whole
<1>4. QED
  BY <1>1, <1>2, <1>3

LEMMA VanishInv == ASSUME RequestsInv, NEW r \in loose, Vanish(r) PROVE RequestsInv'
<1> USE DEF RequestsInv
<1>1. UNCHANGED <<chunks, mark, current, size, asks, next, stale, waiting, try>> /\ loose' \subseteq loose
  BY DEF Vanish, store, client
<1>2. RequestsTypeOK' /\ WaitingFits'
  BY <1>1 DEF RequestsTypeOK, WaitingFits
<1>3. SentFits' /\ OldMarker' /\ Progress' /\ (mark # 0 => Whole(mark))'
  BY <1>1 DEF SentFits, OldMarker, Sent, Progress, Whole
<1>4. QED
  BY <1>2, <1>3

\* A late attempt does what the run did or will do, or what it did before.
LEMMA LandInv == ASSUME RequestsInv, NEW r \in loose, Land(r) PROVE RequestsInv'
<1> USE DEF RequestsInv
<1>1. /\ Effect(r) /\ r \in Sent
      /\ UNCHANGED <<current, size, asks, next, stale, waiting, try>> /\ loose' \subseteq loose
  BY DEF Land, client, Sent
<1>2. current \in 1 .. MaxCrawls
  <2>1. r.run \in 1 .. MaxCrawls /\ r.run = current
    BY <1>1 DEF RequestsTypeOK, Request, SentFits
  <2>2. QED
    BY <2>1
<1>3. /\ chunks' \in [ChunkIds -> 0 .. MaxCrawls]
      /\ mark' \in 0 .. current
      /\ r.key = MarkerKey => chunks' = chunks /\ mark' = IF r.op = "put" THEN current ELSE 0
      /\ r.key # MarkerKey =>
           /\ mark' = mark
           /\ r.key \in ChunkIds
           /\ \A i \in ChunkIds : chunks'[i] = IF i # r.key THEN chunks[i] ELSE IF i < size[current] THEN current ELSE 0
  BY <1>1, <1>2, EffectFits
<1>4. Whole(current) => \A i \in ChunkIds : chunks'[i] = IF i < size[current] THEN current ELSE 0
  BY <1>1, <1>2, KeepsWhole
<1>5. \A i \in ChunkIds : \/ chunks'[i] = chunks[i]
                          \/ i < size[current] /\ chunks'[i] = current
                          \/ ~(i < size[current]) /\ chunks'[i] = 0
  BY <1>3
<1>6. size[current] \in Int
  BY <1>2, BoundsAssumption DEF RequestsTypeOK
<1>7. RequestsTypeOK'
  BY <1>1, <1>3 DEF RequestsTypeOK
<1>8. SentFits'
  BY <1>1, <1>4 DEF SentFits, Sent, Whole
<1>9. WaitingFits'
  BY <1>1 DEF WaitingFits
<1>10. Progress'
  <2>1. (asks \in {"marker", "done"} => Whole(current))'
    BY <1>1, <1>4 DEF Progress, Whole
  <2>2. (asks = "put" => next < size[current] /\ \A i \in ChunkIds : i < next => chunks[i] = current)'
    <3> SUFFICES ASSUME asks = "put", NEW i \in ChunkIds, i < next PROVE chunks'[i] = current
      BY <1>1 DEF Progress
    <3>1. chunks[i] = current /\ next < size[current]
      BY DEF Progress
    <3>2. i < size[current]
      BY <3>1, <1>6, KeyFacts, BoundsAssumption DEF RequestsTypeOK
    <3>3. QED
      BY <3>1, <3>2, <1>5
  <2>3. (asks \in {"list", "prune"} => \A i \in ChunkIds : i < size[current] => chunks[i] = current)'
    BY <1>1, <1>5 DEF Progress
  <2>4. (asks = "prune" =>
           /\ stale # {} /\ \A i \in stale : i >= size[current]
           /\ \A i \in ChunkIds : i >= size[current] /\ chunks[i] # 0 => i \in stale)'
    BY <1>1, <1>5, <1>6, KeyFacts DEF Progress
  <2>5. QED
    BY <1>1, <2>1, <2>2, <2>3, <2>4 DEF Progress
<1>11. OldMarker'
  <2>1. mark' \notin {0, current} => mark' = mark /\ r.key # MarkerKey
    BY <1>3
  <2>2. mark' \in {0, current}
    BY <1>1, <2>1 DEF OldMarker
  <2>3. QED
    BY <1>1, <2>2 DEF OldMarker
<1>12. (mark # 0 => Whole(mark))'
  <2>1. mark' \in {0, current}
    BY <1>1, <1>3 DEF OldMarker
  <2>2. mark' = current => Whole(current)
    BY <1>1, <1>2, <1>3 DEF SentFits
  <2>3. QED
    BY <1>1, <1>2, <1>4, <2>1, <2>2 DEF Whole
<1>13. QED
  BY <1>7, <1>8, <1>9, <1>10, <1>11, <1>12

LEMMA StepInv == ASSUME Settled, RequestsInv, [RequestsNext]_requestVars PROVE RequestsInv'
<1>1. ASSUME NEW n \in 0 .. MaxChunks, Start(n) PROVE RequestsInv'
  BY <1>1, StartInv
<1>2. CASE Send
  BY <1>2, SendInv
<1>3. CASE Answer
  BY <1>3, AnswerInv
<1>4. CASE List
  BY <1>4, ListInv
<1>5. waiting # {} => asks \notin {"idle"}
  BY DEF RequestsInv, WaitingFits, Asking
<1>6. CASE GiveUp
  <2>1. try' \in 0 .. MaxRetries /\ asks' \in {asks, "failed"} /\ loose' \subseteq Sent /\ waiting' = {}
    BY <1>6, BoundsAssumption DEF GiveUp, RequestsInv, RequestsTypeOK, Sent, None
  <2>2. QED
    BY <1>5, <1>6, <2>1, GiveUpInv DEF GiveUp, store, None
<1>7. CASE Refuse
  BY <1>5, <1>7, GiveUpInv DEF Refuse, store, None, Sent, RequestsInv, RequestsTypeOK
<1>8. CASE Die
  BY <1>8, GiveUpInv DEF Die, store, None, Sent, RequestsInv, RequestsTypeOK, Ended
<1>9. ASSUME NEW r \in loose, Land(r) \/ Vanish(r) PROVE RequestsInv'
  BY <1>9, LandInv, VanishInv
<1>10. CASE UNCHANGED requestVars
  BY <1>10 DEF requestVars, RequestsInv, RequestsTypeOK, SentFits, WaitingFits, Progress, OldMarker, Sent, Whole
<1>11. QED
  BY <1>1, <1>2, <1>3, <1>4, <1>6, <1>7, <1>8, <1>9, <1>10 DEF RequestsNext, Run

\* When no request of an earlier run is under way at a run's start, the parts of the
\* invariant hold together.
THEOREM SettledInvariant == Settled => (RequestsSpec => []RequestsInv)
<1> SUFFICES ASSUME Settled PROVE RequestsSpec => []RequestsInv
  OBVIOUS
<1>1. RequestsInit => RequestsInv
  BY InitInv
<1>2. RequestsInv /\ [RequestsNext]_requestVars => RequestsInv'
  BY StepInv
<1>3. QED
  BY <1>1, <1>2, PTL DEF RequestsSpec

\* "until the marker is written, no reader accepts the index at all", and when it is,
\* the index is whole: for every number of runs, chunks and retries, as long as no
\* request outlives its run into the next.
THEOREM MarkedIsWhole == Settled => (RequestsSpec => []WholeWhenMarked)
<1> SUFFICES ASSUME Settled PROVE RequestsSpec => []WholeWhenMarked
  OBVIOUS
<1>1. RequestsSpec => []RequestsInv
  BY SettledInvariant
<1>2. RequestsInv => WholeWhenMarked
  BY DEF RequestsInv, WholeWhenMarked
<1>3. QED
  BY <1>1, <1>2, PTL
===============================================================================
