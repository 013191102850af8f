--------------------------- MODULE TelemetryProofs ---------------------------
(***************************************************************************)
(* What the server keeps of the positions of a phone is in order, the      *)
(* fence follows from it, and so do the alarms, for every number of        *)
(* samples, engines and moments.                                           *)
(***************************************************************************)
EXTENDS Telemetry, WellFoundedInduction, TLAPS

(* Some of the naturals are less than others.                              *)
Less == {p \in Nat \X Nat : p[1] < p[2]}

(* Of some naturals one is the least.                                      *)
LEMMA OneIsLeast ==
  ASSUME NEW S \in SUBSET Nat, S # {}
  PROVE  \E x \in S : \A y \in S : x <= y
<1>1. Less = OpToRel(<, Nat)
  BY DEF Less, OpToRel
<1>2. IsWellFoundedOn(Less, Nat)
  BY <1>1, NatLessThanWellFounded, Zenon
<1>3. PICK x \in S : \A y \in S : ~(<<y, x>> \in Less)
  BY <1>2, WFMin, Zenon
<1>4. ASSUME NEW y \in S PROVE x <= y
  <2>1. x \in Nat /\ y \in Nat /\ ~(<<y, x>> \in Less)
    BY <1>3
  <2>2. ~(y < x)
    BY <2>1 DEF Less
  <2> QED BY <2>1, <2>2
<1> QED BY <1>4

(* Of some naturals up to a bound one is the greatest: the least bound.    *)
LEMMA MaxIsGreatest ==
  ASSUME NEW b \in Nat, NEW S \in SUBSET (0..b), S # {}
  PROVE  Max(S) \in S /\ \A x \in S : x <= Max(S)
<1>1. PICK T : T = {n \in Nat : \A x \in S : x <= n}
  OBVIOUS
<1>2. T \subseteq Nat /\ b \in T
  BY <1>1
<1>3. PICK n \in T : \A m \in T : n <= m
  BY <1>2, OneIsLeast
<1>4. n \in S
  <2>1. SUFFICES ASSUME n \notin S PROVE FALSE
    OBVIOUS
  <2>2. PICK y \in S : TRUE
    OBVIOUS
  <2>3. n \in Nat /\ \A x \in S : x \in Nat /\ x <= n /\ x # n
    BY <1>1, <2>1
  <2>4. n - 1 \in T
    <3>1. n - 1 \in Nat
      BY <2>2, <2>3
    <3>2. \A x \in S : x <= n - 1
      BY <2>3
    <3> QED BY <1>1, <3>1, <3>2
  <2> QED BY <1>3, <2>3, <2>4
<1>5. \A x \in S : x <= n /\ n >= x
  BY <1>1
<1>6. \E x \in S : \A y \in S : x >= y
  BY <1>4, <1>5
<1>7. Max(S) \in S /\ \A y \in S : Max(S) >= y
  BY <1>6 DEF Max
<1> QED BY <1>7
-----------------------------------------------------------------------------
(* Where a batch starts, and what becomes of it with a number.             *)
Before == [session |-> session, trace |-> trace, crossings |-> crossings, moved |-> FALSE]

Through(batch, acc, n) ==
  IF n \in {s.sequence : s \in batch}
  THEN processSample(acc, CHOOSE s \in batch : s.sequence = n)
  ELSE acc

IsRun(batch, f, m) ==
  f = [n \in 0..m |-> IF n = 0 THEN Before ELSE Through(batch, f[n - 1], n)]

(* The way through a batch is defined, to whatever number.                 *)
LEMMA RunExists ==
  ASSUME NEW batch, NEW m \in Nat
  PROVE  \E f : IsRun(batch, f, m)
<1>1. PICK S : S = {n \in Nat : ~\E f : IsRun(batch, f, n)}
  OBVIOUS
<1>2. SUFFICES ASSUME S # {} PROVE FALSE
  BY <1>1
<1>3. PICK n \in S : \A k \in S : n <= k
  BY <1>1, <1>2, OneIsLeast
<1>4. n \in Nat /\ ~\E f : IsRun(batch, f, n)
  BY <1>1
<1>5. n # 0
  <2>1. SUFFICES ASSUME n = 0 PROVE FALSE
    OBVIOUS
  <2>2. PICK f : f = [k \in 0..0 |-> Before]
    OBVIOUS
  <2>3. IsRun(batch, f, 0)
    BY <2>2 DEF IsRun
  <2> QED BY <1>4, <2>1, <2>3
<1>6. n - 1 \in Nat /\ n - 1 \notin S
  BY <1>3, <1>4, <1>5
<1>7. PICK f : IsRun(batch, f, n - 1)
  BY <1>1, <1>6
<1>8. PICK g : g = [k \in 0..n |-> IF k = n THEN Through(batch, f[n - 1], n) ELSE f[k]]
  OBVIOUS
<1>9. IsRun(batch, g, n)
  <2>1. \A k \in 0..n : g[k] = IF k = 0 THEN Before ELSE Through(batch, g[k - 1], k)
    <3>1. TAKE k \in 0..n
    <3>2. CASE k = n
      BY <1>4, <1>5, <1>8, <3>2
    <3>3. CASE k # n
      <4>1. k \in 0..(n - 1) /\ (k # 0 => k - 1 \in 0..(n - 1) /\ k - 1 \in 0..n /\ k - 1 # n)
        BY <1>4, <3>3
      <4>2. f[k] = IF k = 0 THEN Before ELSE Through(batch, f[k - 1], k)
        BY <1>7, <4>1 DEF IsRun
      <4> QED BY <1>8, <3>3, <4>1, <4>2
    <3> QED BY <3>2, <3>3
  <2>2. g = [k \in 0..n |-> g[k]]
    BY <1>8
  <2> QED BY <2>1, <2>2 DEF IsRun
<1> QED BY <1>4, <1>9

(* The outcome of a batch is the end of the way through it.                *)
LEMMA BatchIsRun ==
  ASSUME NEW batch, NEW m \in Nat, m = Max({s.sequence : s \in batch})
  PROVE  \E f : IsRun(batch, f, m) /\ processBatch(batch) = f[m]
<1>1. PICK f : f = CHOOSE g : IsRun(batch, g, m)
  OBVIOUS
<1>2. IsRun(batch, f, m)
  BY <1>1, RunExists
<1>3. processBatch(batch) = f[m]
  BY <1>1 DEF processBatch, IsRun, Before, Through
<1> QED BY <1>2, <1>3
-----------------------------------------------------------------------------
(* What a fix may tell, and what the fence may be.                         *)
Conclusive == {"INSIDE", "OUTSIDE"}
Observations == Conclusive \cup {"BOUNDARY", "INSUFFICIENT_ACCURACY"}

Fences == [current : Conclusive \cup {"UNKNOWN"}, candidate : Conclusive \cup {"NONE"},
           count : 0..(DebounceSamples - 1)]

(* A full row of equal conclusive observations ends at i.                  *)
IsRow(seen, i) ==
  /\ i >= DebounceSamples /\ seen[i] \in Conclusive
  /\ \A k \in (i - DebounceSamples + 1)..i : seen[k] = seen[i]

(* The candidate and its count are the last observations, as far as they   *)
(* are equal: no more than those, no less.                                 *)
CandidateInv(fence, seen, n) ==
  /\ fence \in Fences
  /\ fence.candidate = "NONE" =>
       n = 0 \/ seen[n] \notin Conclusive \/ seen[n] = fence.current
  /\ fence.candidate # "NONE" =>
       /\ fence.count \in 1..n
       /\ \A k \in (n - fence.count + 1)..n : seen[k] = fence.candidate
       /\ fence.count = n \/ seen[n - fence.count] # fence.candidate

(* The fence is at the side of the last full row.                          *)
LastRowInv(current, seen, n) ==
  \/ current = "UNKNOWN" /\ \A i \in 1..n : ~IsRow(seen, i)
  \/ \E i \in 1..n : /\ IsRow(seen, i) /\ current = seen[i]
                     /\ \A j \in (i + 1)..n : ~IsRow(seen, j)

(* Debouncing keeps both.                                                  *)
LEMMA DebounceKeeps ==
  ASSUME NEW n \in Nat, NEW seen, NEW next, NEW fence, NEW o \in Observations,
         CandidateInv(fence, seen, n), LastRowInv(fence.current, seen, n),
         \A i \in 1..n : next[i] = seen[i], next[n + 1] = o
  PROVE  /\ CandidateInv(applyDebounce(fence, o), next, n + 1)
         /\ LastRowInv(applyDebounce(fence, o).current, next, n + 1)
<1> DEFINE count == IF fence.candidate = o THEN fence.count + 1 ELSE 1
           D == DebounceSamples
<1>1. fence \in Fences /\ D \in Nat \ {0}
  BY GeofenceAssumption DEF CandidateInv
<1> 0 \in 0..(D - 1)
  BY <1>1
<1>2. \A i \in 1..n : IsRow(next, i) <=> IsRow(seen, i)
  <2>1. TAKE i \in 1..n
  <2>2. \A k \in (i - D + 1)..i : i >= D => k \in 1..n
    BY <1>1
  <2> QED BY <2>1, <2>2 DEF IsRow
(* The fence stays where there is no row, or one of the same side.         *)
<1>3. ASSUME IsRow(next, n + 1) => o = fence.current
      PROVE  LastRowInv(fence.current, next, n + 1)
  <2>1. CASE IsRow(next, n + 1)
    <3>1. n + 1 \in 1..(n + 1) /\ \A j \in (n + 1 + 1)..(n + 1) : FALSE
      OBVIOUS
    <3> QED BY <1>3, <2>1, <3>1 DEF LastRowInv
  <2>2. CASE ~IsRow(next, n + 1)
    <3>1. \A i \in 1..(n + 1) : i \in 1..n \/ i = n + 1
      OBVIOUS
    <3>2. CASE fence.current = "UNKNOWN" /\ \A i \in 1..n : ~IsRow(seen, i)
      BY <1>2, <2>2, <3>1, <3>2 DEF LastRowInv
    <3>3. CASE \E i \in 1..n : /\ IsRow(seen, i) /\ fence.current = seen[i]
                               /\ \A j \in (i + 1)..n : ~IsRow(seen, j)
      <4>1. PICK i \in 1..n : /\ IsRow(seen, i) /\ fence.current = seen[i]
                              /\ \A j \in (i + 1)..n : ~IsRow(seen, j)
        BY <3>3
      <4>2. IsRow(next, i) /\ fence.current = next[i] /\ i \in 1..(n + 1)
        BY <1>2, <4>1
      <4>3. \A j \in (i + 1)..(n + 1) : j \in (i + 1)..n \cap 1..n \/ j = n + 1
        OBVIOUS
      <4>4. \A j \in (i + 1)..(n + 1) : ~IsRow(next, j)
        BY <1>2, <2>2, <4>1, <4>3
      <4> QED BY <4>2, <4>4 DEF LastRowInv
    <3> QED BY <3>2, <3>3 DEF LastRowInv
  <2> QED BY <2>1, <2>2
(* What is not known, or known already, ends the candidate.                *)
<1>4. CASE o \in {"BOUNDARY", "INSUFFICIENT_ACCURACY", fence.current}
  <2>1. applyDebounce(fence, o) = [fence EXCEPT !.candidate = "NONE", !.count = 0]
    BY <1>4 DEF applyDebounce
  <2>2. /\ applyDebounce(fence, o) \in Fences
        /\ applyDebounce(fence, o).current = fence.current
        /\ applyDebounce(fence, o).candidate = "NONE"
    <3>1. applyDebounce(fence, o) = [current |-> fence.current, candidate |-> "NONE", count |-> 0]
      BY <1>1, <2>1 DEF Fences
    <3>2. fence.current \in Conclusive \cup {"UNKNOWN"} /\ 0 \in 0..(DebounceSamples - 1)
      BY <1>1 DEF Fences
    <3> QED BY <3>1, <3>2 DEF Fences
  <2>3. CandidateInv(applyDebounce(fence, o), next, n + 1)
    BY <1>4, <2>2 DEF CandidateInv, Conclusive
  <2>4. IsRow(next, n + 1) => o = fence.current
    BY <1>4 DEF IsRow, Conclusive
  <2> QED BY <1>3, <2>2, <2>3, <2>4
(* Otherwise the count is that of the equal observations up to now.        *)
<1>5. CASE o \notin {"BOUNDARY", "INSUFFICIENT_ACCURACY", fence.current}
  <2>1. o \in Conclusive /\ o # "NONE" /\ o # fence.current
    BY <1>5 DEF Observations, Conclusive
  <2>2. /\ count \in 1..(n + 1) /\ count <= D
        /\ \A k \in (n + 1 - count + 1)..(n + 1) : next[k] = o
        /\ count = n + 1 \/ next[n + 1 - count] # o
    <3>1. CASE fence.candidate = o
      <4>1. /\ fence.count \in 1..n /\ fence.count \in 0..(D - 1)
            /\ \A k \in (n - fence.count + 1)..n : seen[k] = o
            /\ fence.count = n \/ seen[n - fence.count] # o
        BY <2>1, <3>1 DEF CandidateInv, Fences
      <4>2. PICK c : c = fence.count
        OBVIOUS
      <4>3. count = c + 1 /\ c \in 1..n /\ c \in 0..(D - 1)
        BY <3>1, <4>1, <4>2
      <4> HIDE DEF count
      <4>4. \A k \in (n + 1 - count + 1)..(n + 1) : k = n + 1 \/ k \in (n - c + 1)..n \cap 1..n
        BY <4>3
      <4>5. \A k \in (n + 1 - count + 1)..(n + 1) : next[k] = o
        BY <4>1, <4>2, <4>4
      <4>6. n + 1 - count = n - c /\ (c # n => n - c \in 1..n)
        BY <4>3
      <4>7. count = n + 1 \/ next[n + 1 - count] # o
        BY <4>1, <4>2, <4>3, <4>6
      <4> QED BY <1>1, <4>3, <4>5, <4>7
    <3>2. CASE fence.candidate # o
      <4>1. n = 0 \/ seen[n] # o
        <5>1. CASE fence.candidate = "NONE"
          BY <2>1, <5>1 DEF CandidateInv
        <5>2. CASE fence.candidate # "NONE"
          <6>1. fence.count \in 1..n /\ \A k \in (n - fence.count + 1)..n : seen[k] = fence.candidate
            BY <5>2 DEF CandidateInv
          <6>2. n \in (n - fence.count + 1)..n
            BY <6>1
          <6> QED BY <3>2, <6>1, <6>2
        <5> QED BY <5>1, <5>2
      <4>2. count = 1
        BY <3>2
      <4>3. n # 0 => n \in 1..n
        OBVIOUS
      <4> QED BY <1>1, <4>1, <4>2, <4>3
    <3> QED BY <3>1, <3>2
  <2> HIDE DEF count
(* The row is full: the fence moves.                                       *)
  <2>3. CASE count >= D
    <3>1. applyDebounce(fence, o) = [current |-> o, candidate |-> "NONE", count |-> 0]
      BY <1>5, <2>3 DEF applyDebounce, count
    <3>2. count = D
      BY <1>1, <2>2, <2>3
    <3>3. IsRow(next, n + 1)
      BY <1>1, <2>1, <2>2, <3>2 DEF IsRow
    <3>4. n + 1 \in 1..(n + 1) /\ \A j \in (n + 1 + 1)..(n + 1) : FALSE
      OBVIOUS
    <3>5. LastRowInv(o, next, n + 1)
      BY <3>3, <3>4 DEF LastRowInv
    <3>6. CandidateInv(applyDebounce(fence, o), next, n + 1)
      BY <1>1, <2>1, <3>1 DEF CandidateInv, Fences
    <3> QED BY <3>1, <3>5, <3>6
(* It is not yet: the one before them is another.                          *)
  <2>4. CASE count < D
    <3>1. applyDebounce(fence, o) = [fence EXCEPT !.candidate = o, !.count = count]
      BY <1>1, <1>5, <2>2, <2>4 DEF applyDebounce, count
    <3>2. /\ applyDebounce(fence, o) \in Fences
          /\ applyDebounce(fence, o).current = fence.current
          /\ applyDebounce(fence, o).candidate = o
          /\ applyDebounce(fence, o).count = count
      <4>1. o \in Conclusive \cup {"NONE"} /\ count \in 0..(DebounceSamples - 1)
        BY <1>1, <2>1, <2>2, <2>4
      <4>2. applyDebounce(fence, o) = [current |-> fence.current, candidate |-> o, count |-> count]
        BY <1>1, <3>1 DEF Fences
      <4>3. fence.current \in Conclusive \cup {"UNKNOWN"}
        BY <1>1 DEF Fences
      <4> QED BY <4>1, <4>2, <4>3 DEF Fences
    <3>3. CandidateInv(applyDebounce(fence, o), next, n + 1)
      BY <2>1, <2>2, <3>2 DEF CandidateInv
    <3>4. ~IsRow(next, n + 1)
      <4>1. SUFFICES ASSUME IsRow(next, n + 1) PROVE FALSE
        OBVIOUS
      <4>2. n + 1 >= D /\ \A k \in (n + 1 - D + 1)..(n + 1) : next[k] = o
        <5>1. n + 1 >= D /\ \A k \in (n + 1 - D + 1)..(n + 1) : next[k] = next[n + 1]
          BY <1>1, <4>1 DEF IsRow
        <5> QED BY <5>1
      <4>3. n + 1 - count \in (n + 1 - D + 1)..(n + 1) /\ count # n + 1
        BY <1>1, <2>2, <2>4, <4>2
      <4> QED BY <2>2, <4>2, <4>3
    <3> QED BY <1>3, <3>2, <3>3, <3>4
  <2> QED BY <1>1, <2>2, <2>3, <2>4
<1> QED BY <1>4, <1>5
-----------------------------------------------------------------------------
(* What is stored about the telemetry of a session.                        *)
Samples == [sequence : Nat \ {0}, id : Nat, at : Nat, fix : Fixes]
Crossings == {"GEOFENCE_ENTERED", "GEOFENCE_EXITED"}

Sessions ==
  [status : SAFETY_SESSION_STATUSES, start : {Start}, end : {End}, monitoredFrom : {0},
   activatedAt : Nat \cup {Unknown}, activationFence : Conclusive \cup {"UNKNOWN"},
   lastSequence : Nat, last : Samples \cup {NoSample},
   speedRejections : 0..(ReanchorAfter - 1),
   heardAt : Nat \cup {Unknown}, fence : Fences, fenceSince : Nat \cup {Unknown},
   integrity : Nat, mocks : Nat]

Outcomes == [session : Sessions, trace : Seq(Samples), crossings : Seq(Crossings),
             moved : BOOLEAN]

(* The trace is in the order of the numbers and of the capture times, and  *)
(* the anchor is its end.                                                  *)
AnchorInv(s, kept) ==
  /\ \A i \in 1..Len(kept) : kept[i].sequence <= s.lastSequence
  /\ \A i \in 1..Len(kept), j \in 1..Len(kept) :
       i < j => kept[i].sequence < kept[j].sequence /\ kept[i].at < kept[j].at
  /\ s.last = IF Len(kept) = 0 THEN NoSample ELSE kept[Len(kept)]

(* Entries and exits alternate.                                            *)
CrossingsInv(current, crossed) ==
  /\ \A i \in 1..Len(crossed) :
       crossed[i] = IF i % 2 = 1 THEN "GEOFENCE_ENTERED" ELSE "GEOFENCE_EXITED"
  /\ current = "INSIDE" <=> Len(crossed) % 2 = 1

Seen(kept) == [i \in 1..Len(kept) |-> evaluateGeofence(kept[i].fix)]

StoredInv(s, kept, crossed) ==
  /\ AnchorInv(s, kept)
  /\ CandidateInv(s.fence, Seen(kept), Len(kept))
  /\ LastRowInv(s.fence.current, Seen(kept), Len(kept))
  /\ CrossingsInv(s.fence.current, crossed)

(* What a verdict tells of the session and the sample.                     *)
LEMMA VerdictFacts ==
  ASSUME NEW s \in Sessions, NEW sample \in Samples, clock \in Nat
  PROVE  /\ Verdict(s, sample) = "SEQUENCE_REPLAY" <=> sample.sequence <= s.lastSequence
         /\ Verdict(s, sample) = "IMPOSSIBLE_SPEED" => s.speedRejections + 1 < ReanchorAfter
         /\ Verdict(s, sample) = "ACCEPTED" =>
              /\ sample.at + MaxAge >= clock
              /\ s.last.at = Unknown \/ s.last.at < sample.at
<1>1. /\ sample.at \in Nat /\ sample.sequence \in Nat /\ s.lastSequence \in Nat
      /\ MaxAge \in Nat
  BY TelemetryAssumption DEF Samples, Sessions
<1>2. s.last.at \in Nat \/ s.last.at = Unknown
  BY DEF Sessions, Samples, NoSample
<1>3. ~(sample.at < clock - MaxAge) <=> sample.at + MaxAge >= clock
  BY <1>1
<1>4. /\ Verdict(s, sample) = "SEQUENCE_REPLAY" <=> sample.sequence <= s.lastSequence
      /\ Verdict(s, sample) = "IMPOSSIBLE_SPEED" => s.speedRejections + 1 < ReanchorAfter
  BY DEF Verdict
<1>5. Verdict(s, sample) = "ACCEPTED" =>
        /\ ~(sample.at < clock - MaxAge)
        /\ s.last.at = Unknown \/ ~(sample.at < s.last.at)
        /\ s.last.at = Unknown \/ sample.at # s.last.at
  BY DEF Verdict
<1>6. s.last.at \in Nat /\ ~(sample.at < s.last.at) /\ sample.at # s.last.at
        => s.last.at < sample.at
  BY <1>1
<1> QED BY <1>2, <1>3, <1>4, <1>5, <1>6

(* What a verdict leaves of the session.                                   *)
LEMMA ValidateFacts ==
  ASSUME NEW s \in Sessions, NEW sample \in Samples, clock \in Nat,
         NEW next, next = validateSample(s, sample, Verdict(s, sample))
  PROVE  /\ next \in Sessions
         /\ next.status = s.status /\ next.heardAt = s.heardAt /\ next.fence = s.fence
         /\ next.last = IF Verdict(s, sample) = "ACCEPTED" THEN sample ELSE s.last
         /\ s.lastSequence <= next.lastSequence /\ sample.sequence <= next.lastSequence
         /\ next.lastSequence \in {s.lastSequence, sample.sequence}
<1>1. /\ sample.sequence \in Nat /\ s.lastSequence \in Nat
      /\ s.speedRejections \in 0..(ReanchorAfter - 1) /\ ReanchorAfter \in Nat \ {0}
  BY TelemetryAssumption DEF Samples, Sessions
<1>2. CASE Verdict(s, sample) = "SEQUENCE_REPLAY"
  <2>1. next = s /\ sample.sequence <= s.lastSequence
    BY <1>2, VerdictFacts DEF validateSample
  <2> QED BY <1>1, <1>2, <2>1 DEF Sessions
<1>3. CASE Verdict(s, sample) # "SEQUENCE_REPLAY"
  <2>1. PICK last : last = IF Verdict(s, sample) = "ACCEPTED" THEN sample ELSE s.last
    OBVIOUS
  <2>2. PICK tries : tries = IF Verdict(s, sample) = "ACCEPTED" THEN 0
                             ELSE IF Verdict(s, sample) = "IMPOSSIBLE_SPEED"
                             THEN s.speedRejections + 1 ELSE s.speedRejections
    OBVIOUS
  <2>3. last \in Samples \cup {NoSample}
    BY <2>1 DEF Sessions
  <2>4. tries \in 0..(ReanchorAfter - 1)
    BY <1>1, <2>2, VerdictFacts
  <2>5. next = [s EXCEPT !.lastSequence = sample.sequence, !.last = last,
                         !.speedRejections = tries]
    BY <1>3, <2>1, <2>2 DEF validateSample, Sessions
  <2>6. s.lastSequence < sample.sequence
    BY <1>1, <1>3, VerdictFacts
  <2>7. next \in Sessions
    BY <1>1, <2>3, <2>4, <2>5 DEF Sessions
  <2>8. /\ next.last = last /\ next.lastSequence = sample.sequence
        /\ next.status = s.status /\ next.heardAt = s.heardAt /\ next.fence = s.fence
    BY <2>5 DEF Sessions
  <2> QED BY <1>1, <2>1, <2>6, <2>7, <2>8
<1> QED BY <1>2, <1>3

(* A fix is observed as one of these, and debouncing keeps the fence one.  *)
LEMMA ObservationType ==
  ASSUME NEW fix
  PROVE  evaluateGeofence(fix) \in Observations
BY DEF evaluateGeofence, Side, Observations, Conclusive

LEMMA DebounceType ==
  ASSUME NEW fence \in Fences, NEW o \in Observations
  PROVE  applyDebounce(fence, o) \in Fences
<1>1. DebounceSamples \in Nat \ {0}
  BY GeofenceAssumption
<1>2. /\ fence.current \in Conclusive \cup {"UNKNOWN"}
      /\ fence.count \in 0..(DebounceSamples - 1)
      /\ fence = [current |-> fence.current, candidate |-> fence.candidate,
                   count |-> fence.count]
  BY DEF Fences
<1>3. PICK count : count = IF fence.candidate = o THEN fence.count + 1 ELSE 1
  OBVIOUS
<1>4. CASE o \in {"BOUNDARY", "INSUFFICIENT_ACCURACY", fence.current}
  <2>1. applyDebounce(fence, o) = [current |-> fence.current, candidate |-> "NONE", count |-> 0]
    BY <1>2, <1>4 DEF applyDebounce
  <2> QED BY <1>1, <1>2, <2>1 DEF Fences
<1>5. CASE o \notin {"BOUNDARY", "INSUFFICIENT_ACCURACY", fence.current}
  <2>1. o \in Conclusive
    BY <1>5 DEF Observations
  <2>2. CASE count >= DebounceSamples
    <3>1. applyDebounce(fence, o) = [current |-> o, candidate |-> "NONE", count |-> 0]
      BY <1>3, <1>5, <2>2 DEF applyDebounce
    <3> QED BY <1>1, <2>1, <3>1 DEF Fences
  <2>3. CASE ~(count >= DebounceSamples)
    <3>1. applyDebounce(fence, o) = [current |-> fence.current, candidate |-> o, count |-> count]
      BY <1>2, <1>3, <1>5, <2>3 DEF applyDebounce
    <3>2. count \in 0..(DebounceSamples - 1)
      BY <1>1, <1>2, <1>3, <2>3
    <3> QED BY <1>2, <2>1, <3>1, <3>2 DEF Fences
  <2> QED BY <2>2, <2>3
<1> QED BY <1>4, <1>5

(* A sample that is not accepted, and one that is.                         *)
Skips(acc, next) ==
  /\ next.trace = acc.trace /\ next.crossings = acc.crossings
  /\ next.session.last = acc.session.last /\ next.session.fence = acc.session.fence

Adds(acc, sample, next) ==
  /\ Verdict(acc.session, sample) = "ACCEPTED"
  /\ next.trace = Append(acc.trace, sample)
  /\ next.session.last = sample
  /\ next.session.fence = applyDebounce(acc.session.fence, evaluateGeofence(sample.fix))
  /\ next.crossings =
       acc.crossings \o recordEvents(acc.session.fence.current, next.session.fence.current)

(* What a sample does, whatever the verdict.                               *)
LEMMA SampleFacts ==
  ASSUME NEW acc \in Outcomes, NEW sample \in Samples, clock \in Nat,
         NEW next, next = processSample(acc, sample)
  PROVE  /\ next \in Outcomes
         /\ next.session.status = acc.session.status
         /\ next.session.heardAt = acc.session.heardAt
         /\ acc.session.lastSequence <= next.session.lastSequence
         /\ sample.sequence <= next.session.lastSequence
         /\ next.session.lastSequence \in {acc.session.lastSequence, sample.sequence}
         /\ Skips(acc, next) \/ Adds(acc, sample, next)
<1> DEFINE s == acc.session
           verdict == Verdict(s, sample)
           fence == applyDebounce(s.fence, evaluateGeofence(sample.fix))
<1>1. /\ s \in Sessions /\ acc.trace \in Seq(Samples) /\ acc.crossings \in Seq(Crossings)
      /\ acc.moved \in BOOLEAN
  BY DEF Outcomes
<1>2. PICK valid : valid = validateSample(s, sample, verdict)
  OBVIOUS
<1>3. /\ valid \in Sessions
      /\ valid.status = s.status /\ valid.heardAt = s.heardAt /\ valid.fence = s.fence
      /\ valid.last = IF verdict = "ACCEPTED" THEN sample ELSE s.last
      /\ s.lastSequence <= valid.lastSequence /\ sample.sequence <= valid.lastSequence
      /\ valid.lastSequence \in {s.lastSequence, sample.sequence}
  BY <1>1, <1>2, ValidateFacts
<1>4. CASE verdict = "ACCEPTED"
  <2>1. PICK mocks : mocks = IF sample.fix.mock THEN valid.mocks + 1 ELSE valid.mocks
    OBVIOUS
  <2>2. PICK after : after = [valid EXCEPT !.fence = fence, !.mocks = mocks]
    OBVIOUS
  <2>3. PICK moved \in BOOLEAN : moved <=> acc.moved \/ fence.current # s.fence.current
    OBVIOUS
  <2>4. PICK events : events = recordEvents(s.fence.current, fence.current)
    OBVIOUS
  <2>5. next = [session |-> after, trace |-> Append(acc.trace, sample),
                crossings |-> acc.crossings \o events, moved |-> moved]
    BY <1>1, <1>2, <1>4, <2>1, <2>2, <2>3, <2>4 DEF processSample, Sessions
  <2>6. fence \in Fences
    BY <1>1, DebounceType, ObservationType DEF Sessions
  <2>7. mocks \in Nat
    BY <1>3, <2>1 DEF Sessions
  <2>8. after \in Sessions
    BY <1>3, <2>2, <2>6, <2>7 DEF Sessions
  <2>9. /\ after.status = valid.status /\ after.heardAt = valid.heardAt
        /\ after.fence = fence /\ after.last = valid.last
        /\ after.lastSequence = valid.lastSequence
    BY <1>3, <2>2 DEF Sessions
  <2>10. Append(acc.trace, sample) \in Seq(Samples)
    BY <1>1
  <2>11. events \in Seq(Crossings)
    <3>1. events = <<>> \/ \E e \in Crossings : events = <<e>>
      BY <2>4 DEF recordEvents, Crossings
    <3>2. CASE events = <<>>
      BY <3>2
    <3>3. CASE \E e \in Crossings : events = <<e>>
      <4>1. PICK e \in Crossings : events = <<e>>
        BY <3>3
      <4> QED BY <4>1
    <3> QED BY <3>1, <3>2, <3>3
  <2>12. acc.crossings \o events \in Seq(Crossings)
    BY <1>1, <2>11
  <2>13. next \in Outcomes
    BY <2>3, <2>5, <2>8, <2>10, <2>12 DEF Outcomes
  <2>14. /\ next.session = after /\ next.trace = Append(acc.trace, sample)
         /\ next.crossings = acc.crossings \o events
    BY <2>5
  <2>15. next.session.last = sample /\ next.session.fence = fence
    BY <1>3, <1>4, <2>9, <2>14
  <2>16. next.crossings = acc.crossings \o
                            recordEvents(s.fence.current, next.session.fence.current)
    BY <2>4, <2>14, <2>15
  <2>17. Adds(acc, sample, next)
    BY <1>4, <2>14, <2>15, <2>16 DEF Adds
  <2> QED BY <1>3, <2>9, <2>13, <2>14, <2>17
<1>5. CASE verdict # "ACCEPTED"
  <2>1. PICK integrity : integrity = IF isIntegrityRejection(verdict) THEN valid.integrity + 1
                                     ELSE valid.integrity
    OBVIOUS
  <2>2. PICK after : after = [valid EXCEPT !.integrity = integrity]
    OBVIOUS
  <2>3. next = [acc EXCEPT !.session = after]
    BY <1>1, <1>2, <1>3, <1>5, <2>1, <2>2 DEF processSample, Sessions
  <2>4. integrity \in Nat
    BY <1>3, <2>1 DEF Sessions
  <2>5. after \in Sessions
    BY <1>3, <2>2, <2>4 DEF Sessions
  <2>6. /\ after.status = valid.status /\ after.heardAt = valid.heardAt
        /\ after.fence = valid.fence /\ after.last = valid.last
        /\ after.lastSequence = valid.lastSequence
    BY <1>3, <2>2 DEF Sessions
  <2>7. /\ next \in Outcomes /\ next.session = after
        /\ next.trace = acc.trace /\ next.crossings = acc.crossings
    BY <1>1, <2>3, <2>5 DEF Outcomes
  <2>8. Skips(acc, next)
    BY <1>3, <1>5, <2>6, <2>7 DEF Skips
  <2> QED BY <1>3, <2>6, <2>7, <2>8
<1> QED BY <1>4, <1>5

(* What is recorded at a turn of the fence keeps the alternation.          *)
LEMMA CrossingsKeep ==
  ASSUME NEW crossed \in Seq(Crossings), NEW from \in Conclusive \cup {"UNKNOWN"},
         NEW to \in Conclusive \cup {"UNKNOWN"}, to # "UNKNOWN" \/ to = from,
         CrossingsInv(from, crossed)
  PROVE  CrossingsInv(to, crossed \o recordEvents(from, to))
<1> DEFINE n == Len(crossed)
<1>1. n \in Nat
  OBVIOUS
<1>2. CASE to = from \/ (to # "INSIDE" /\ from # "INSIDE")
  <2>1. recordEvents(from, to) = <<>>
    BY <1>2 DEF recordEvents
  <2>2. crossed \o <<>> = crossed
    OBVIOUS
  <2> QED BY <1>2, <2>1, <2>2 DEF CrossingsInv
<1>3. CASE to # from /\ to = "INSIDE"
  <2>1. PICK next : next = crossed \o <<"GEOFENCE_ENTERED">>
    OBVIOUS
  <2>2. /\ Len(next) = n + 1 /\ next[n + 1] = "GEOFENCE_ENTERED"
        /\ \A i \in 1..n : next[i] = crossed[i]
    BY <2>1
  <2>3. n % 2 # 1 /\ n % 2 \in 0..1
    BY <1>1, <1>3 DEF CrossingsInv
  <2>4. (n + 1) % 2 = 1
    BY <1>1, <2>3
  <2>5. \A i \in 1..(n + 1) : i \in 1..n \/ i = n + 1
    BY <1>1
  <2>6. next = crossed \o recordEvents(from, to)
    BY <1>3, <2>1 DEF recordEvents
  <2>7. CrossingsInv(to, next)
    BY <1>3, <2>2, <2>4, <2>5 DEF CrossingsInv
  <2> QED BY <2>6, <2>7
<1>4. CASE to # from /\ from = "INSIDE"
  <2>1. PICK next : next = crossed \o <<"GEOFENCE_EXITED">>
    OBVIOUS
  <2>2. /\ Len(next) = n + 1 /\ next[n + 1] = "GEOFENCE_EXITED"
        /\ \A i \in 1..n : next[i] = crossed[i]
    BY <2>1
  <2>3. n % 2 = 1
    BY <1>4 DEF CrossingsInv
  <2>4. (n + 1) % 2 # 1
    BY <1>1, <2>3
  <2>5. \A i \in 1..(n + 1) : i \in 1..n \/ i = n + 1
    BY <1>1
  <2>6. next = crossed \o recordEvents(from, to)
    BY <1>4, <2>1 DEF recordEvents
  <2>7. CrossingsInv(to, next)
    BY <1>4, <2>2, <2>4, <2>5 DEF CrossingsInv
  <2> QED BY <2>6, <2>7
<1> QED BY <1>2, <1>3, <1>4

(* A sample keeps what is stored in order.                                 *)
LEMMA SampleKeeps ==
  ASSUME NEW acc \in Outcomes, NEW sample \in Samples, clock \in Nat,
         StoredInv(acc.session, acc.trace, acc.crossings),
         NEW next, next = processSample(acc, sample)
  PROVE  StoredInv(next.session, next.trace, next.crossings)
<1>0. /\ next \in Outcomes
      /\ acc.session.lastSequence <= next.session.lastSequence
      /\ sample.sequence <= next.session.lastSequence
      /\ Skips(acc, next) \/ Adds(acc, sample, next)
  BY SampleFacts
<1>1. /\ acc.session \in Sessions /\ acc.trace \in Seq(Samples)
      /\ acc.crossings \in Seq(Crossings) /\ acc.session.fence \in Fences
      /\ acc.session.lastSequence \in Nat /\ sample.sequence \in Nat /\ sample.at \in Nat
      /\ next.session \in Sessions /\ next.trace \in Seq(Samples)
      /\ next.session.lastSequence \in Nat /\ next.session.fence \in Fences
  <2>1. /\ acc.session \in Sessions /\ acc.trace \in Seq(Samples)
        /\ acc.crossings \in Seq(Crossings)
        /\ next.session \in Sessions /\ next.trace \in Seq(Samples)
    BY <1>0 DEF Outcomes
  <2> QED BY <2>1 DEF Sessions, Samples
<1> DEFINE n == Len(acc.trace)
<1>2. n \in Nat /\ \A i \in 1..n : acc.trace[i] \in Samples
  BY <1>1
<1>3. \A i \in 1..n : acc.trace[i].sequence \in Nat /\ acc.trace[i].at \in Nat
  BY <1>2 DEF Samples
<1>4. CASE Skips(acc, next)
  <2>1. \A i \in 1..n : acc.trace[i].sequence <= next.session.lastSequence
    <3>1. \A i \in 1..n : acc.trace[i].sequence <= acc.session.lastSequence
      BY DEF StoredInv, AnchorInv
    <3> QED BY <1>0, <1>1, <1>3, <3>1
  <2>2. AnchorInv(next.session, next.trace)
    BY <1>4, <2>1 DEF StoredInv, AnchorInv, Skips
  <2> QED BY <1>4, <2>2 DEF StoredInv, Skips
<1>5. CASE Adds(acc, sample, next)
  <2>1. /\ Len(next.trace) = n + 1 /\ next.trace[n + 1] = sample
        /\ \A i \in 1..n : next.trace[i] = acc.trace[i]
        /\ \A i \in 1..(n + 1) : i \in 1..n \/ i = n + 1
    BY <1>1, <1>5 DEF Adds
  <2>2. acc.session.lastSequence < sample.sequence
    BY <1>1, <1>5, VerdictFacts DEF Adds
  <2>3. \A i \in 1..n : /\ acc.trace[i].sequence <= acc.session.lastSequence
                        /\ acc.trace[i].sequence < sample.sequence
                        /\ acc.trace[i].sequence <= next.session.lastSequence
    <3>1. \A i \in 1..n : acc.trace[i].sequence <= acc.session.lastSequence
      BY DEF StoredInv, AnchorInv
    <3> QED BY <1>0, <1>1, <1>3, <2>2, <3>1
  <2>4. \A i \in 1..n : acc.trace[i].at < sample.at
    <3>1. TAKE i \in 1..n
    <3>2. n # 0 /\ n \in 1..n /\ acc.session.last = acc.trace[n]
      BY <1>2 DEF StoredInv, AnchorInv
    <3>3. acc.trace[n].at \in Nat /\ acc.trace[n].at # Unknown
      BY <1>3, <3>2 DEF Unknown
    <3>4. acc.trace[n].at < sample.at
      BY <1>1, <1>5, <3>2, <3>3, VerdictFacts DEF Adds
    <3>5. i = n \/ (i < n /\ acc.trace[i].at < acc.trace[n].at)
      BY <1>2, <3>2 DEF StoredInv, AnchorInv
    <3> QED BY <1>1, <1>3, <3>3, <3>4, <3>5
  <2>5. AnchorInv(next.session, next.trace)
    <3>1. \A i \in 1..(n + 1) : next.trace[i].sequence <= next.session.lastSequence
      BY <1>0, <1>1, <2>1, <2>3
    <3>2. \A i \in 1..(n + 1), j \in 1..(n + 1) :
            i < j => /\ next.trace[i].sequence < next.trace[j].sequence
                     /\ next.trace[i].at < next.trace[j].at
      <4>1. TAKE i \in 1..(n + 1), j \in 1..(n + 1)
      <4>2. CASE j \in 1..n
        <5>1. i < j => i \in 1..n
          BY <1>2, <4>2
        <5> QED BY <2>1, <4>2, <5>1 DEF StoredInv, AnchorInv
      <4>3. CASE j = n + 1
        <5>1. i < j => i \in 1..n
          BY <1>2, <4>3
        <5> QED BY <2>1, <2>3, <2>4, <4>3, <5>1
      <4> QED BY <2>1, <4>2, <4>3
    <3>3. n + 1 # 0
      BY <1>2
    <3> QED BY <1>5, <2>1, <3>1, <3>2, <3>3 DEF AnchorInv, Adds
  <2>6. PICK o : o = evaluateGeofence(sample.fix)
    OBVIOUS
  <2>7. PICK seen : seen = Seen(acc.trace)
    OBVIOUS
  <2>8. PICK later : later = Seen(next.trace)
    OBVIOUS
  <2>9. /\ o \in Observations /\ later[n + 1] = o /\ \A i \in 1..n : later[i] = seen[i]
    <3>1. \A i \in 1..(n + 1) : later[i] = evaluateGeofence(next.trace[i].fix)
      BY <2>1, <2>8 DEF Seen
    <3>2. \A i \in 1..n : seen[i] = evaluateGeofence(acc.trace[i].fix)
      BY <2>7 DEF Seen
    <3>3. n + 1 \in 1..(n + 1) /\ \A i \in 1..n : i \in 1..(n + 1)
      BY <1>2
    <3> QED BY <2>1, <2>6, <3>1, <3>2, <3>3, ObservationType
  <2>10. PICK fence : fence = acc.session.fence
    OBVIOUS
  <2>11. /\ CandidateInv(fence, seen, n) /\ LastRowInv(fence.current, seen, n)
    BY <2>7, <2>10 DEF StoredInv
  <2>12. /\ CandidateInv(applyDebounce(fence, o), later, n + 1)
         /\ LastRowInv(applyDebounce(fence, o).current, later, n + 1)
    BY <1>2, <2>9, <2>11, DebounceKeeps
  <2>13. /\ CandidateInv(next.session.fence, Seen(next.trace), Len(next.trace))
         /\ LastRowInv(next.session.fence.current, Seen(next.trace), Len(next.trace))
    BY <1>5, <2>1, <2>6, <2>8, <2>10, <2>12 DEF Adds
  <2>14. CrossingsInv(next.session.fence.current, next.crossings)
    <3>1. PICK from : from = acc.session.fence.current
      OBVIOUS
    <3>2. PICK to : to = next.session.fence.current
      OBVIOUS
    <3>3. from \in Conclusive \cup {"UNKNOWN"} /\ to \in Conclusive \cup {"UNKNOWN"}
      BY <1>1, <3>1, <3>2 DEF Fences
    <3>4. to # "UNKNOWN" \/ to = from
      BY <1>1, <1>5, <2>6, <2>9, <3>1, <3>2 DEF Adds, applyDebounce, Fences, Observations, Conclusive
    <3>5. CrossingsInv(from, acc.crossings)
      BY <3>1 DEF StoredInv
    <3>6. CrossingsInv(to, acc.crossings \o recordEvents(from, to))
      BY <1>1, <3>3, <3>4, <3>5, CrossingsKeep
    <3> QED BY <1>5, <3>1, <3>2, <3>6 DEF Adds
  <2> QED BY <2>5, <2>13, <2>14 DEF StoredInv
<1> QED BY <1>0, <1>4, <1>5
-----------------------------------------------------------------------------
(* After the numbers of a batch up to n: what is stored is in order, made  *)
(* of what was there and of the batch, with those numbers used up; and     *)
(* where something was added the anchor is not too old.                    *)
PassInv(batch, acc, n) ==
  /\ acc \in Outcomes
  /\ StoredInv(acc.session, acc.trace, acc.crossings)
  /\ acc.session.status = session.status /\ acc.session.heardAt = session.heardAt
  /\ acc.session.lastSequence <= readings
  /\ \A s \in batch : s.sequence <= n => s.sequence <= acc.session.lastSequence
  /\ \A i \in 1..Len(acc.trace) :
       acc.trace[i] \in batch \cup {trace[j] : j \in 1..Len(trace)}
  /\ \/ acc.trace = trace /\ acc.session.last = session.last
     \/ Len(acc.trace) > Len(trace) /\ acc.session.last.at + MaxAge >= clock

(* What a session and a batch are before.                                  *)
ReadyInv ==
  /\ clock \in Nat /\ readings \in Nat
  /\ session \in Sessions /\ trace \in Seq(Samples) /\ crossings \in Seq(Crossings)
  /\ session.lastSequence <= readings
  /\ StoredInv(session, trace, crossings)

LEMMA PassKeeps ==
  ASSUME ReadyInv, NEW batch \in SUBSET Samples, \A s \in batch : s.sequence <= readings,
         NEW acc, NEW n \in Nat, PassInv(batch, acc, n),
         NEW next, next = Through(batch, acc, n + 1)
  PROVE  PassInv(batch, next, n + 1)
<1>1. acc \in Outcomes /\ StoredInv(acc.session, acc.trace, acc.crossings) /\ clock \in Nat
  BY DEF PassInv, ReadyInv
<1>2. \A s \in batch : s.sequence \in Nat
  BY DEF Samples
<1>3. /\ acc.session.lastSequence \in Nat /\ acc.trace \in Seq(Samples) /\ readings \in Nat
      /\ trace \in Seq(Samples) /\ acc.session.lastSequence <= readings
  <2>1. acc.session \in Sessions /\ acc.trace \in Seq(Samples)
    BY <1>1 DEF Outcomes
  <2> QED BY <2>1 DEF Sessions, ReadyInv, PassInv
<1>4. CASE n + 1 \notin {s.sequence : s \in batch}
  <2>1. next = acc
    BY <1>4 DEF Through
  <2>2. \A s \in batch : s.sequence <= n + 1 => s.sequence <= n
    BY <1>2, <1>4
  <2> QED BY <2>1, <2>2 DEF PassInv
<1>5. CASE n + 1 \in {s.sequence : s \in batch}
  <2>1. PICK sample \in batch : /\ sample.sequence = n + 1
                                /\ sample = CHOOSE s \in batch : s.sequence = n + 1
    BY <1>5
  <2>2. sample \in Samples /\ next = processSample(acc, sample)
    BY <1>5, <2>1 DEF Through
  <2>3. /\ next \in Outcomes
        /\ next.session.status = acc.session.status
        /\ next.session.heardAt = acc.session.heardAt
        /\ acc.session.lastSequence <= next.session.lastSequence
        /\ sample.sequence <= next.session.lastSequence
        /\ next.session.lastSequence \in {acc.session.lastSequence, sample.sequence}
        /\ Skips(acc, next) \/ Adds(acc, sample, next)
    BY <1>1, <2>2, SampleFacts
  <2>4. StoredInv(next.session, next.trace, next.crossings)
    BY <1>1, <2>2, SampleKeeps
  <2>5. next.session.lastSequence <= readings /\ next.session.lastSequence \in Nat
    BY <1>2, <1>3, <2>1, <2>3
  <2>6. \A s \in batch : s.sequence <= n + 1 => s.sequence <= next.session.lastSequence
    <3>1. TAKE s \in batch
    <3>2. s.sequence <= n => s.sequence <= acc.session.lastSequence
      BY DEF PassInv
    <3> QED BY <1>2, <1>3, <2>1, <2>3, <2>5, <3>2
  <2>7. CASE Skips(acc, next)
    <3>1. next.trace = acc.trace /\ next.session.last = acc.session.last
      BY <2>7 DEF Skips
    <3> QED BY <2>3, <2>4, <2>5, <2>6, <3>1 DEF PassInv
  <2>8. CASE Adds(acc, sample, next)
    <3>1. /\ next.trace = Append(acc.trace, sample) /\ next.session.last = sample
          /\ Verdict(acc.session, sample) = "ACCEPTED"
      BY <2>8 DEF Adds
    <3>2. acc.session \in Sessions
      BY <1>1 DEF Outcomes
    <3>3. sample.at + MaxAge >= clock
      BY <1>1, <2>2, <3>1, <3>2, VerdictFacts
    <3>4. /\ Len(next.trace) = Len(acc.trace) + 1 /\ next.trace[Len(acc.trace) + 1] = sample
          /\ \A i \in 1..Len(acc.trace) : next.trace[i] = acc.trace[i]
          /\ Len(acc.trace) \in Nat /\ Len(trace) \in Nat
      BY <1>3, <2>2, <3>1
    <3>5. \A i \in 1..Len(next.trace) : i \in 1..Len(acc.trace) \/ i = Len(acc.trace) + 1
      BY <3>4
    <3>6. \A i \in 1..Len(next.trace) :
            next.trace[i] \in batch \cup {trace[j] : j \in 1..Len(trace)}
      BY <2>1, <3>4, <3>5 DEF PassInv
    <3>7. Len(acc.trace) >= Len(trace)
      BY <3>4 DEF PassInv
    <3>8. Len(next.trace) > Len(trace)
      BY <3>4, <3>7
    <3>9. next.session.last.at + MaxAge >= clock
      BY <3>1, <3>3
    <3>10. next.session.status = session.status /\ next.session.heardAt = session.heardAt
      BY <2>3 DEF PassInv
    <3> QED BY <2>3, <2>4, <2>5, <2>6, <3>6, <3>8, <3>9, <3>10 DEF PassInv
  <2> QED BY <2>3, <2>7, <2>8
<1> QED BY <1>4, <1>5

(* A batch keeps what is stored in order and uses up all of its numbers.   *)
LEMMA BatchKeeps ==
  ASSUME ReadyInv, NEW batch \in SUBSET Samples, batch # {},
         \A s \in batch : s.sequence <= readings
  PROVE  \E m \in Nat : /\ \A s \in batch : s.sequence <= m
                        /\ PassInv(batch, processBatch(batch), m)
<1>1. PICK numbers : numbers = {s.sequence : s \in batch}
  OBVIOUS
<1>2. readings \in Nat /\ \A s \in batch : s.sequence \in Nat
  BY DEF ReadyInv, Samples
<1>3. numbers \in SUBSET (0..readings) /\ numbers # {}
  BY <1>1, <1>2
<1>4. PICK m : m = Max(numbers)
  OBVIOUS
<1>5. m \in Nat /\ \A k \in numbers : k <= m
  <2>1. readings \in Nat
    BY <1>2
  <2>2. Max(numbers) \in numbers /\ \A k \in numbers : k <= Max(numbers)
    BY <1>3, <2>1, MaxIsGreatest
  <2>3. m \in numbers /\ \A k \in numbers : k <= m
    BY <1>4, <2>2, Zenon
  <2>4. m \in 0..readings
    BY <1>3, <2>3
  <2> QED BY <2>1, <2>3, <2>4
<1>6. PICK f : IsRun(batch, f, m) /\ processBatch(batch) = f[m]
  BY <1>1, <1>4, <1>5, BatchIsRun
<1>7. PICK S : S = {n \in 0..m : ~PassInv(batch, f[n], n)}
  OBVIOUS
<1>8. S = {}
  <2>1. SUFFICES ASSUME S # {} PROVE FALSE
    OBVIOUS
  <2>2. S \in SUBSET Nat
    BY <1>7
  <2>3. PICK n \in S : \A k \in S : n <= k
    BY <2>1, <2>2, OneIsLeast
  <2>4. n \in 0..m /\ ~PassInv(batch, f[n], n)
    BY <1>7
  <2>5. CASE n = 0
    <3>1. f[0] = Before
      BY <1>5, <1>6, <2>4, <2>5 DEF IsRun
    <3>2. Before \in Outcomes
      BY DEF Before, Outcomes, ReadyInv
    <3>3. /\ Before.session = session /\ Before.trace = trace /\ Before.crossings = crossings
      BY DEF Before
    <3>4. \A s \in batch : ~(s.sequence <= 0)
      BY DEF Samples
    <3>5. PassInv(batch, Before, 0)
      BY <3>2, <3>3, <3>4 DEF PassInv, ReadyInv
    <3> QED BY <2>4, <2>5, <3>1, <3>5
  <2>6. CASE n # 0
    <3>1. PICK k : k = n - 1
      OBVIOUS
    <3>2. k \in Nat /\ k \in 0..m /\ k \notin S /\ n = k + 1
      BY <1>5, <2>3, <2>4, <2>6, <3>1
    <3>3. PassInv(batch, f[k], k)
      BY <1>7, <3>2
    <3>4. f[n] = Through(batch, f[k], k + 1)
      BY <1>6, <2>4, <2>6, <3>1, <3>2 DEF IsRun
    <3>5. PassInv(batch, f[n], k + 1)
      BY <3>2, <3>3, <3>4, PassKeeps
    <3> QED BY <2>4, <3>2, <3>5
  <2> QED BY <2>5, <2>6
<1>9. PassInv(batch, f[m], m)
  BY <1>5, <1>7, <1>8
<1> QED BY <1>1, <1>5, <1>6, <1>9
-----------------------------------------------------------------------------
(* The inductive invariant.                                                *)
Engines ==
  [number : 0..MaxEngines, phase : {"idle", "running", "stopped"}, next : Nat \ {0},
   recordedAt : Nat \cup {Unknown}, pending : SUBSET Samples, awaiting : SUBSET Samples]

(* Every sample that is anywhere: in the buffer, under way, or stored.     *)
Known ==
  engine.pending \cup engine.awaiting \cup late \cup {trace[i] : i \in 1..Len(trace)}

EngineInv ==
  /\ engine \in Engines /\ late \in SUBSET Samples
  /\ engine.next <= readings + 1
  /\ \A s \in engine.pending : s.sequence < engine.next
  /\ engine.awaiting \subseteq engine.pending
  /\ Numbered(engine.pending) /\ Numbered(late)

(* A reading is one sample, wherever it is.                                *)
KnownInv ==
  /\ \A s \in Known : s.id <= readings /\ s.sequence <= readings
  /\ \A s \in Known, r \in Known : s.id = r.id => s = r

(* A session that was heard had an anchor then that was not too old.       *)
HeardInv ==
  session.heardAt # Unknown =>
    trace # <<>> /\ session.last.at + MaxAge >= session.heardAt

PhoneInv ==
  /\ clock \in Moments /\ readings \in 0..MaxReadings
  /\ ReadyInv /\ HeardInv /\ EngineInv /\ KnownInv

(* What is known are samples.                                              *)
LEMMA KnownAreSamples ==
  ASSUME PhoneInv
  PROVE  Known \subseteq Samples
BY DEF PhoneInv, ReadyInv, EngineInv, Engines, Known

(* An empty trace is in order.                                             *)
LEMMA NothingStored ==
  ASSUME NEW s \in Sessions, s.fence = NoFence, s.last = NoSample
  PROVE  StoredInv(s, <<>>, <<>>)
<1>1. AnchorInv(s, <<>>)
  BY DEF AnchorInv
<1>2. NoFence \in Fences
  BY GeofenceAssumption DEF NoFence, Fences
<1>3. CandidateInv(NoFence, Seen(<<>>), 0) /\ LastRowInv(NoFence.current, Seen(<<>>), 0)
  BY <1>2 DEF CandidateInv, LastRowInv, NoFence
<1>4. CrossingsInv(NoFence.current, <<>>)
  BY DEF CrossingsInv, NoFence
<1> QED BY <1>1, <1>3, <1>4 DEF StoredInv

LEMMA PhoneInit == Init => PhoneInv
<1> SUFFICES ASSUME Init PROVE PhoneInv
  OBVIOUS
<1>1. clock \in Moments /\ clock \in Nat /\ readings \in 0..MaxReadings /\ readings \in Nat
  BY TelemetryAssumption DEF Init
<1>2. NoFence \in Fences
  BY GeofenceAssumption DEF NoFence, Fences
<1>3. 0 \in 0..(ReanchorAfter - 1) /\ "ARRIVAL_MONITORING" \in SAFETY_SESSION_STATUSES
  BY TelemetryAssumption DEF SAFETY_SESSION_STATUSES
<1>4. session \in Sessions
  BY <1>2, <1>3 DEF Init, Sessions
<1>5. /\ session.fence = NoFence /\ session.last = NoSample /\ session.lastSequence = 0
      /\ session.heardAt = Unknown /\ trace = <<>> /\ crossings = <<>>
  BY DEF Init
<1>6. ReadyInv
  BY <1>1, <1>4, <1>5, NothingStored DEF ReadyInv
<1>7. HeardInv
  BY <1>5 DEF HeardInv
<1>8. EngineInv
  BY <1>1, TelemetryAssumption DEF Init, EngineInv, Engines, NoEngine, Numbered
<1>9. KnownInv
  BY <1>5 DEF Init, KnownInv, Known, NoEngine
<1> QED BY <1>1, <1>6, <1>7, <1>8, <1>9 DEF PhoneInv

(* Nothing new is known: a reading is still one sample.                    *)
LEMMA KnownStays ==
  ASSUME KnownInv, readings' = readings, Known' \subseteq Known
  PROVE  KnownInv'
BY DEF KnownInv

(* What becomes of the session with a batch.                               *)
LEMMA IngestFacts ==
  ASSUME PhoneInv, NEW batch \in SUBSET Known, batch # {}, ingest(batch)
  PROVE  /\ session' \in Sessions /\ trace' \in Seq(Samples) /\ crossings' \in Seq(Crossings)
         /\ session'.lastSequence <= readings
         /\ StoredInv(session', trace', crossings')
         /\ session'.status = session.status
         /\ HeardInv'
         /\ \A s \in batch : s.sequence <= session'.lastSequence
         /\ {trace'[i] : i \in 1..Len(trace')} \subseteq Known
<1>1. /\ ReadyInv /\ HeardInv /\ batch \in SUBSET Samples
      /\ \A s \in batch : s.sequence <= readings
  BY KnownAreSamples DEF PhoneInv, KnownInv
<1>2. PICK out : out = processBatch(batch)
  OBVIOUS
<1>3. PICK m \in Nat : (\A s \in batch : s.sequence <= m) /\ PassInv(batch, out, m)
  BY <1>1, <1>2, BatchKeeps
<1>4. /\ out.session \in Sessions /\ out.trace \in Seq(Samples)
      /\ out.crossings \in Seq(Crossings)
  BY <1>3 DEF PassInv, Outcomes
<1>5. PICK heard : heard = HeardAt(trace, out.trace)
  OBVIOUS
<1>6. PICK since : since = IF out.moved THEN clock ELSE out.session.fenceSince
  OBVIOUS
<1>7. clock \in Nat /\ session.heardAt \in Nat \cup {Unknown}
  BY <1>1 DEF ReadyInv, Sessions
<1>8. heard \in Nat \cup {Unknown} /\ since \in Nat \cup {Unknown}
  BY <1>4, <1>5, <1>6, <1>7 DEF HeardAt, Sessions
<1>9. /\ session' = [out.session EXCEPT !.heardAt = heard, !.fenceSince = since]
      /\ trace' = out.trace /\ crossings' = out.crossings
  BY <1>2, <1>4, <1>5, <1>6 DEF ingest, Sessions
<1>10. session' \in Sessions
  BY <1>4, <1>8, <1>9 DEF Sessions
<1>11. /\ session'.heardAt = heard /\ session'.status = out.session.status
       /\ session'.lastSequence = out.session.lastSequence
       /\ session'.last = out.session.last /\ session'.fence = out.session.fence
  BY <1>4, <1>9 DEF Sessions
<1>12. StoredInv(session', trace', crossings')
  BY <1>3, <1>9, <1>11 DEF PassInv, StoredInv, AnchorInv
<1>13. HeardInv'
  <2>1. Len(trace) \in Nat /\ Len(out.trace) \in Nat
    BY <1>1, <1>4 DEF ReadyInv
  <2>2. CASE out.trace = trace /\ out.session.last = session.last
    <3>1. heard = session.heardAt
      BY <1>5, <2>1, <2>2 DEF HeardAt
    <3> QED BY <1>1, <1>9, <1>11, <2>2, <3>1 DEF HeardInv
  <2>3. CASE Len(out.trace) > Len(trace) /\ out.session.last.at + MaxAge >= clock
    <3>1. heard = clock
      BY <1>5, <2>3 DEF HeardAt
    <3>2. out.trace # <<>>
      BY <2>1, <2>3
    <3> QED BY <1>9, <1>11, <2>3, <3>1, <3>2 DEF HeardInv
  <2> QED BY <1>3, <2>2, <2>3 DEF PassInv
<1>14. \A s \in batch : s.sequence <= session'.lastSequence
  BY <1>3, <1>11 DEF PassInv
<1>15. {trace'[i] : i \in 1..Len(trace')} \subseteq Known
  BY <1>3, <1>9 DEF PassInv, Known
<1>16. session'.lastSequence <= readings /\ session'.status = session.status
  BY <1>3, <1>11 DEF PassInv
<1> QED BY <1>4, <1>9, <1>10, <1>12, <1>13, <1>14, <1>15, <1>16

(* A step that leaves the server alone, and after which no sample is known *)
(* that was not, keeps the invariant if it keeps that of the engine.       *)
LEMMA ServerRests ==
  ASSUME PhoneInv, UNCHANGED <<clock, readings, session, trace, crossings>>,
         EngineInv', Known' \subseteq Known
  PROVE  PhoneInv'
<1>1. KnownInv'
  BY KnownStays DEF PhoneInv
<1>2. ReadyInv' /\ HeardInv'
  BY DEF PhoneInv, ReadyInv, HeardInv
<1> QED BY <1>1, <1>2 DEF PhoneInv

(* A step that leaves the engine alone does not lose what it keeps.        *)
LEMMA EngineRests ==
  ASSUME PhoneInv, UNCHANGED <<clock, readings, engine, late, trace, crossings>>,
         session' \in Sessions, session'.lastSequence = session.lastSequence,
         session'.last = session.last, session'.fence = session.fence,
         session'.heardAt = session.heardAt
  PROVE  PhoneInv'
<1>1. ReadyInv'
  BY DEF PhoneInv, ReadyInv, StoredInv, AnchorInv
<1>2. HeardInv' /\ EngineInv' /\ KnownInv'
  BY DEF PhoneInv, HeardInv, EngineInv, KnownInv, Known, Numbered
<1> QED BY <1>1, <1>2 DEF PhoneInv

(* Part of a numbered set is numbered.                                     *)
LEMMA PartIsNumbered ==
  ASSUME NEW samples, Numbered(samples), NEW part \in SUBSET samples
  PROVE  Numbered(part)
BY DEF Numbered

LEMMA PhoneStep == PhoneInv /\ Next => PhoneInv'
<1> SUFFICES ASSUME PhoneInv, Next PROVE PhoneInv'
  OBVIOUS
<1>0. /\ ReadyInv /\ HeardInv /\ EngineInv /\ KnownInv /\ engine \in Engines
      /\ clock \in Nat /\ readings \in Nat /\ session \in Sessions
      /\ late \in SUBSET Samples
  BY DEF PhoneInv, ReadyInv, EngineInv
<1>1. CASE StartEngine
  <2>1. PICK number : number = engine.number + 1
    OBVIOUS
  <2>2. PICK first : first = session.lastSequence + 1
    OBVIOUS
  <2>3. number \in 0..MaxEngines
    BY <1>0, <1>1, <2>1, TelemetryAssumption DEF StartEngine, Engines
  <2>4. first \in Nat \ {0} /\ first <= readings + 1
    BY <1>0, <2>2 DEF ReadyInv, Sessions
  <2>5. engine' = [number |-> number, phase |-> "running", next |-> first,
                   recordedAt |-> Unknown, pending |-> {}, awaiting |-> {}]
    BY <1>1, <2>1, <2>2 DEF StartEngine, NoEngine
  <2>6. UNCHANGED <<clock, readings, late, session, trace, crossings>>
    BY <1>1 DEF StartEngine
  <2>7. EngineInv'
    BY <1>0, <2>3, <2>4, <2>5, <2>6 DEF EngineInv, Engines, Numbered
  <2>8. Known' \subseteq Known
    BY <2>5, <2>6 DEF Known
  <2> QED BY <2>6, <2>7, <2>8, ServerRests
<1>2. ASSUME engine' = Stopped, UNCHANGED <<clock, readings, late, session, trace, crossings>>
      PROVE  PhoneInv'
  <2>1. engine' = [number |-> engine.number, phase |-> "stopped", next |-> 1,
                   recordedAt |-> Unknown, pending |-> {}, awaiting |-> {}]
    BY <1>2 DEF Stopped, NoEngine
  <2>2. EngineInv'
    BY <1>0, <1>2, <2>1 DEF EngineInv, Engines, Numbered
  <2>3. Known' \subseteq Known
    BY <1>2, <2>1 DEF Known
  <2> QED BY <1>2, <2>2, <2>3, ServerRests
<1>3. CASE StopEngine
  BY <1>2, <1>3 DEF StopEngine
<1>4. CASE record
  <2>1. PICK fix \in Fixes :
          engine' = [engine EXCEPT
            !.next = @ + 1, !.recordedAt = clock + fix.ahead,
            !.pending = @ \cup {[sequence |-> engine.next, id |-> readings + 1,
                                 at |-> clock + fix.ahead, fix |-> fix]}]
    BY <1>4 DEF record
  <2>2. PICK at : at = clock + fix.ahead
    OBVIOUS
  <2>3. PICK new : new = [sequence |-> engine.next, id |-> readings + 1, at |-> at, fix |-> fix]
    OBVIOUS
  <2>4. PICK next : next = engine.next + 1
    OBVIOUS
  <2>5. PICK pending : pending = engine.pending \cup {new}
    OBVIOUS
  <2>6. /\ readings < MaxReadings /\ readings' = readings + 1
        /\ UNCHANGED <<clock, late, session, trace, crossings>>
    BY <1>4 DEF record
  <2>7. at \in Nat /\ engine.next \in Nat \ {0} /\ next \in Nat \ {0}
    BY <1>0, <2>2, <2>4, TelemetryAssumption DEF Engines
  <2>8. engine' = [engine EXCEPT !.next = next, !.recordedAt = at, !.pending = pending]
    BY <1>0, <2>1, <2>2, <2>3, <2>4, <2>5 DEF Engines
  <2>9. new \in Samples
    BY <1>0, <2>3, <2>7 DEF Samples
  <2>10. /\ engine' \in Engines /\ engine'.next = next /\ engine'.pending = pending
         /\ engine'.awaiting = engine.awaiting
    BY <1>0, <2>5, <2>7, <2>8, <2>9 DEF Engines
  <2>11. new.sequence = engine.next /\ new.id = readings + 1
    BY <2>3
  <2>12. \A s \in Known : s.id \in Nat /\ s.sequence \in Nat
    BY KnownAreSamples DEF Samples
  <2>13. Known' = Known \cup {new}
    BY <2>5, <2>6, <2>10 DEF Known
  <2>14. EngineInv'
    <3>1. next <= readings' + 1
      BY <1>0, <2>4, <2>6, <2>7 DEF EngineInv
    <3>2. \A s \in engine.pending : s.sequence < engine.next /\ s.sequence \in Nat
      BY <1>0, <2>12 DEF EngineInv, Known
    <3>3. \A s \in pending : s.sequence < next
      BY <2>4, <2>5, <2>7, <2>11, <3>2
    <3>4. Numbered(pending)
      BY <1>0, <2>5, <2>7, <2>11, <3>2 DEF EngineInv, Numbered
    <3>5. engine'.awaiting \subseteq engine'.pending
      BY <1>0, <2>5, <2>10 DEF EngineInv
    <3> QED BY <1>0, <2>6, <2>10, <3>1, <3>3, <3>4, <3>5 DEF EngineInv
  <2>15. KnownInv'
    <3>1. \A s \in Known : s.id <= readings /\ s.sequence <= readings
      BY <1>0 DEF KnownInv
    <3>2. engine.next <= readings + 1
      BY <1>0 DEF EngineInv
    <3>3. \A s \in Known \cup {new} : s.id <= readings' /\ s.sequence <= readings'
      BY <1>0, <2>6, <2>7, <2>11, <2>12, <3>1, <3>2
    <3>4. \A s \in Known : s.id # new.id
      BY <1>0, <2>11, <2>12, <3>1
    <3>5. \A s \in Known \cup {new}, r \in Known \cup {new} : s.id = r.id => s = r
      BY <1>0, <3>4 DEF KnownInv
    <3> QED BY <2>13, <3>3, <3>5 DEF KnownInv
  <2>16. readings' \in 0..MaxReadings /\ readings' \in Nat
    BY <1>0, <2>6, TelemetryAssumption
  <2>17. ReadyInv' /\ HeardInv'
    <3>1. session'.lastSequence <= readings'
      BY <1>0, <2>6 DEF ReadyInv, Sessions
    <3> QED BY <1>0, <2>6, <2>16, <3>1 DEF ReadyInv, HeardInv
  <2> QED BY <2>6, <2>14, <2>15, <2>16, <2>17 DEF PhoneInv
<1>5. CASE flush
  <2>1. PICK kept : kept = {s \in engine.pending : ~TooOld(s)}
    OBVIOUS
  <2>2. PICK batch : batch = nextBatch(kept)
    OBVIOUS
  <2>3. kept \subseteq engine.pending /\ batch \subseteq kept
    BY <2>1, <2>2 DEF nextBatch
  <2>4. /\ engine' = [engine EXCEPT !.pending = kept, !.awaiting = batch]
        /\ UNCHANGED <<clock, readings, late, session, trace, crossings>>
    BY <1>5, <2>1, <2>2 DEF flush
  <2>5. /\ engine' \in Engines /\ engine'.pending = kept /\ engine'.awaiting = batch
        /\ engine'.next = engine.next
    BY <1>0, <2>3, <2>4 DEF Engines
  <2>6. EngineInv'
    BY <1>0, <2>3, <2>4, <2>5, PartIsNumbered DEF EngineInv
  <2>7. Known' \subseteq Known
    BY <2>3, <2>4, <2>5 DEF Known
  <2> QED BY <2>4, <2>6, <2>7, ServerRests
<1>6. CASE RequestFails
  <2>1. /\ engine' = [engine EXCEPT !.awaiting = {}]
        /\ late' \in {late, engine.awaiting}
        /\ UNCHANGED <<clock, readings, session, trace, crossings>>
    BY <1>6 DEF RequestFails
  <2>2. /\ engine' \in Engines /\ engine'.pending = engine.pending /\ engine'.awaiting = {}
        /\ engine'.next = engine.next
    BY <1>0, <2>1 DEF Engines
  <2>3. late' \in SUBSET Samples /\ Numbered(late')
    <3>1. Numbered(engine.awaiting)
      BY <1>0, PartIsNumbered DEF EngineInv
    <3> QED BY <1>0, <2>1, <3>1 DEF EngineInv, Engines
  <2>4. EngineInv'
    BY <1>0, <2>1, <2>2, <2>3 DEF EngineInv, Numbered
  <2>5. Known' \subseteq Known
    BY <2>1, <2>2 DEF Known
  <2> QED BY <2>1, <2>4, <2>5, ServerRests
<1>13. CASE RequestRefused
  <2>1. PICK left : left = {s \in engine.pending :
                              \A r \in engine.awaiting : r.sequence # s.sequence}
    OBVIOUS
  <2>2. /\ engine' = [engine EXCEPT !.awaiting = {}, !.pending = left]
        /\ UNCHANGED <<clock, readings, late, session, trace, crossings>>
    BY <1>0, <1>13, <2>1 DEF RequestRefused, acknowledge, Engines
  <2>3. left \subseteq engine.pending
    BY <2>1
  <2>4. /\ engine' \in Engines /\ engine'.pending = left /\ engine'.awaiting = {}
        /\ engine'.next = engine.next
    BY <1>0, <2>2, <2>3 DEF Engines
  <2>5. EngineInv'
    BY <1>0, <2>2, <2>3, <2>4, PartIsNumbered DEF EngineInv, Numbered
  <2>6. Known' \subseteq Known
    BY <2>2, <2>3, <2>4 DEF Known
  <2> QED BY <2>2, <2>5, <2>6, ServerRests
(* What a batch leaves for the invariant.                                  *)
<1>7. ASSUME NEW batch \in SUBSET Known, batch # {}, ingest(batch),
             UNCHANGED <<clock, readings>>, EngineInv',
             engine'.pending \cup engine'.awaiting \cup late' \subseteq Known
      PROVE  PhoneInv'
  <2>1. /\ session' \in Sessions /\ trace' \in Seq(Samples) /\ crossings' \in Seq(Crossings)
        /\ session'.lastSequence <= readings
        /\ StoredInv(session', trace', crossings')
        /\ session'.status = session.status
        /\ HeardInv'
        /\ \A s \in batch : s.sequence <= session'.lastSequence
        /\ {trace'[i] : i \in 1..Len(trace')} \subseteq Known
    BY <1>7, IngestFacts
  <2>2. ReadyInv'
    BY <1>0, <1>7, <2>1 DEF ReadyInv
  <2>3. Known' \subseteq Known
    BY <1>7, <2>1 DEF Known
  <2>4. KnownInv'
    BY <1>0, <1>7, <2>3, KnownStays
  <2> QED BY <1>7, <2>1, <2>2, <2>4 DEF PhoneInv
<1>8. CASE Answer
  <2>1. CASE acceptsTelemetry(session.status)
    <3>1. PICK batch : batch = engine.awaiting
      OBVIOUS
    <3>2. /\ batch # {} /\ ingest(batch) /\ engine' = acknowledge(engine, batch)
          /\ UNCHANGED <<clock, readings, late>>
      BY <1>8, <2>1, <3>1 DEF Answer
    <3>3. PICK left : left = {s \in engine.pending : \A r \in batch : r.sequence # s.sequence}
      OBVIOUS
    <3>4. engine' = [engine EXCEPT !.awaiting = {}, !.pending = left]
      BY <1>0, <3>2, <3>3 DEF acknowledge, Engines
    <3>5. left \subseteq engine.pending
      BY <3>3
    <3>6. /\ engine' \in Engines /\ engine'.pending = left /\ engine'.awaiting = {}
          /\ engine'.next = engine.next
      BY <1>0, <3>4, <3>5 DEF Engines
    <3>7. EngineInv'
      BY <1>0, <3>2, <3>5, <3>6, PartIsNumbered DEF EngineInv, Numbered
    <3>8. batch \in SUBSET Known
      BY <3>1 DEF Known
    <3>9. engine'.pending \cup engine'.awaiting \cup late' \subseteq Known
      BY <3>2, <3>5, <3>6 DEF Known
    <3> QED BY <1>7, <3>2, <3>7, <3>8, <3>9
  <2>2. CASE ~acceptsTelemetry(session.status)
    BY <1>2, <1>8, <2>2 DEF Answer
  <2> QED BY <2>1, <2>2
<1>9. CASE DeliverLate
  <2>1. /\ late # {} /\ late' = {} /\ UNCHANGED <<clock, readings, engine>>
    BY <1>9 DEF DeliverLate
  <2>2. EngineInv'
    BY <1>0, <2>1 DEF EngineInv, Numbered
  <2>3. CASE acceptsTelemetry(session.status)
    <3>1. ingest(late)
      BY <1>9, <2>3 DEF DeliverLate
    <3>2. late \in SUBSET Known
      BY DEF Known
    <3>3. engine'.pending \cup engine'.awaiting \cup late' \subseteq Known
      BY <2>1 DEF Known
    <3> QED BY <1>7, <2>1, <2>2, <3>1, <3>2, <3>3
  <2>4. CASE ~acceptsTelemetry(session.status)
    <3>1. UNCHANGED <<session, trace, crossings>>
      BY <1>9, <2>4 DEF DeliverLate
    <3>2. Known' \subseteq Known
      BY <2>1, <3>1 DEF Known
    <3> QED BY <2>1, <2>2, <3>1, <3>2, ServerRests
  <2> QED BY <2>3, <2>4
<1>10. CASE CheckIn
  <2>1. PICK side : side = session.fence.current
    OBVIOUS
  <2>2. session' = [session EXCEPT !.status = "ACTIVE", !.activatedAt = clock,
                                   !.activationFence = side]
    BY <1>10, <2>1 DEF CheckIn
  <2>3. side \in Conclusive \cup {"UNKNOWN"} /\ "ACTIVE" \in SAFETY_SESSION_STATUSES
    BY <1>0, <2>1 DEF Sessions, Fences, SAFETY_SESSION_STATUSES
  <2>4. session' \in Sessions
    BY <1>0, <2>2, <2>3 DEF Sessions
  <2>5. /\ session'.lastSequence = session.lastSequence /\ session'.last = session.last
        /\ session'.fence = session.fence /\ session'.heardAt = session.heardAt
    BY <1>0, <2>2 DEF Sessions
  <2>6. UNCHANGED <<clock, readings, engine, late, trace, crossings>>
    BY <1>10 DEF CheckIn
  <2> QED BY <2>4, <2>5, <2>6, EngineRests
<1>11. CASE CheckOut
  <2>1. /\ session' = [session EXCEPT !.status = "CLOSED"]
        /\ UNCHANGED <<clock, readings, engine, late, trace, crossings>>
    BY <1>11 DEF CheckOut
  <2>2. session' \in Sessions
    BY <1>0, <2>1 DEF Sessions, SAFETY_SESSION_STATUSES
  <2>3. /\ session'.lastSequence = session.lastSequence /\ session'.last = session.last
        /\ session'.fence = session.fence /\ session'.heardAt = session.heardAt
    BY <1>0, <2>1 DEF Sessions
  <2> QED BY <2>1, <2>2, <2>3, EngineRests
<1>12. CASE Tick
  <2>1. clock' \in Moments /\ UNCHANGED <<readings, engine, late, session, trace, crossings>>
    BY <1>12 DEF Tick
  <2>2. clock' \in Nat
    BY <2>1, TelemetryAssumption
  <2>3. ReadyInv' /\ HeardInv' /\ EngineInv' /\ KnownInv'
    BY <1>0, <2>1, <2>2 DEF ReadyInv, HeardInv, EngineInv, KnownInv, Known
  <2> QED BY <2>1, <2>3 DEF PhoneInv
<1> QED BY <1>1, <1>3, <1>4, <1>5, <1>6, <1>8, <1>9, <1>10, <1>11, <1>12, <1>13 DEF Next
-----------------------------------------------------------------------------
(* What follows from the invariant.                                        *)

(* A fix that is observed at a side proves this side.                      *)
LEMMA ObservedIsProved ==
  ASSUME NEW fix
  PROVE  /\ Side(fix) \in Conclusive \cup {"NONE"}
         /\ evaluateGeofence(fix) \in Conclusive => evaluateGeofence(fix) = Side(fix)
BY DEF evaluateGeofence, Side, Conclusive

LEMMA PhoneIsTyped == PhoneInv => TypeOK
<1> SUFFICES ASSUME PhoneInv PROVE TypeOK
  OBVIOUS
<1>1. engine \in Engines /\ session \in Sessions
  BY DEF PhoneInv, EngineInv, ReadyInv
<1>2. engine.number \in 0..MaxEngines /\ engine.phase \in {"idle", "running", "stopped"}
  BY <1>1 DEF Engines
<1>3. /\ session.status \in SAFETY_SESSION_STATUSES
      /\ session.speedRejections \in 0..(ReanchorAfter - 1)
      /\ session.fence.count \in 0..(DebounceSamples - 1)
  BY <1>1 DEF Sessions, Fences
<1> QED BY <1>2, <1>3 DEF PhoneInv, EngineInv, TypeOK

LEMMA PhoneIsChronological == PhoneInv => TraceIsChronological
<1> SUFFICES ASSUME PhoneInv PROVE TraceIsChronological
  OBVIOUS
<1>1. /\ trace \in Seq(Samples) /\ AnchorInv(session, trace) /\ KnownInv
  BY DEF PhoneInv, ReadyInv, StoredInv
<1>2. DOMAIN trace = 1..Len(trace) /\ Len(trace) \in Nat
  BY <1>1
<1>3. ASSUME NEW i \in DOMAIN trace, NEW j \in DOMAIN trace, i < j
      PROVE  /\ trace[i].sequence < trace[j].sequence
             /\ trace[i].at < trace[j].at
             /\ trace[i].id # trace[j].id
  <2>1. trace[i].sequence < trace[j].sequence /\ trace[i].at < trace[j].at
    BY <1>1, <1>2, <1>3 DEF AnchorInv
  <2>2. trace[i] \in Samples /\ trace[j] \in Samples
    BY <1>1
  <2>3. trace[i] # trace[j]
    BY <2>1, <2>2 DEF Samples
  <2>4. trace[i] \in Known /\ trace[j] \in Known
    BY <1>2 DEF Known
  <2> QED BY <1>1, <2>1, <2>3, <2>4 DEF KnownInv
<1>4. trace # <<>> => trace[Len(trace)] = session.last
  BY <1>1, <1>2 DEF AnchorInv
<1> QED BY <1>3, <1>4 DEF TraceIsChronological

LEMMA PhoneFollowsTrace == PhoneInv => FenceFollowsTrace
<1> SUFFICES ASSUME PhoneInv PROVE FenceFollowsTrace
  OBVIOUS
<1> DEFINE RowAt(i) ==
             /\ i >= DebounceSamples /\ Side(trace[i].fix) # "NONE"
             /\ \A k \in (i - DebounceSamples + 1)..i :
                  evaluateGeofence(trace[k].fix) = Side(trace[i].fix)
           n == Len(trace)
<1>1. /\ trace \in Seq(Samples) /\ LastRowInv(session.fence.current, Seen(trace), n)
      /\ DOMAIN trace = 1..n /\ n \in Nat /\ DebounceSamples \in Nat \ {0}
  BY GeofenceAssumption DEF PhoneInv, ReadyInv, StoredInv
<1>2. PICK seen : seen = Seen(trace)
  OBVIOUS
<1>3. \A i \in 1..n : seen[i] = evaluateGeofence(trace[i].fix)
  BY <1>2 DEF Seen
<1>4. \A i \in 1..n : /\ IsRow(seen, i) <=> RowAt(i)
                      /\ IsRow(seen, i) => seen[i] = Side(trace[i].fix)
  <2>1. TAKE i \in 1..n
  <2>2. i >= DebounceSamples => /\ i \in (i - DebounceSamples + 1)..i
                                /\ (i - DebounceSamples + 1)..i \subseteq 1..n
    BY <1>1
  <2>3. seen[i] \in Conclusive => seen[i] = Side(trace[i].fix) /\ Side(trace[i].fix) # "NONE"
    BY <1>3, ObservedIsProved DEF Conclusive
  <2>4. IsRow(seen, i) => RowAt(i) /\ seen[i] = Side(trace[i].fix)
    BY <1>3, <2>2, <2>3 DEF IsRow
  <2>5. RowAt(i) => IsRow(seen, i)
    <3>1. SUFFICES ASSUME RowAt(i) PROVE IsRow(seen, i)
      OBVIOUS
    <3>2. seen[i] = Side(trace[i].fix) /\ seen[i] \in Conclusive
      BY <1>3, <2>2, <3>1, ObservedIsProved
    <3> QED BY <1>3, <2>2, <3>1, <3>2 DEF IsRow
  <2> QED BY <2>4, <2>5
<1>5. PICK rows : rows = {i \in DOMAIN trace : RowAt(i)}
  OBVIOUS
<1>6. \A i : i \in rows <=> i \in 1..n /\ IsRow(seen, i)
  BY <1>1, <1>4, <1>5
<1>7. CASE session.fence.current = "UNKNOWN" /\ \A i \in 1..n : ~IsRow(seen, i)
  <2>1. rows = {}
    BY <1>6, <1>7
  <2> QED BY <1>5, <1>7, <2>1 DEF FenceFollowsTrace
<1>8. CASE \E i \in 1..n : /\ IsRow(seen, i) /\ session.fence.current = seen[i]
                           /\ \A j \in (i + 1)..n : ~IsRow(seen, j)
  <2>1. PICK i \in 1..n : /\ IsRow(seen, i) /\ session.fence.current = seen[i]
                          /\ \A j \in (i + 1)..n : ~IsRow(seen, j)
    BY <1>8
  <2>2. i \in rows /\ \A j \in rows : j <= i
    <3>1. \A j \in 1..n : j <= i \/ j \in (i + 1)..n
      BY <1>1
    <3> QED BY <1>6, <2>1, <3>1
  <2>3. \A j \in rows : (\A k \in rows : k <= j) => j = i
    <3>1. \A j \in rows : j \in Nat
      BY <1>1, <1>6
    <3> QED BY <2>2, <3>1
  <2>4. PICK last : last = CHOOSE j \in rows : \A k \in rows : k <= j
    OBVIOUS
  <2>5. last = i
    BY <2>2, <2>3, <2>4
  <2>6. session.fence.current = Side(trace[last].fix) /\ rows # {}
    BY <1>4, <2>1, <2>2, <2>5
  <2> QED BY <1>5, <2>4, <2>6 DEF FenceFollowsTrace
<1> QED BY <1>1, <1>2, <1>7, <1>8 DEF LastRowInv

LEMMA PhoneTellsTheFence == PhoneInv => CrossingsTellTheFence
<1> SUFFICES ASSUME PhoneInv PROVE CrossingsTellTheFence
  OBVIOUS
<1>1. crossings \in Seq(Crossings) /\ CrossingsInv(session.fence.current, crossings)
  BY DEF PhoneInv, ReadyInv, StoredInv
<1>2. DOMAIN crossings = 1..Len(crossings)
  BY <1>1
<1> QED BY <1>1, <1>2 DEF CrossingsInv, CrossingsTellTheFence

(* Whatever the phone and the network do, the trace is in order, holds no  *)
(* reading twice, and the fence and its crossings follow from it.          *)
THEOREM TelemetryStaysInOrder == Spec => []TelemetryInv
<1>1. PhoneInv /\ UNCHANGED vars => PhoneInv'
  BY DEF vars, PhoneInv, ReadyInv, HeardInv, EngineInv, KnownInv, Known, Numbered
<1>2. PhoneInv => TelemetryInv
  BY PhoneIsTyped, PhoneIsChronological, PhoneFollowsTrace, PhoneTellsTheFence
     DEF TelemetryInv
<1> QED BY <1>1, <1>2, PhoneInit, PhoneStep, PTL DEF Spec

(* A sample that leaves the buffer of an engine that runs on was too old,  *)
(* its number is used up, or its request was refused.                      *)
LEMMA BufferStep ==
  ASSUME PhoneInv, Next, engine'.phase = "running", engine'.number = engine.number,
         NEW s \in engine.pending
  PROVE  \/ s \in engine'.pending \/ TooOld(s)
         \/ s.sequence <= session'.lastSequence
         \/ s \in refused'
<1>0. engine \in Engines
  BY DEF PhoneInv, EngineInv
<1>1. CASE StartEngine
  <2>1. engine'.number = engine.number + 1
    BY <1>1 DEF StartEngine, NoEngine
  <2> QED BY <1>0, <2>1 DEF Engines
<1>2. ASSUME engine' = Stopped PROVE FALSE
  BY <1>2 DEF Stopped, NoEngine
<1>3. CASE StopEngine
  BY <1>2, <1>3 DEF StopEngine
<1>4. CASE record
  <2>1. engine.pending \subseteq engine'.pending
    <3>1. PICK fix \in Fixes :
            engine' = [engine EXCEPT
              !.next = @ + 1, !.recordedAt = clock + fix.ahead,
              !.pending = @ \cup {[sequence |-> engine.next, id |-> readings + 1,
                                   at |-> clock + fix.ahead, fix |-> fix]}]
      BY <1>4 DEF record
    <3> QED BY <1>0, <3>1 DEF Engines
  <2> QED BY <2>1
<1>5. CASE flush
  <2>1. engine'.pending = {r \in engine.pending : ~TooOld(r)}
    BY <1>0, <1>5 DEF flush, Engines
  <2> QED BY <2>1
<1>6. CASE RequestFails
  BY <1>0, <1>6 DEF RequestFails, Engines
<1>7. CASE Answer
  <2>1. CASE acceptsTelemetry(session.status)
    <3>1. PICK batch : batch = engine.awaiting
      OBVIOUS
    <3>2. batch # {} /\ ingest(batch) /\ engine' = acknowledge(engine, batch)
      BY <1>7, <2>1, <3>1 DEF Answer
    <3>3. engine'.pending = {r \in engine.pending : \A q \in batch : q.sequence # r.sequence}
      BY <1>0, <3>2 DEF acknowledge, Engines
    <3>4. batch \in SUBSET Known
      BY <3>1 DEF Known
    <3>5. \A q \in batch : q.sequence <= session'.lastSequence
      BY <3>2, <3>4, IngestFacts
    <3> QED BY <3>3, <3>5
  <2>2. CASE ~acceptsTelemetry(session.status)
    BY <1>2, <1>7, <2>2 DEF Answer
  <2> QED BY <2>1, <2>2
<1>8. CASE DeliverLate \/ CheckIn \/ CheckOut \/ Tick
  BY <1>8 DEF DeliverLate, CheckIn, CheckOut, Tick
(* The numbers of the buffer are all different, so that those of a batch   *)
(* are those of its samples.                                               *)
<1>9. CASE RequestRefused
  <2>1. PICK batch : batch = engine.awaiting
    OBVIOUS
  <2>2. /\ engine'.pending = {r \in engine.pending : \A q \in batch : q.sequence # r.sequence}
        /\ \A q \in batch : q \in refused'
    BY <1>0, <1>9, <2>1 DEF RequestRefused, acknowledge, Engines
  <2>3. \A q \in batch : q.sequence = s.sequence => q = s
    BY <2>1 DEF PhoneInv, EngineInv, Numbered
  <2> QED BY <2>2, <2>3
<1> QED BY <1>1, <1>3, <1>4, <1>5, <1>6, <1>7, <1>8, <1>9 DEF Next

(* No sample is forgotten: it stays in the buffer until its number is used *)
(* up at the server, until it is too old to be accepted, or until the      *)
(* server has refused the request it was in.                               *)
THEOREM NothingGetsForgotten == Spec => NothingIsForgotten
<1>1. PhoneInv /\ UNCHANGED vars => PhoneInv'
  BY DEF vars, PhoneInv, ReadyInv, HeardInv, EngineInv, KnownInv, Known, Numbered
<1>2. PhoneInv /\ [Next]_vars =>
        (engine'.phase = "running" /\ engine'.number = engine.number =>
           \A s \in engine.pending :
             \/ s \in engine'.pending \/ TooOld(s)
             \/ s.sequence <= session'.lastSequence
             \/ s \in refused')
  BY BufferStep DEF vars
<1> QED BY <1>1, <1>2, PhoneInit, PhoneStep, PTL DEF Spec, NothingIsForgotten

(* The rule of silence alarms however it is silent: nothing was heard that *)
(* is not as old as its sample and the tolerance.                          *)
LEMMA PhoneAlarms == PhoneInv => UnheardIsAlarming
<1> DEFINE heard == {trace[i].at : i \in DOMAIN trace}
<1> SUFFICES ASSUME PhoneInv, acceptsTelemetry(session.status),
                    \A at \in heard : clock - at >= telemetryGapHighRisk + MaxAge,
                    clock >= session.monitoredFrom + telemetryGapHighRisk
             PROVE  RiskNow(Unknown) = "HIGH_RISK"
  BY DEF UnheardIsAlarming
<1>1. /\ session \in Sessions /\ trace \in Seq(Samples) /\ AnchorInv(session, trace)
      /\ HeardInv /\ clock \in Nat /\ MaxAge \in Nat
  BY TelemetryAssumption DEF PhoneInv, ReadyInv, StoredInv
<1>2. PICK signals : signals = withRoute(buildSignals(session, trace, clock), Unknown)
  OBVIOUS
<1>3. PICK silence : silence = IF session.heardAt # Unknown THEN Larger(0, clock - session.heardAt)
                               ELSE Larger(0, clock - session.monitoredFrom)
  OBVIOUS
<1>4. session.monitoredFrom = 0 /\ session.heardAt \in Nat \cup {Unknown}
  BY <1>1 DEF Sessions
<1>5. silence >= telemetryGapHighRisk /\ silence >= telemetryGapWarning
  <2>1. CASE session.heardAt = Unknown
    BY <1>1, <1>3, <1>4, <2>1 DEF Larger, telemetryGapHighRisk, telemetryGapWarning
  <2>2. CASE session.heardAt # Unknown
    <3>1. trace # <<>> /\ session.last.at + MaxAge >= session.heardAt
      BY <1>1, <2>2 DEF HeardInv
    <3>2. Len(trace) \in DOMAIN trace /\ Len(trace) # 0 /\ trace[Len(trace)] \in Samples
      BY <1>1, <3>1
    <3>3. session.last = trace[Len(trace)]
      BY <1>1, <3>2 DEF AnchorInv
    <3>4. session.last.at \in Nat /\ session.last.at \in heard
      BY <3>2, <3>3 DEF Samples
    <3>5. PICK at : at = session.last.at
      OBVIOUS
    <3>6. PICK then : then = session.heardAt
      OBVIOUS
    <3>7. /\ at \in Nat /\ then \in Nat /\ at + MaxAge >= then
          /\ clock - at >= telemetryGapHighRisk + MaxAge
      BY <1>4, <2>2, <3>1, <3>4, <3>5, <3>6
    <3>8. silence = Larger(0, clock - then)
      BY <1>3, <2>2, <3>6
    <3> QED BY <1>1, <3>7, <3>8 DEF Larger, telemetryGapHighRisk, telemetryGapWarning
  <2> QED BY <2>1, <2>2
<1>6. signals.session = session /\ signals.silence = silence
  <2>1. PICK before : before = buildSignals(session, trace, clock)
    OBVIOUS
  <2>2. before.session = session /\ before.silence = silence
    BY <1>3, <1>4, <2>1 DEF buildSignals, Unknown
  <2> QED BY <1>2, <2>1, <2>2 DEF withRoute, buildSignals
<1>7. TelemetryGap(signals)
  BY <1>5, <1>6 DEF TelemetryGap, Arriving, acceptsTelemetry
<1>8. PICK f : f = [rule |-> "R03", family |-> "TELEMETRY", severity |-> "HIGH_RISK"]
  OBVIOUS
<1>9. f \in evaluateRules(signals)
  <2>1. Graded(signals.silence >= telemetryGapHighRisk) = "HIGH_RISK"
    BY <1>5, <1>6 DEF Graded
  <2>2. f \in Found("R03", "TELEMETRY", Graded(signals.silence >= telemetryGapHighRisk),
                    TelemetryGap(signals))
    BY <1>7, <1>8, <2>1 DEF Found
  <2> QED BY <2>2 DEF evaluateRules
<1>10. f.severity = "HIGH_RISK"
  BY <1>8
<1> QED BY <1>2, <1>9, <1>10 DEF RiskNow, ObservedRisk

(* Two of the rules are about the place.                                   *)
LEMMA OnlyTwoLocate ==
  ASSUME NEW s, NEW f \in evaluateRules(s), f.family = "LOCATION"
  PROVE  UnexpectedExit(s) \/ CheckinOutsideGeofence(s)
<1>1. ASSUME NEW rule, NEW family, NEW severity, NEW found,
             f \in Found(rule, family, severity, found)
      PROVE  f.family = family /\ found
  BY <1>1 DEF Found
<1>2. \/ f \in Found("R01", "ARRIVAL", "WARNING", MissedArrival(s))
      \/ f \in Found("R02", "LOCATION", Graded(Outside(s) > geofenceExitHighRisk),
                     UnexpectedExit(s))
      \/ f \in Found("R03", "TELEMETRY", Graded(s.silence >= telemetryGapHighRisk),
                     TelemetryGap(s))
      \/ f \in Found("R04", "DURATION", "WARNING", DurationOverrun(s))
      \/ f \in Found("R05", "INTEGRITY", "WARNING", TelemetryIntegrity(s))
      \/ f \in Found("R06", "INTEGRITY", "WARNING", MockLocation(s))
      \/ f \in Found("R07", "ACTIVITY", "WARNING", StalledEnRoute(s))
      \/ f \in Found("R08", "ARRIVAL", "WARNING", ProjectedLateArrival(s))
      \/ f \in Found("R09", "ARRIVAL", "WARNING", MovingAway(s))
      \/ f \in Found("R10", "LOCATION", "WARNING", CheckinOutsideGeofence(s))
  BY DEF evaluateRules
<1> QED BY <1>1, <1>2

(* An alarm about the place rests on the last sample that told a side.     *)
LEMMA PhoneHasEvidence == PhoneInv => LocationAlarmHasEvidence
<1> SUFFICES ASSUME PhoneInv,
                    \E f \in evaluateRules(buildSignals(session, trace, clock)) :
                      f.family = "LOCATION"
             PROVE  \E i \in DOMAIN trace :
                      /\ Side(trace[i].fix) = "OUTSIDE"
                      /\ trace[i].at >= clock - geofenceEvidenceMaxAge
                      /\ \A j \in DOMAIN trace : j > i => Side(trace[j].fix) = "NONE"
  BY DEF LocationAlarmHasEvidence
<1>1. trace \in Seq(Samples) /\ clock \in Nat
  BY DEF PhoneInv, ReadyInv
<1>2. PICK signals : signals = buildSignals(session, trace, clock)
  OBVIOUS
<1>3. PICK f \in evaluateRules(signals) : f.family = "LOCATION"
  BY <1>2
<1>4. UnexpectedExit(signals) \/ CheckinOutsideGeofence(signals)
  BY <1>3, OnlyTwoLocate
<1>5. freshOutsideEvidence(signals)
  BY <1>4 DEF UnexpectedExit, CheckinOutsideGeofence
<1>6. PICK summary : summary = summarizeTrace(trace).conclusive
  OBVIOUS
<1>7. signals.evidenceSide = summary.side
  BY <1>2, <1>6 DEF buildSignals
<1>8. signals.evidenceAge = IF summary.at = Unknown THEN Unknown ELSE Larger(0, clock - summary.at)
  BY <1>2, <1>6 DEF buildSignals
<1>9. summary.side = "OUTSIDE"
  BY <1>5, <1>7 DEF freshOutsideEvidence
<1>10. summary = lastConclusive(trace)
  BY <1>6, <1>9 DEF summarizeTrace
<1>11. PICK proved : proved = {i \in DOMAIN trace : Side(trace[i].fix) # "NONE"}
  OBVIOUS
<1>12. proved # {}
  BY <1>9, <1>10, <1>11 DEF lastConclusive
<1>13. \E i \in proved : \A j \in proved : j <= i
  <2>1. Len(trace) \in Nat /\ proved \in SUBSET (0..Len(trace))
    BY <1>1, <1>11
  <2>2. Max(proved) \in proved /\ \A j \in proved : j <= Max(proved)
    BY <1>12, <2>1, MaxIsGreatest
  <2> QED BY <2>2, Zenon
<1>14. PICK last \in proved : /\ \A j \in proved : j <= last
                              /\ summary = [side |-> Side(trace[last].fix), at |-> trace[last].at]
  BY <1>10, <1>11, <1>12, <1>13 DEF lastConclusive
<1>15. Side(trace[last].fix) = "OUTSIDE" /\ summary.at = trace[last].at
  BY <1>9, <1>14
<1>16. last \in DOMAIN trace /\ trace[last].at \in Nat
  <2>1. last \in DOMAIN trace
    BY <1>11, <1>14
  <2>2. trace[last] \in Samples
    BY <1>1, <2>1
  <2> QED BY <2>1, <2>2 DEF Samples
<1>17. trace[last].at >= clock - geofenceEvidenceMaxAge
  <2>1. signals.evidenceAge = Larger(0, clock - trace[last].at)
    BY <1>8, <1>15, <1>16 DEF Unknown
  <2>2. Larger(0, clock - trace[last].at) <= geofenceEvidenceMaxAge
    BY <1>5, <2>1 DEF freshOutsideEvidence, geofenceEvidenceMaxAge
  <2> QED BY <1>1, <1>16, <2>2 DEF Larger, geofenceEvidenceMaxAge
<1>18. \A j \in DOMAIN trace : j > last => Side(trace[j].fix) = "NONE"
  <2>1. \A j \in DOMAIN trace : j > last => ~(j <= last)
    BY <1>1, <1>16
  <2> QED BY <1>11, <1>14, <2>1
<1> QED BY <1>15, <1>16, <1>17, <1>18

(* However the phone is silent it is noticed, and no place alarms without  *)
(* a recent sample that lies outside.                                      *)
THEOREM AlarmsStayGrounded == Spec => []AlarmsAreGrounded
<1>1. PhoneInv /\ UNCHANGED vars => PhoneInv'
  BY DEF vars, PhoneInv, ReadyInv, HeardInv, EngineInv, KnownInv, Known, Numbered
<1>2. PhoneInv => AlarmsAreGrounded
  BY PhoneAlarms, PhoneHasEvidence DEF AlarmsAreGrounded
<1> QED BY <1>1, <1>2, PhoneInit, PhoneStep, PTL DEF Spec
=============================================================================
