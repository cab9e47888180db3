------------------------- MODULE EventDeliveryProofs -------------------------
(***************************************************************************)
(* An event is stored once, what is acknowledged is stored and no line of  *)
(* the log is lost from sight, for any number of lines, requests, retries  *)
(* and crashes.                                                            *)
(***************************************************************************)
EXTENDS EventDelivery, SequenceTheorems, FiniteSetTheorems, TLAPS

-----------------------------------------------------------------------------
(* The beginning and the rest of a sequence.                               *)

LEMMA PrefixIs ==
  ASSUME NEW S, NEW s \in Seq(S), NEW n \in Nat
  PROVE  /\ Prefix(s, n) \in Seq(S) /\ Len(Prefix(s, n)) = (IF n < Len(s) THEN n ELSE Len(s))
         /\ \A i \in 1..Len(Prefix(s, n)) : Prefix(s, n)[i] = s[i]
<1>1. Len(s) \in Nat /\ \A i \in 1..Len(s) : s[i] \in S
  BY LenProperties
<1>2. DEFINE m == IF n < Len(s) THEN n ELSE Len(s)
<1>3. m \in Nat /\ m <= Len(s) /\ Prefix(s, n) = SubSeq(s, 1, m)
  BY <1>1 DEF Prefix
<1> HIDE DEF m
<1>4. /\ SubSeq(s, 1, m) \in Seq(S) /\ Len(SubSeq(s, 1, m)) = (IF 1 <= m THEN m - 1 + 1 ELSE 0)
      /\ \A i \in 1..(m - 1 + 1) : SubSeq(s, 1, m)[i] = s[1 + i - 1]
  BY <1>1, <1>3, SubSeqProperties
<1>5. /\ Prefix(s, n) \in Seq(S) /\ Len(Prefix(s, n)) = m
      /\ \A i \in 1..m : Prefix(s, n)[i] = s[i]
  BY <1>1, <1>3, <1>4
<1>6. QED
  BY <1>5 DEF m

LEMMA SuffixIs ==
  ASSUME NEW S, NEW s \in Seq(S), NEW n \in Nat
  PROVE  /\ Suffix(s, n) \in Seq(S) /\ Len(Suffix(s, n)) = (IF n < Len(s) THEN Len(s) - n ELSE 0)
         /\ \A i \in 1..Len(Suffix(s, n)) : Suffix(s, n)[i] = s[n + i] /\ n + i \in 1..Len(s)
<1>1. Len(s) \in Nat /\ \A i \in 1..Len(s) : s[i] \in S
  BY LenProperties
<1>2. n + 1 \in Int /\ Len(s) \in Int /\ \A i \in (n + 1)..Len(s) : s[i] \in S
  BY <1>1
<1>3. /\ SubSeq(s, n + 1, Len(s)) \in Seq(S)
      /\ Len(SubSeq(s, n + 1, Len(s))) = (IF n + 1 <= Len(s) THEN Len(s) - (n + 1) + 1 ELSE 0)
      /\ \A i \in 1..(Len(s) - (n + 1) + 1) : SubSeq(s, n + 1, Len(s))[i] = s[n + 1 + i - 1]
  BY <1>2, SubSeqProperties
<1>4. DEFINE u == SubSeq(s, n + 1, Len(s))
<1>5. u = Suffix(s, n)
  BY DEF Suffix
<1> HIDE DEF u
<1>6. Len(u) = (IF n < Len(s) THEN Len(s) - n ELSE 0) /\ u \in Seq(S)
  BY <1>1, <1>3 DEF u
<1>7. ASSUME NEW i \in 1..Len(u)
      PROVE  u[i] = s[n + i] /\ n + i \in 1..Len(s)
  <2>1. i \in 1..(Len(s) - (n + 1) + 1) /\ n + 1 + i - 1 = n + i /\ n + i \in 1..Len(s)
    BY <1>1, <1>6
  <2>2. QED
    BY <1>3, <2>1 DEF u
<1>8. QED
  BY <1>5, <1>6, <1>7

LEMMA LinesOfIs ==
  ASSUME NEW S, NEW s \in Seq(S)
  PROVE  /\ LinesOf(s) \subseteq S /\ LinesOf(s) = {s[i] : i \in 1..Len(s)}
         /\ s = <<>> => LinesOf(s) = {}
<1>1. DOMAIN s = 1..Len(s) /\ \A i \in 1..Len(s) : s[i] \in S
  BY LenProperties
<1>2. s = <<>> => Len(s) = 0
  BY EmptySeq
<1>3. QED
  BY <1>1, <1>2 DEF LinesOf

LEMMA SplitLines ==
  ASSUME NEW S, NEW s \in Seq(S), NEW n \in Nat
  PROVE  LinesOf(s) = LinesOf(Prefix(s, n)) \cup LinesOf(Suffix(s, n))
<1>1. DEFINE a == Prefix(s, n)
             b == Suffix(s, n)
<1>2. /\ a \in Seq(S) /\ Len(a) = (IF n < Len(s) THEN n ELSE Len(s)) /\ \A i \in 1..Len(a) : a[i] = s[i]
  BY PrefixIs
<1>3. /\ b \in Seq(S) /\ Len(b) = (IF n < Len(s) THEN Len(s) - n ELSE 0)
      /\ \A i \in 1..Len(b) : b[i] = s[n + i] /\ n + i \in 1..Len(s)
  BY SuffixIs
<1> HIDE DEF a, b
<1>4. Len(s) \in Nat
  BY LenProperties
<1>5. /\ LinesOf(s) = {s[i] : i \in 1..Len(s)} /\ LinesOf(a) = {a[i] : i \in 1..Len(a)}
      /\ LinesOf(b) = {b[i] : i \in 1..Len(b)}
  BY <1>2, <1>3, LinesOfIs
<1>6. LinesOf(a) \subseteq LinesOf(s) /\ LinesOf(b) \subseteq LinesOf(s)
  <2>1. 1..Len(a) \subseteq 1..Len(s)
    BY <1>2, <1>4
  <2>2. LinesOf(a) \subseteq LinesOf(s)
    BY <1>2, <1>5, <2>1
  <2>3. LinesOf(b) \subseteq LinesOf(s)
    BY <1>3, <1>5
  <2>4. QED
    BY <2>2, <2>3
<1>7. ASSUME NEW i \in 1..Len(s)
      PROVE  s[i] \in LinesOf(a) \cup LinesOf(b)
  <2>1. CASE i <= n
    BY <1>2, <1>4, <1>5, <2>1
  <2>2. CASE i > n
    <3>1. i - n \in 1..Len(b) /\ n + (i - n) = i
      BY <1>3, <1>4, <2>2
    <3>2. b[i - n] = s[i]
      BY <1>3, <3>1
    <3>3. QED
      BY <1>5, <3>1, <3>2
  <2>3. QED
    BY <1>4, <2>1, <2>2
<1>8. QED
  BY <1>5, <1>6, <1>7 DEF a, b

LEMMA JoinedLines ==
  ASSUME NEW S, NEW s \in Seq(S), NEW u \in Seq(S)
  PROVE  s \o u \in Seq(S) /\ LinesOf(s) \cup LinesOf(u) \subseteq LinesOf(s \o u)
<1>1. DEFINE w == s \o u
<1>2. /\ w \in Seq(S) /\ Len(w) = Len(s) + Len(u)
      /\ \A i \in 1..Len(s) + Len(u) : w[i] = IF i <= Len(s) THEN s[i] ELSE u[i - Len(s)]
  BY ConcatProperties
<1>3. Len(s) \in Nat /\ Len(u) \in Nat
  BY LenProperties
<1> HIDE DEF w
<1>4. /\ LinesOf(s) = {s[i] : i \in 1..Len(s)} /\ LinesOf(u) = {u[i] : i \in 1..Len(u)}
      /\ LinesOf(w) = {w[i] : i \in 1..Len(w)}
  BY <1>2, LinesOfIs
<1>5. ASSUME NEW i \in 1..Len(s)
      PROVE  s[i] \in LinesOf(w)
  <2>1. i \in 1..Len(w) /\ w[i] = s[i]
    BY <1>2, <1>3
  <2>2. QED
    BY <1>4, <2>1
<1>6. ASSUME NEW i \in 1..Len(u)
      PROVE  u[i] \in LinesOf(w)
  <2>1. Len(s) + i \in 1..Len(w) /\ ~(Len(s) + i <= Len(s)) /\ (Len(s) + i) - Len(s) = i
    BY <1>2, <1>3
  <2>2. w[Len(s) + i] = u[i]
    BY <1>2, <2>1
  <2>3. QED
    BY <1>4, <2>1, <2>2
<1>7. QED
  BY <1>2, <1>4, <1>5, <1>6 DEF w

LEMMA HeadTailLines ==
  ASSUME NEW S, NEW s \in Seq(S), s # <<>>
  PROVE  /\ Head(s) \in S /\ Tail(s) \in Seq(S) /\ LinesOf(s) = {Head(s)} \cup LinesOf(Tail(s))
<1>1. /\ Head(s) \in S /\ Tail(s) \in Seq(S) /\ Len(Tail(s)) = Len(s) - 1
      /\ \A i \in 1..Len(Tail(s)) : Tail(s)[i] = s[i + 1]
  BY HeadTailProperties
<1>2. Len(s) \in Nat \ {0} /\ Head(s) = s[1]
  BY EmptySeq
<1>3. DEFINE u == Tail(s)
<1> HIDE DEF u
<1>4. /\ LinesOf(s) = {s[i] : i \in 1..Len(s)} /\ LinesOf(u) = {u[i] : i \in 1..Len(u)}
  BY <1>1, LinesOfIs DEF u
<1>5. Len(u) = Len(s) - 1 /\ \A i \in 1..Len(u) : u[i] = s[i + 1]
  BY <1>1 DEF u
<1>6. ASSUME NEW i \in 1..Len(s)
      PROVE  s[i] \in {s[1]} \cup LinesOf(u)
  <2>1. CASE i = 1
    BY <2>1
  <2>2. CASE i # 1
    <3>1. i - 1 \in 1..Len(u) /\ (i - 1) + 1 = i
      BY <1>2, <1>5, <2>2
    <3>2. QED
      BY <1>4, <1>5, <3>1
  <2>3. QED
    BY <2>1, <2>2
<1>7. ASSUME NEW i \in 1..Len(u)
      PROVE  u[i] \in LinesOf(s)
  <2>1. i + 1 \in 1..Len(s)
    BY <1>2, <1>5
  <2>2. QED
    BY <1>4, <1>5, <2>1
<1>8. s[1] \in LinesOf(s)
  BY <1>2, <1>4
<1>9. QED
  BY <1>1, <1>2, <1>4, <1>6, <1>7, <1>8 DEF u

-----------------------------------------------------------------------------
(* Types, and where the agent is.                                          *)

AgentTypes ==
  /\ written \in 0..NumLines /\ start \in 0..written /\ position \in 0..NumLines
  /\ buffer \in Seq(Lines) /\ Len(buffer) <= MaxBuffer
  /\ pc \in {"loop", "flush", "collect", "post", "lastFlush", "down"}
  /\ batch \in Seq(Lines) /\ acked \in 0..Len(batch)
  /\ awaiting \in Slots \cup {None}
  /\ stopping \in BOOLEAN /\ discarded \subseteq Lines /\ missed \subseteq Lines

Requests == [state : {"free", "open", "committed", "done", "failed"},
             todo : Seq(Lines), added : SUBSET Rows]

BackendTypes ==
  /\ redis \in {"up", "down", "back"}
  /\ request \in [Slots -> Requests]
  /\ mark \in [Keys -> Slots \cup {None, "set"}]
  /\ stored \in [Rows -> Nat] /\ notified \subseteq Rows /\ swallowed \subseteq Rows

(* A batch is there while it is sent; what is flushed is still buffered.   *)
Route ==
  /\ awaiting # None => Sending
  /\ ~Sending => batch = <<>>
  /\ pc \in {"flush", "lastFlush"} =>
       \A i \in 1..Len(batch) : i \in 1..Len(buffer) /\ buffer[i] = batch[i]

Typed == TypeOK /\ AgentTypes /\ BackendTypes /\ Route

LEMMA TypesAreTypeOK ==
  ASSUME dedup \in Stores, AgentTypes, BackendTypes, faults \in 0..MaxFaults
  PROVE  TypeOK
BY DEF TypeOK, AgentTypes, BackendTypes, Requests

LEMMA NothingSent ==
  /\ <<>> \in Seq(Lines) /\ Len(<<>>) = 0 /\ LinesOf(<<>>) = {}
  /\ None \in Slots \cup {None} /\ FALSE \in BOOLEAN /\ TRUE \in BOOLEAN
<1>1. <<>> \in Seq(Lines) /\ Len(<<>>) = 0
  BY EmptySeq
<1>2. QED
  BY <1>1, LinesOfIs

LEMMA Bounds ==
  /\ MaxEventsPerCycle \in Nat /\ MaxSendBatch \in Nat /\ MaxDequeue \in Nat /\ MaxBuffer \in Nat
  /\ NumLines \in Nat
BY BatchAssumption, LinesAssumption

LEMMA ChunkIs ==
  ASSUME AgentTypes
  PROVE  /\ Chunk \in Seq(Lines) /\ Len(Chunk) \in Nat /\ acked + Len(Chunk) <= Len(batch)
         /\ \A i \in 1..Len(Chunk) : Chunk[i] = batch[acked + i]
         /\ LinesOf(Chunk) = {Chunk[i] : i \in 1..Len(Chunk)}
<1>1. batch \in Seq(Lines) /\ Len(batch) \in Nat /\ acked \in Nat /\ acked <= Len(batch)
  BY LenProperties DEF AgentTypes
<1>2. DEFINE rest == Suffix(batch, acked)
<1>3. /\ rest \in Seq(Lines) /\ Len(rest) = (IF acked < Len(batch) THEN Len(batch) - acked ELSE 0)
      /\ \A i \in 1..Len(rest) : rest[i] = batch[acked + i]
  BY <1>1, SuffixIs
<1>4. Chunk = Prefix(rest, MaxSendBatch)
  BY DEF Chunk
<1> HIDE DEF rest
<1>5. /\ Chunk \in Seq(Lines) /\ Len(Chunk) = (IF MaxSendBatch < Len(rest) THEN MaxSendBatch ELSE Len(rest))
      /\ \A i \in 1..Len(Chunk) : Chunk[i] = rest[i]
  BY <1>3, <1>4, Bounds, PrefixIs
<1>6. Len(Chunk) \in Nat /\ Len(Chunk) <= Len(rest)
  BY <1>1, <1>3, <1>5, Bounds
<1>7. \A i \in 1..Len(Chunk) : Chunk[i] = batch[acked + i]
  BY <1>1, <1>3, <1>5, <1>6
<1>8. acked + Len(Chunk) <= Len(batch)
  BY <1>1, <1>3, <1>6
<1>9. LinesOf(Chunk) = {Chunk[i] : i \in 1..Len(Chunk)}
  BY <1>5, LinesOfIs
<1>10. QED
  BY <1>5, <1>6, <1>7, <1>8, <1>9

(* What the rest of a sequence is not longer than.                         *)
LEMMA Shorter ==
  ASSUME NEW S, NEW s \in Seq(S), NEW n \in Nat
  PROVE  Len(Suffix(s, n)) <= Len(s) /\ Len(Prefix(s, n)) <= n /\ Len(Prefix(s, n)) <= Len(s)
<1>1. Len(s) \in Nat
  BY LenProperties
<1>2. QED
  BY <1>1, PrefixIs, SuffixIs

(* A request is about a line: its positions in the log are numbers.        *)
LEMMA Numbers ==
  ASSUME AgentTypes
  PROVE  /\ written \in Nat /\ start \in Nat /\ position \in Nat /\ start <= written /\ written <= NumLines
         /\ 1..written \subseteq Lines
BY Bounds DEF AgentTypes, Lines

(* The lines of the log the tailer is past.                                *)
Passed == {l \in 1..written : l <= start + position}

(* The lines the agent has, or dropped, or missed.                         *)
Held == LinesOf(batch) \cup LinesOf(buffer) \cup discarded \cup missed

LEMMA EndTyped ==
  ASSUME AgentTypes, ProcessEnds, UNCHANGED <<written, start>>, buffer' \in Seq(Lines), Len(buffer') <= MaxBuffer,
         discarded' \subseteq Lines
  PROVE  AgentTypes' /\ Route' /\ awaiting' = None /\ acked' = 0 /\ Passed' \subseteq Passed
<1>1. /\ pc' = "down" /\ position' = 0 /\ batch' = <<>> /\ acked' = 0 /\ awaiting' = None /\ stopping' = FALSE
      /\ missed' = missed \cup {l \in LinesOf(batch) \ LinesOf(buffer) : l <= start}
  BY DEF ProcessEnds
<1>2. LinesOf(batch) \subseteq Lines
  BY LinesOfIs DEF AgentTypes
<1>3. missed' \subseteq Lines
  BY <1>1, <1>2 DEF AgentTypes
<1>4. position' \in 0..NumLines
  BY <1>1, Bounds
<1>5. stopping' \in BOOLEAN
  BY <1>1
<1>6. batch' \in Seq(Lines) /\ Len(batch') = 0
  BY <1>1, NothingSent
<1>7. acked' \in 0..Len(batch')
  BY <1>1, <1>6
<1>8. AgentTypes'
  BY <1>1, <1>3, <1>4, <1>5, <1>6, <1>7 DEF AgentTypes
<1>9. Passed' \subseteq Passed
  <2>1. \A l \in 1..written : l <= start + 0 => l <= start + position
    BY Numbers
  <2>2. QED
    BY <1>1, <2>1 DEF Passed
<1>10. QED
  BY <1>1, <1>8, <1>9 DEF Route, Sending

(* What a process held when it ended is still there, or missed.            *)
LEMMA EndKeeps ==
  ASSUME AgentTypes, ProcessEnds, UNCHANGED <<written, start, buffer, discarded>>
  PROVE  \A l \in Passed' : l \in Held => l \in Held'
<1>1. SUFFICES ASSUME NEW l \in Passed', l \in Held
               PROVE  l \in Held'
  OBVIOUS
<1>2. /\ position' = 0
      /\ missed' = missed \cup {k \in LinesOf(batch) \ LinesOf(buffer) : k <= start}
  BY DEF ProcessEnds
<1>3. l <= start
  BY <1>1, <1>2, Numbers DEF Passed
<1>4. QED
  BY <1>1, <1>2, <1>3 DEF Held

(* The events that fit, one row each.                                      *)
LEMMA FitsAre ==
  ASSUME NEW events \in Seq(Lines), NEW n \in 0..Len(events), NEW fit \in Fits(events, n)
  PROVE  [i \in DOMAIN fit |-> events[fit[i]]] \in Seq(Lines)
<1>1. Len(events) \in Nat /\ \A i \in 1..Len(events) : events[i] \in Lines
  BY LenProperties
<1>2. DEFINE fitting == {i \in 1..n : events[i] \notin Oversized}
             card == Cardinality(fitting)
<1>3. IsFiniteSet(1..n)
  BY <1>1, FS_Interval
<1>4. fitting \subseteq 1..n
  OBVIOUS
<1>5. card \in Nat
  BY <1>3, <1>4, FS_Subset, FS_CardinalityType
<1>6. fit \in [1..card -> fitting]
  BY DEF Fits
<1>7. \A i \in fitting : events[i] \in Lines
  BY <1>1
<1> HIDE DEF fitting, card
<1>8. [i \in 1..card |-> events[fit[i]]] \in [1..card -> Lines]
  BY <1>6, <1>7
<1>9. DOMAIN fit = 1..card
  BY <1>6
<1>10. QED
  BY <1>5, <1>8, <1>9, SeqDef

(* The lines of the agent's hands are buffered, dropped, missed or read    *)
(* again.                                                                  *)
LEMMA SendFailed ==
  ASSUME Typed, NEW n \in Nat, SendFails(n), Sending, UNCHANGED <<written, start>>
  PROVE  /\ AgentTypes' /\ Route' /\ awaiting' = None /\ acked' = 0 /\ discarded \subseteq discarded'
         /\ Passed' \subseteq Passed
         /\ \A l \in Passed' : l \in Held => l \in Held'
<1>1. AgentTypes /\ Route
  BY DEF Typed
<1>2. /\ batch \in Seq(Lines) /\ buffer \in Seq(Lines) /\ awaiting' = None /\ discarded \subseteq Lines
      /\ LinesOf(batch) \subseteq Lines /\ LinesOf(buffer) \subseteq Lines
  BY <1>1, LinesOfIs DEF AgentTypes, SendFails
<1>3. CASE /\ pc = "flush" /\ pc' = "collect" /\ batch' = <<>> /\ acked' = 0
           /\ UNCHANGED <<position, buffer, stopping, lineVars>>
  <2>1. UNCHANGED <<discarded, missed>>
    BY <1>3 DEF lineVars
  <2>2. AgentTypes'
    BY <1>1, <1>2, <1>3, <2>1, NothingSent DEF AgentTypes
  <2>3. Route'
    BY <1>1, <1>2, <1>3, NothingSent DEF Route, Sending
  <2>4. LinesOf(batch) \subseteq LinesOf(buffer)
    <3>1. /\ LinesOf(batch) = {batch[i] : i \in 1..Len(batch)}
          /\ LinesOf(buffer) = {buffer[i] : i \in 1..Len(buffer)}
      BY <1>2, LinesOfIs
    <3>2. QED
      BY <1>1, <1>3, <3>1 DEF Route
  <2>5. Passed' = Passed
    BY <1>3 DEF Passed
  <2>6. QED
    BY <1>2, <1>3, <2>1, <2>2, <2>3, <2>4, <2>5 DEF Held
<1>4. CASE pc = "lastFlush" /\ ProcessEnds /\ UNCHANGED <<buffer, discarded>>
  <2>1. buffer' \in Seq(Lines) /\ Len(buffer') <= MaxBuffer /\ discarded' \subseteq Lines
    BY <1>1, <1>4 DEF AgentTypes
  <2>2. QED
    BY <1>1, <1>2, <1>4, <2>1, EndTyped, EndKeeps
<1>5. CASE /\ pc = "post" /\ pc' = "loop" /\ batch' = <<>> /\ acked' = 0
           /\ EnqueueEvents(batch, n) /\ UNCHANGED <<position, stopping>>
  <2>1. PICK tried \in 0..Len(batch) : \E fit \in Fits(batch, tried) :
          LET rows == buffer \o [i \in DOMAIN fit |-> batch[fit[i]]]
              seen == LinesOf(buffer) \cup LinesOf(Prefix(batch, tried))
          IN  \E purged \in 0..Len(rows) :
                /\ buffer' = Prefix(Suffix(rows, purged), MaxBuffer)
                /\ discarded' = discarded \cup (seen \ LinesOf(buffer'))
                /\ missed' = missed \cup LinesOf(Suffix(batch, tried))
    BY <1>5 DEF EnqueueEvents
  <2>2. PICK fit \in Fits(batch, tried) :
          LET rows == buffer \o [i \in DOMAIN fit |-> batch[fit[i]]]
              seen == LinesOf(buffer) \cup LinesOf(Prefix(batch, tried))
          IN  \E purged \in 0..Len(rows) :
                /\ buffer' = Prefix(Suffix(rows, purged), MaxBuffer)
                /\ discarded' = discarded \cup (seen \ LinesOf(buffer'))
                /\ missed' = missed \cup LinesOf(Suffix(batch, tried))
    BY <2>1
  <2>3. DEFINE fresh == [i \in DOMAIN fit |-> batch[fit[i]]]
               rows == buffer \o fresh
               seen == LinesOf(buffer) \cup LinesOf(Prefix(batch, tried))
  <2>4. fresh \in Seq(Lines)
    BY <1>2, FitsAre
  <2>5. rows \in Seq(Lines)
    BY <1>2, <2>4, JoinedLines
  <2>6. PICK purged \in 0..Len(rows) :
                /\ buffer' = Prefix(Suffix(rows, purged), MaxBuffer)
                /\ discarded' = discarded \cup (seen \ LinesOf(buffer'))
                /\ missed' = missed \cup LinesOf(Suffix(batch, tried))
    BY <2>2
  <2> HIDE DEF fresh, rows
  <2>7. Len(rows) \in Nat /\ purged \in Nat /\ tried \in Nat
    BY <1>2, <2>5, LenProperties
  <2>8. Suffix(rows, purged) \in Seq(Lines)
    BY <2>5, <2>7, SuffixIs
  <2>9. buffer' \in Seq(Lines) /\ Len(buffer') <= MaxBuffer
    BY <2>6, <2>8, Bounds, PrefixIs, Shorter
  <2>10. LinesOf(batch) = LinesOf(Prefix(batch, tried)) \cup LinesOf(Suffix(batch, tried))
    BY <1>2, <2>7, SplitLines
  <2>11. discarded' \subseteq Lines /\ missed' \subseteq Lines
    BY <1>1, <1>2, <2>6, <2>10 DEF AgentTypes
  <2>12. AgentTypes'
    BY <1>1, <1>2, <1>5, <2>9, <2>11, NothingSent DEF AgentTypes
  <2>13. Route'
    BY <1>2, <1>5, NothingSent DEF Route, Sending
  <2>14. LinesOf(batch) \cup LinesOf(buffer) \subseteq LinesOf(buffer') \cup discarded' \cup missed'
    BY <2>6, <2>10
  <2>15. Held \subseteq Held' /\ discarded \subseteq discarded'
    BY <2>6, <2>14 DEF Held
  <2>16. Passed' = Passed
    BY <1>5 DEF Passed
  <2>17. QED
    BY <1>2, <1>5, <2>12, <2>13, <2>15, <2>16
<1>6. QED
  BY <1>3, <1>4, <1>5 DEF SendFails

(* The steps of the log.                                                   *)
LEMMA LogTyped ==
  ASSUME Typed, AppendLine \/ Rotate
  PROVE  /\ AgentTypes' /\ Route' /\ UNCHANGED <<buffer, batch, acked, awaiting, discarded, backendVars>>
         /\ missed \subseteq missed'
         /\ \A l \in Passed' : l \in Passed \/ l \in missed'
<1>1. AgentTypes /\ Route
  BY DEF Typed
<1>2. UNCHANGED <<position, buffer, pc, batch, acked, awaiting, stopping, discarded, backendVars>>
  BY DEF AppendLine, Rotate
<1>3. CASE AppendLine
  <2>1. written < NumLines /\ written' = written + 1 /\ start' = start
    BY <1>3 DEF AppendLine
  <2>2. missed' = missed \cup {l \in {written'} : l <= start + position}
    BY <1>3 DEF AppendLine
  <2>3. /\ written' \in 0..NumLines /\ start' \in 0..written' /\ written' \in Lines
    BY <1>1, <2>1, Bounds DEF AgentTypes, Lines
  <2>4. missed' \subseteq Lines
    BY <1>1, <2>2, <2>3 DEF AgentTypes
  <2>5. AgentTypes'
    BY <1>1, <1>2, <2>3, <2>4 DEF AgentTypes
  <2>6. ASSUME NEW l \in Passed'
        PROVE  l \in Passed \/ l \in missed'
    <3>1. l \in 1..written' /\ l <= start + position
      BY <1>2, <2>1, <2>6 DEF Passed
    <3>2. l \in 1..written \/ l = written'
      BY <1>1, <2>1, <3>1, Numbers
    <3>3. QED
      BY <2>2, <3>1, <3>2 DEF Passed
  <2>7. QED
    BY <1>1, <1>2, <2>2, <2>5, <2>6 DEF Route, Sending
<1>4. CASE Rotate
  <2>1. written' = written /\ start' = written
    BY <1>4 DEF Rotate
  <2>2. missed' = missed \cup {l \in 1..written : l > start + position}
    BY <1>4 DEF Rotate
  <2>3. start' \in 0..written' /\ missed' \subseteq Lines
    BY <1>1, <2>1, <2>2, Numbers DEF AgentTypes
  <2>4. AgentTypes'
    BY <1>1, <1>2, <2>1, <2>3 DEF AgentTypes
  <2>5. ASSUME NEW l \in Passed'
        PROVE  l \in Passed \/ l \in missed'
    <3>1. l \in 1..written
      BY <2>1, <2>5 DEF Passed
    <3>2. l <= start + position \/ l > start + position
      BY <1>1, <3>1, Numbers
    <3>3. QED
      BY <2>2, <3>1, <3>2 DEF Passed
  <2>6. QED
    BY <1>1, <1>2, <2>2, <2>4, <2>5 DEF Route, Sending
<1>5. QED
  BY <1>3, <1>4

(* What a flush takes from the buffer, by then without its stale rows.     *)
LEMMA FlushTakes ==
  ASSUME Typed, StartFlush
  PROVE  \E stale \in Nat :
           /\ buffer' = Suffix(buffer, stale) /\ discarded' = discarded \cup LinesOf(Prefix(buffer, stale))
           /\ pc = "loop" /\ UNCHANGED <<written, start>>
           /\ \/ /\ batch' = Prefix(buffer', MaxDequeue) /\ acked' = 0 /\ pc' \in {"flush", "lastFlush"}
                 /\ UNCHANGED <<position, awaiting, stopping, missed>>
              \/ pc' = "collect" /\ UNCHANGED <<position, batch, acked, awaiting, stopping, missed>>
              \/ ProcessEnds
<1>1. PICK stale \in 0..Len(buffer) :
           LET rest  == Suffix(buffer, stale)
               items == DequeueAll(rest)
           IN  /\ buffer' = rest
               /\ discarded' = discarded \cup LinesOf(Prefix(buffer, stale))
               /\ \/ /\ items # <<>>
                     /\ batch' = items /\ acked' = 0
                     /\ pc' = IF stopping THEN "lastFlush" ELSE "flush"
                     /\ UNCHANGED <<position, awaiting, stopping, missed>>
                  \/ /\ items = <<>> /\ ~stopping
                     /\ pc' = "collect"
                     /\ UNCHANGED <<position, batch, acked, awaiting, stopping, missed>>
                  \/ /\ items = <<>> /\ stopping
                     /\ ProcessEnds
  BY DEF StartFlush
<1>2. stale \in Nat
  BY LenProperties DEF Typed, AgentTypes
<1>3. pc = "loop" /\ UNCHANGED <<written, start>>
  BY DEF StartFlush
<1>4. QED
  BY <1>1, <1>2, <1>3 DEF DequeueAll

LEMMA FlushTyped ==
  ASSUME Typed, StartFlush
  PROVE  /\ AgentTypes' /\ Route' /\ awaiting = None /\ awaiting' = None /\ acked' = 0 /\ batch = <<>>
         /\ discarded \subseteq discarded' /\ Held \subseteq Held' /\ Passed' \subseteq Passed
<1>1. AgentTypes /\ Route
  BY DEF Typed
<1>2. PICK stale \in Nat :
           /\ buffer' = Suffix(buffer, stale) /\ discarded' = discarded \cup LinesOf(Prefix(buffer, stale))
           /\ pc = "loop" /\ UNCHANGED <<written, start>>
           /\ \/ /\ batch' = Prefix(buffer', MaxDequeue) /\ acked' = 0 /\ pc' \in {"flush", "lastFlush"}
                 /\ UNCHANGED <<position, awaiting, stopping, missed>>
              \/ pc' = "collect" /\ UNCHANGED <<position, batch, acked, awaiting, stopping, missed>>
              \/ ProcessEnds
  BY FlushTakes
<1>3. /\ buffer \in Seq(Lines) /\ Len(buffer) \in Nat /\ Len(buffer) <= MaxBuffer
      /\ awaiting = None /\ batch = <<>> /\ acked = 0 /\ discarded \subseteq Lines
  BY <1>1, <1>2, Bounds, LenProperties, NothingSent DEF AgentTypes, Route, Sending
<1>4. buffer' \in Seq(Lines) /\ Len(buffer') \in Nat /\ Len(buffer') <= MaxBuffer
  <2>1. buffer' \in Seq(Lines) /\ Len(buffer') <= Len(buffer)
    BY <1>2, <1>3, SuffixIs, Shorter
  <2>2. QED
    BY <1>3, <2>1, Bounds, LenProperties
<1>5. LinesOf(buffer) = LinesOf(Prefix(buffer, stale)) \cup LinesOf(buffer')
  BY <1>2, <1>3, SplitLines
<1>6. LinesOf(buffer) \subseteq Lines
  BY <1>3, LinesOfIs
<1>7. discarded' \subseteq Lines /\ discarded \subseteq discarded' /\ LinesOf(buffer) \subseteq LinesOf(buffer') \cup discarded'
  BY <1>2, <1>3, <1>5, <1>6
<1>8. missed \subseteq missed'
  BY <1>2 DEF ProcessEnds
<1>9. Held \subseteq Held'
  BY <1>3, <1>7, <1>8, NothingSent DEF Held
<1>10. CASE /\ batch' = Prefix(buffer', MaxDequeue) /\ acked' = 0 /\ pc' \in {"flush", "lastFlush"}
            /\ UNCHANGED <<position, awaiting, stopping, missed>>
  <2>1. /\ batch' \in Seq(Lines) /\ Len(batch') \in Nat /\ Len(batch') <= Len(buffer')
        /\ \A i \in 1..Len(batch') : batch'[i] = buffer'[i]
    BY <1>4, <1>10, Bounds, PrefixIs, Shorter, LenProperties
  <2>2. AgentTypes'
    BY <1>1, <1>2, <1>3, <1>4, <1>7, <1>10, <2>1 DEF AgentTypes
  <2>3. Route'
    BY <1>3, <1>4, <1>10, <2>1 DEF Route, Sending
  <2>4. Passed' = Passed
    BY <1>2, <1>10 DEF Passed
  <2>5. QED
    BY <1>3, <1>7, <1>9, <1>10, <2>2, <2>3, <2>4
<1>11. CASE pc' = "collect" /\ UNCHANGED <<position, batch, acked, awaiting, stopping, missed>>
  <2>1. AgentTypes'
    BY <1>1, <1>2, <1>3, <1>4, <1>7, <1>11, NothingSent DEF AgentTypes
  <2>2. Passed' = Passed
    BY <1>2, <1>11 DEF Passed
  <2>3. QED
    BY <1>3, <1>7, <1>9, <1>11, <2>1, <2>2 DEF Route, Sending
<1>12. CASE ProcessEnds
  <2>1. AgentTypes' /\ Route' /\ awaiting' = None /\ acked' = 0 /\ Passed' \subseteq Passed
    BY <1>1, <1>2, <1>4, <1>7, <1>12, EndTyped
  <2>2. QED
    BY <1>3, <1>7, <1>9, <2>1
<1>13. QED
  BY <1>2, <1>10, <1>11, <1>12

LEMMA NewLinesAre ==
  ASSUME AgentTypes
  PROVE  /\ NewLines \in Seq(Lines) /\ LinesOf(NewLines) = {l \in 1..written : l > start + position}
         /\ NewLines # <<>> => start + position < written
<1>1. /\ written \in Nat /\ start \in Nat /\ position \in Nat /\ written <= NumLines /\ NumLines \in Nat
  BY Numbers, Bounds
<1>2. DEFINE n == written - start - position
<1>3. n \in Int
  BY <1>1
<1>4. NewLines = [i \in 1..n |-> start + position + i]
  BY DEF NewLines
<1>5. \A i \in 1..n : start + position + i \in 1..written /\ start + position + i > start + position
  BY <1>1
<1>6. \A i \in 1..n : start + position + i \in Lines
  BY <1>1, <1>5 DEF Lines
<1>7. \A l \in 1..written : l > start + position => /\ l - (start + position) \in 1..n
                                                    /\ start + position + (l - (start + position)) = l
  BY <1>1
<1>8. n > 0 => start + position < written
  BY <1>1
<1> HIDE DEF n
<1>9. CASE n > 0
  <2>1. n \in Nat /\ NewLines \in [1..n -> Lines]
    BY <1>3, <1>4, <1>6, <1>9
  <2>2. NewLines \in Seq(Lines) /\ DOMAIN NewLines = 1..n
    BY <1>4, <2>1, SeqDef
  <2>3. \A i \in 1..n : NewLines[i] = start + position + i
    BY <1>4
  <2>4. LinesOf(NewLines) = {NewLines[i] : i \in 1..n}
    BY <2>2 DEF LinesOf
  <2>5. LinesOf(NewLines) \subseteq {l \in 1..written : l > start + position}
    BY <1>5, <2>3, <2>4
  <2>6. ASSUME NEW l \in 1..written, l > start + position
        PROVE  l \in LinesOf(NewLines)
    <3>1. l - (start + position) \in 1..n /\ NewLines[l - (start + position)] = l
      BY <1>7, <2>3, <2>6
    <3>2. QED
      BY <2>4, <3>1
  <2>7. QED
    BY <1>8, <1>9, <2>2, <2>5, <2>6
<1>10. CASE ~(n > 0)
  <2>1. 1..n = {} /\ 0 \in Nat /\ 1..0 = {}
    BY <1>3, <1>10
  <2>2. NewLines \in [1..0 -> Lines]
    BY <1>4, <2>1
  <2>3. NewLines \in Seq(Lines)
    BY <2>1, <2>2, SeqDef
  <2>4. Len(NewLines) = 0
    <3>1. Len(NewLines) \in Nat /\ DOMAIN NewLines = 1..Len(NewLines)
      BY <2>3, LenProperties
    <3>2. 1..Len(NewLines) = {}
      BY <2>1, <2>2, <3>1
    <3>3. QED
      BY <3>1, <3>2
  <2>5. NewLines = <<>>
    BY <2>3, <2>4, EmptySeq
  <2>6. LinesOf(NewLines) = {}
    BY <2>3, <2>5, LinesOfIs
  <2>7. \A l \in 1..written : ~(l > start + position)
    BY <1>7, <2>1
  <2>8. QED
    BY <2>3, <2>5, <2>6, <2>7
<1>11. QED
  BY <1>9, <1>10

LEMMA CollectTyped ==
  ASSUME Typed, Collect
  PROVE  /\ AgentTypes' /\ Route' /\ awaiting = None /\ awaiting' = None /\ batch = <<>> /\ acked' = 0
         /\ discarded \subseteq discarded' /\ Held \subseteq Held'
         /\ \A l \in Passed' : l \in Passed \/ l \in Held'
<1>1. AgentTypes /\ Route
  BY DEF Typed
<1>2. /\ awaiting = None /\ batch = <<>> /\ acked = 0 /\ UNCHANGED <<written, start, buffer, awaiting, stopping>>
      /\ pc = "collect"
  BY <1>1, NothingSent, Bounds DEF AgentTypes, Route, Sending, Collect
<1>3. CASE pc' = "loop" /\ UNCHANGED <<position, batch, acked, lineVars>>
  <2>1. UNCHANGED <<discarded, missed>>
    BY <1>3 DEF lineVars
  <2>2. AgentTypes'
    BY <1>1, <1>2, <1>3, <2>1 DEF AgentTypes
  <2>3. Route'
    BY <1>2, <1>3 DEF Route, Sending
  <2>4. Passed' = Passed /\ Held' = Held
    BY <1>2, <1>3, <2>1 DEF Passed, Held
  <2>5. QED
    BY <1>2, <1>3, <2>1, <2>2, <2>3, <2>4
<1>4. CASE /\ NewLines # <<>>
           /\ position' = written - start
           /\ batch' = Prefix(NewLines, MaxEventsPerCycle) /\ acked' = 0
           /\ discarded' = discarded \cup LinesOf(Suffix(NewLines, MaxEventsPerCycle))
           /\ missed' = missed \ LinesOf(NewLines)
           /\ pc' = "post"
  <2>1. /\ NewLines \in Seq(Lines) /\ LinesOf(NewLines) = {l \in 1..written : l > start + position}
        /\ LinesOf(NewLines) \subseteq Lines
    BY <1>1, NewLinesAre, LinesOfIs
  <2>2. batch' \in Seq(Lines) /\ Len(batch') \in Nat
    BY <1>4, <2>1, Bounds, PrefixIs, LenProperties
  <2>3. LinesOf(NewLines) = LinesOf(batch') \cup LinesOf(Suffix(NewLines, MaxEventsPerCycle))
    BY <1>4, <2>1, Bounds, SplitLines
  <2>4. position' \in 0..NumLines
    BY <1>1, <1>4, Numbers, Bounds
  <2>5. discarded' \subseteq Lines /\ missed' \subseteq Lines
    BY <1>1, <1>4, <2>1, <2>3 DEF AgentTypes
  <2>6. acked' \in 0..Len(batch')
    BY <1>4, <2>2
  <2>7. AgentTypes'
    BY <1>1, <1>2, <1>4, <2>2, <2>4, <2>5, <2>6 DEF AgentTypes
  <2>8. LinesOf(NewLines) \subseteq Held' /\ Held \subseteq Held'
    BY <1>2, <1>4, <2>3, NothingSent DEF Held
  <2>9. ASSUME NEW l \in Passed'
        PROVE  l \in Passed \/ l \in Held'
    <3>1. l \in 1..written
      BY <1>2, <2>9 DEF Passed
    <3>2. l <= start + position \/ l > start + position
      BY <1>1, <3>1, Numbers
    <3>3. QED
      BY <2>1, <2>8, <3>1, <3>2 DEF Passed
  <2>10. QED
    BY <1>2, <1>4, <2>7, <2>8, <2>9 DEF Route, Sending
<1>5. QED
  BY <1>3, <1>4 DEF Collect

LEMMA FinishTyped ==
  ASSUME Typed, FinishSend
  PROVE  /\ AgentTypes' /\ Route' /\ awaiting = None /\ awaiting' = None /\ acked' = 0 /\ acked = Len(batch)
         /\ discarded' = discarded /\ Passed' \subseteq Passed
         /\ \A l \in Held : l \in LinesOf(batch) \/ l \in Held'
<1>1. AgentTypes /\ Route
  BY DEF Typed
<1>2. /\ awaiting = None /\ acked = Len(batch) /\ UNCHANGED <<written, start, discarded>>
      /\ buffer' = IF pc = "post" THEN buffer ELSE Suffix(buffer, Len(batch))
      /\ pc \in {"flush", "lastFlush", "post"}
  BY DEF FinishSend, Sending
<1>3. /\ batch \in Seq(Lines) /\ buffer \in Seq(Lines) /\ Len(batch) \in Nat
      /\ Len(buffer) \in Nat /\ Len(buffer) <= MaxBuffer
  BY <1>1, Bounds, LenProperties DEF AgentTypes
<1>4. /\ buffer' \in Seq(Lines) /\ Len(buffer') <= MaxBuffer
      /\ LinesOf(buffer) \subseteq LinesOf(batch) \cup LinesOf(buffer')
  <2>1. CASE pc = "post"
    BY <1>2, <1>3, <2>1
  <2>2. CASE pc # "post"
    <3>1. buffer' = Suffix(buffer, Len(batch))
      BY <1>2, <2>2
    <3>2. buffer' \in Seq(Lines) /\ Len(buffer') <= Len(buffer) /\ Len(buffer') \in Nat
      BY <1>3, <3>1, SuffixIs, Shorter, LenProperties
    <3>3. DEFINE a == Prefix(buffer, Len(batch))
    <3>4. LinesOf(buffer) = LinesOf(a) \cup LinesOf(buffer')
      BY <1>3, <3>1, SplitLines
    <3>5. a \in Seq(Lines) /\ Len(a) <= Len(batch) /\ \A i \in 1..Len(a) : a[i] = buffer[i]
      BY <1>3, PrefixIs, Shorter
    <3> HIDE DEF a
    <3>6. Len(a) \in Nat /\ LinesOf(a) = {a[i] : i \in 1..Len(a)} /\ LinesOf(batch) = {batch[i] : i \in 1..Len(batch)}
      BY <1>3, <3>5, LenProperties, LinesOfIs
    <3>7. \A i \in 1..Len(a) : i \in 1..Len(batch) /\ batch[i] = a[i]
      BY <1>1, <1>2, <1>3, <2>2, <3>5, <3>6 DEF Route
    <3>8. LinesOf(a) \subseteq LinesOf(batch)
      BY <3>6, <3>7
    <3>9. QED
      BY <1>3, <3>2, <3>4, <3>8, Bounds
  <2>3. QED
    BY <2>1, <2>2
<1>5. CASE ProcessEnds
  <2>1. discarded' \subseteq Lines
    BY <1>1, <1>2 DEF AgentTypes
  <2>2. AgentTypes' /\ Route' /\ awaiting' = None /\ acked' = 0 /\ Passed' \subseteq Passed
    BY <1>1, <1>2, <1>4, <1>5, <2>1, EndTyped
  <2>3. missed \subseteq missed'
    BY <1>5 DEF ProcessEnds
  <2>4. QED
    BY <1>2, <1>4, <2>2, <2>3 DEF Held
<1>6. CASE /\ pc # "lastFlush"
           /\ pc' = IF pc = "flush" THEN "collect" ELSE "loop"
           /\ batch' = <<>> /\ acked' = 0 /\ UNCHANGED <<position, awaiting, stopping, missed>>
  <2>1. AgentTypes'
    BY <1>1, <1>2, <1>3, <1>4, <1>6, NothingSent DEF AgentTypes
  <2>2. Route'
    BY <1>2, <1>6 DEF Route, Sending
  <2>3. Passed' = Passed
    BY <1>2, <1>6 DEF Passed
  <2>4. QED
    BY <1>2, <1>4, <1>6, <2>1, <2>2, <2>3 DEF Held
<1>7. QED
  BY <1>5, <1>6 DEF FinishSend

(* The steps of the agent and the log that send nothing.                   *)
AgentMoves ==
  \/ AppendLine \/ Rotate \/ StartFlush \/ Collect \/ FinishSend \/ RestartAgent
  \/ LoseRequest \/ TimeOut \/ RequestStop \/ CrashAgent

(* The agent lets go of a line only when every line it sent is             *)
(* acknowledged.                                                           *)
LEMMA AgentStep ==
  ASSUME Typed, AgentMoves
  PROVE  /\ AgentTypes' /\ Route' /\ backendVars' = backendVars /\ discarded \subseteq discarded'
         /\ awaiting' = None \/ UNCHANGED <<awaiting, batch, acked>>
         /\ acked' = 0 \/ UNCHANGED <<batch, acked>>
         /\ \A l \in Passed' :
              \/ l \in Held' \/ (l \in Passed /\ l \notin Held)
              \/ acked = Len(batch) /\ l \in LinesOf(batch)
<1>1. AgentTypes /\ Route
  BY DEF Typed
<1>2. CASE AppendLine \/ Rotate
  <2>1. Held \subseteq Held' /\ missed' \subseteq Held'
    BY <1>2, LogTyped DEF Held
  <2>2. QED
    BY <1>2, <2>1, LogTyped
<1>3. CASE StartFlush
  <2>1. backendVars' = backendVars
    BY <1>3 DEF StartFlush
  <2>2. QED
    BY <1>3, <2>1, FlushTyped
<1>4. CASE Collect
  <2>1. backendVars' = backendVars
    BY <1>4 DEF Collect
  <2>2. QED
    BY <1>4, <2>1, CollectTyped
<1>5. CASE FinishSend
  <2>1. backendVars' = backendVars
    BY <1>5 DEF FinishSend
  <2>2. QED
    BY <1>5, <2>1, FinishTyped
<1>6. CASE RestartAgent
  <2>1. /\ UNCHANGED <<written, start, position, buffer, batch, acked, awaiting, stopping, discarded, missed, backendVars>>
        /\ pc' = "loop" /\ pc = "down"
    BY <1>6 DEF RestartAgent, lineVars
  <2>2. AgentTypes'
    BY <1>1, <2>1 DEF AgentTypes
  <2>3. Route'
    BY <1>1, <2>1 DEF Route, Sending
  <2>4. Passed' = Passed /\ Held' = Held
    BY <2>1 DEF Passed, Held
  <2>5. QED
    BY <2>1, <2>2, <2>3, <2>4
<1>7. CASE LoseRequest \/ TimeOut
  <2>1. SendFails(1) /\ Sending /\ UNCHANGED <<written, start>> /\ backendVars' = backendVars
    BY <1>1, <1>7 DEF LoseRequest, TimeOut, Route
  <2>2. QED
    BY <2>1, SendFailed
<1>8. CASE RequestStop
  <2>1. /\ UNCHANGED <<written, start, position, buffer, pc, batch, acked, awaiting, discarded, missed, backendVars>>
        /\ stopping' = TRUE
    BY <1>8 DEF RequestStop, lineVars
  <2>2. stopping' \in BOOLEAN
    BY <2>1
  <2>3. AgentTypes'
    BY <1>1, <2>1, <2>2 DEF AgentTypes
  <2>4. Route'
    BY <1>1, <2>1 DEF Route, Sending
  <2>5. Passed' = Passed /\ Held' = Held
    BY <2>1 DEF Passed, Held
  <2>6. QED
    BY <2>1, <2>3, <2>4, <2>5
<1>9. CASE CrashAgent
  <2>1. ProcessEnds /\ UNCHANGED <<written, start, buffer, discarded, backendVars>>
    BY <1>9 DEF CrashAgent
  <2>2. buffer' \in Seq(Lines) /\ Len(buffer') <= MaxBuffer /\ discarded' \subseteq Lines
    BY <1>1, <2>1 DEF AgentTypes
  <2>3. AgentTypes' /\ Route' /\ awaiting' = None /\ acked' = 0 /\ Passed' \subseteq Passed
    BY <1>1, <2>1, <2>2, EndTyped
  <2>4. QED
    BY <1>1, <2>1, <2>3, EndKeeps
<1>10. QED
  BY <1>2, <1>3, <1>4, <1>5, <1>6, <1>7, <1>8, <1>9 DEF AgentMoves

LEMMA Posts ==
  ASSUME Typed, Post
  PROVE  /\ AgentTypes' /\ Route' /\ BackendTypes'
         /\ UNCHANGED <<written, start, position, buffer, pc, batch, acked, stopping>>
         /\ UNCHANGED <<redis, mark, stored, notified, swallowed, discarded, missed>>
         /\ awaiting = None /\ awaiting' \in Slots /\ request[awaiting'] = Free
         /\ request'[awaiting'] = [state |-> "open", todo |-> Chunk, added |-> {}]
         /\ \A s \in Slots \ {awaiting'} : request'[s] = request[s]
<1>1. AgentTypes /\ Route /\ BackendTypes
  BY DEF Typed
<1>2. PICK r \in Slots :
           /\ request[r] = Free /\ awaiting' = r
           /\ request' = [request EXCEPT ![r] = [state |-> "open", todo |-> Chunk, added |-> {}]]
  BY DEF Post
<1>3. /\ UNCHANGED <<written, start, position, buffer, pc, batch, acked, stopping>>
      /\ UNCHANGED <<redis, mark, stored, notified, swallowed, discarded, missed>>
      /\ awaiting = None /\ Sending
  BY DEF Post, lineVars
<1>4. [state |-> "open", todo |-> Chunk, added |-> {}] \in Requests
  BY <1>1, ChunkIs DEF Requests
<1>5. /\ request' \in [Slots -> Requests]
      /\ request'[r] = [state |-> "open", todo |-> Chunk, added |-> {}]
      /\ \A s \in Slots \ {r} : request'[s] = request[s]
  BY <1>1, <1>2, <1>4 DEF BackendTypes
<1>6. AgentTypes'
  BY <1>1, <1>2, <1>3 DEF AgentTypes
<1>7. BackendTypes'
  BY <1>1, <1>3, <1>5 DEF BackendTypes
<1>8. Route'
  BY <1>1, <1>3 DEF Route, Sending
<1>9. QED
  BY <1>2, <1>3, <1>5, <1>6, <1>7, <1>8

-----------------------------------------------------------------------------
(* The backend.                                                            *)

LEMMA RowsAre ==
  /\ \A row \in Rows : /\ row[1] \in Lines /\ Fingerprint[row[1]] \in Fingerprints
                       /\ Key(row) \in Keys /\ Key(row) = <<Fingerprint[row[1]], row[2]>>
                       /\ row = <<row[1], row[2]>> /\ row[2] \in {"redis", "postgres"}
  /\ \A l \in Lines : Fingerprint[l] \in Fingerprints
  /\ \A f \in Fingerprints : <<f, "redis">> \in Keys /\ <<f, "postgres">> \in Keys
BY FingerprintAssumption DEF Rows, Keys, Key

LEMMA RowOfIs ==
  ASSUME NEW l \in Lines
  PROVE  /\ RowOf(l) \in Rows /\ RowOf(l)[1] = l /\ RowOf(l)[2] = DedupStore
         /\ Key(RowOf(l)) = <<Fingerprint[l], DedupStore>> /\ Key(RowOf(l)) \in Keys
         /\ DedupStore \in {"redis", "postgres"}
<1>1. DedupStore \in {"redis", "postgres"}
  BY DEF DedupStore
<1>2. RowOf(l) = <<l, DedupStore>>
  BY DEF RowOf
<1>3. RowOf(l) \in Rows
  BY <1>1, <1>2 DEF Rows
<1>4. RowOf(l)[1] = l /\ RowOf(l)[2] = DedupStore
  BY <1>2
<1>5. QED
  BY <1>1, <1>3, <1>4, RowsAre

(* Whose mark a key gets.                                                  *)
Holder(key, r) == IF key[2] = "redis" THEN "set" ELSE r

Open(r) == request[r].state = "open"

(* The next event is refused, new, or a duplicate.                         *)
LEMMA Processes ==
  ASSUME Typed, NEW r \in Slots, ProcessEvent(r)
  PROVE  /\ BackendTypes' /\ UNCHANGED <<agentVars, redis, stored, notified, swallowed, missed>>
         /\ discarded \subseteq discarded' /\ discarded' \subseteq Lines
         /\ Open(r) /\ request'[r].state = "open"
         /\ \A s \in Slots \ {r} : request'[s] = request[s]
         /\ \E l \in Lines :
              /\ LinesOf(request[r].todo) = {l} \cup LinesOf(request'[r].todo)
              /\ \/ /\ l \in Rejected /\ l \in discarded' /\ mark' = mark
                    /\ request'[r].added = request[r].added
                 \/ /\ mark[Key(RowOf(l))] = None
                    /\ mark' = [mark EXCEPT ![Key(RowOf(l))] = Holder(Key(RowOf(l)), r)]
                    /\ request'[r].added = request[r].added \cup {RowOf(l)}
                 \/ /\ mark[Key(RowOf(l))] \in {r, "set"} /\ mark' = mark
                    /\ request'[r].added = request[r].added
<1>1. AgentTypes /\ BackendTypes /\ request[r] \in Requests
  BY DEF Typed, BackendTypes
<1>2. request[r].todo \in Seq(Lines) /\ request[r].todo # <<>> /\ request[r].added \subseteq Rows
  BY <1>1 DEF Requests, ProcessEvent
<1>3. DEFINE l == Head(request[r].todo)
             row == RowOf(l)
             key == Key(row)
<1>4. /\ l \in Lines /\ Tail(request[r].todo) \in Seq(Lines)
      /\ LinesOf(request[r].todo) = {l} \cup LinesOf(Tail(request[r].todo))
  BY <1>2, HeadTailLines
<1>5. PICK added \in {{}, {row}} :
        /\ request' = [request EXCEPT ![r].todo = Tail(@), ![r].added = @ \cup added]
        /\ \/ added = {} /\ l \in Rejected /\ discarded' = discarded \cup {l} /\ mark' = mark
           \/ /\ added = {row} /\ mark[key] = None /\ discarded' = discarded
              /\ mark' = [mark EXCEPT ![key] = IF DedupStore = "redis" THEN "set" ELSE r]
           \/ added = {} /\ mark[key] \in {r, "set"} /\ mark' = mark /\ discarded' = discarded
  BY DEF ProcessEvent, Duplicate
<1>6. UNCHANGED <<agentVars, redis, stored, notified, swallowed, missed>> /\ Open(r)
  BY DEF ProcessEvent, Open
<1> HIDE DEF l
<1>7. row \in Rows /\ key \in Keys /\ key = <<Fingerprint[l], DedupStore>>
  BY <1>4, RowOfIs
<1>8. (IF DedupStore = "redis" THEN "set" ELSE r) = Holder(key, r)
  BY <1>7 DEF Holder
<1> HIDE DEF row, key
<1>9. added \subseteq Rows
  BY <1>5, <1>7
<1>10. DEFINE q == [request[r] EXCEPT !.todo = Tail(request[r].todo), !.added = request[r].added \cup added]
<1>11. /\ q \in Requests /\ q.state = request[r].state /\ q.todo = Tail(request[r].todo)
       /\ q.added = request[r].added \cup added
  BY <1>1, <1>2, <1>4, <1>9 DEF Requests
<1>12. request' = [request EXCEPT ![r] = q]
  BY <1>1, <1>5 DEF BackendTypes
<1> HIDE DEF q
<1>13. /\ request' \in [Slots -> Requests] /\ request'[r] = q
       /\ \A s \in Slots \ {r} : request'[s] = request[s]
  BY <1>1, <1>11, <1>12 DEF BackendTypes
<1>14. mark' \in [Keys -> Slots \cup {None, "set"}]
  BY <1>1, <1>5 DEF BackendTypes
<1>15. BackendTypes'
  BY <1>1, <1>6, <1>13, <1>14 DEF BackendTypes
<1>16. discarded \subseteq discarded' /\ discarded' \subseteq Lines
  BY <1>1, <1>4, <1>5 DEF AgentTypes
<1>17. \/ /\ l \in Rejected /\ l \in discarded' /\ mark' = mark
          /\ request'[r].added = request[r].added
       \/ /\ mark[key] = None
          /\ mark' = [mark EXCEPT ![key] = Holder(key, r)]
          /\ request'[r].added = request[r].added \cup {row}
       \/ /\ mark[key] \in {r, "set"} /\ mark' = mark
          /\ request'[r].added = request[r].added
  BY <1>5, <1>8, <1>11, <1>13
<1>18. LinesOf(request[r].todo) = {l} \cup LinesOf(request'[r].todo) /\ request'[r].state = "open"
  BY <1>4, <1>6, <1>11, <1>13 DEF Open
<1>19. QED
  BY <1>4, <1>6, <1>13, <1>15, <1>16, <1>17, <1>18 DEF row, key

(* The transaction of a request is over, in one state or another.          *)
LEMMA Ends ==
  ASSUME Typed, NEW r \in Slots, NEW st \in {"committed", "done"},
         request' = [request EXCEPT ![r].state = st]
  PROVE  /\ request' \in [Slots -> Requests] /\ request'[r].state = st
         /\ request'[r].added = request[r].added /\ request'[r].todo = request[r].todo
         /\ request[r].added \subseteq Rows
         /\ \A s \in Slots \ {r} : request'[s] = request[s]
<1>1. request \in [Slots -> Requests] /\ request[r] \in Requests
  BY DEF Typed, BackendTypes
<1>2. DEFINE q == [request[r] EXCEPT !.state = st]
<1>3. /\ q \in Requests /\ q.state = st /\ q.added = request[r].added /\ q.todo = request[r].todo
      /\ request[r].added \subseteq Rows
  BY <1>1 DEF Requests
<1>4. request' = [request EXCEPT ![r] = q]
  BY <1>1
<1> HIDE DEF q
<1>5. QED
  BY <1>1, <1>3, <1>4

LEMMA Commits ==
  ASSUME Typed, NEW r \in Slots, Commit(r)
  PROVE  /\ BackendTypes' /\ UNCHANGED <<agentVars, redis, notified, swallowed, discarded, missed>>
         /\ Open(r) /\ request[r].todo = <<>> /\ request'[r].state = "committed"
         /\ request'[r].added = request[r].added
         /\ \A s \in Slots \ {r} : request'[s] = request[s]
         /\ \A p \in Rows : stored'[p] = IF p \in request[r].added THEN stored[p] + 1 ELSE stored[p]
         /\ \A key \in Keys : mark'[key] = IF mark[key] = r THEN "set" ELSE mark[key]
<1>1. AgentTypes /\ BackendTypes
  BY DEF Typed
<1>2. /\ request' = [request EXCEPT ![r].state = "committed"]
      /\ stored' = [p \in Rows |-> stored[p] + IF p \in request[r].added THEN 1 ELSE 0]
      /\ mark' = [key \in Keys |-> IF mark[key] = r THEN "set" ELSE mark[key]]
      /\ UNCHANGED <<agentVars, redis, notified, swallowed, discarded, missed>>
      /\ Open(r) /\ request[r].todo = <<>>
  BY DEF Commit, Open, lineVars
<1>3. /\ request' \in [Slots -> Requests] /\ request'[r].state = "committed"
      /\ request'[r].added = request[r].added
      /\ \A s \in Slots \ {r} : request'[s] = request[s]
  BY <1>2, Ends
<1>4. \A p \in Rows : /\ stored'[p] = (IF p \in request[r].added THEN stored[p] + 1 ELSE stored[p])
                      /\ stored'[p] \in Nat
  BY <1>1, <1>2 DEF BackendTypes
<1>5. stored' \in [Rows -> Nat] /\ mark' \in [Keys -> Slots \cup {None, "set"}]
  BY <1>1, <1>2, <1>4 DEF BackendTypes
<1>6. BackendTypes'
  BY <1>1, <1>2, <1>3, <1>5 DEF BackendTypes
<1>7. QED
  BY <1>2, <1>3, <1>4, <1>6

LEMMA Hooks ==
  ASSUME Typed, NEW r \in Slots, RunHook(r)
  PROVE  /\ BackendTypes' /\ UNCHANGED <<agentVars, redis, mark, stored, swallowed, discarded, missed>>
         /\ request[r].state = "committed" /\ request'[r].state = "done" /\ request'[r].added = request[r].added
         /\ \A s \in Slots \ {r} : request'[s] = request[s]
         /\ notified' \subseteq notified \cup request[r].added
<1>1. AgentTypes /\ BackendTypes
  BY DEF Typed
<1>2. /\ request' = [request EXCEPT ![r].state = "done"] /\ request[r].state = "committed"
      /\ UNCHANGED <<agentVars, redis, mark, stored, swallowed, discarded, missed>>
      /\ notified' \subseteq notified \cup request[r].added
  BY DEF RunHook, lineVars
<1>3. /\ request' \in [Slots -> Requests] /\ request'[r].state = "done"
      /\ request'[r].added = request[r].added /\ request[r].added \subseteq Rows
      /\ \A s \in Slots \ {r} : request'[s] = request[s]
  BY <1>2, Ends
<1>4. notified' \subseteq Rows
  BY <1>1, <1>2, <1>3 DEF BackendTypes
<1>5. BackendTypes'
  BY <1>1, <1>2, <1>3, <1>4 DEF BackendTypes
<1>6. QED
  BY <1>2, <1>3, <1>5

(* The database rolls back what the handler believes it commits.           *)
LEMMA Swallows ==
  ASSUME Typed, NEW r \in Slots, SwallowError(r)
  PROVE  /\ BackendTypes' /\ UNCHANGED <<agentVars, redis, stored, notified, discarded, missed>>
         /\ Open(r) /\ request[r].todo = <<>> /\ request'[r].state = "committed"
         /\ request'[r].added = request[r].added
         /\ \A s \in Slots \ {r} : request'[s] = request[s]
         /\ swallowed' = swallowed \cup request[r].added
         /\ \A key \in Keys : mark'[key] = IF mark[key] = r THEN None ELSE mark[key]
<1>1. AgentTypes /\ BackendTypes
  BY DEF Typed
<1>2. /\ request' = [request EXCEPT ![r].state = "committed"]
      /\ mark' = [key \in Keys |-> IF mark[key] \in {r} THEN None ELSE mark[key]]
      /\ swallowed' = swallowed \cup request[r].added
      /\ UNCHANGED <<agentVars, redis, stored, notified, discarded, missed>>
      /\ Open(r) /\ request[r].todo = <<>>
  BY DEF SwallowError, Released, Open, lineVars
<1>3. /\ request' \in [Slots -> Requests] /\ request'[r].state = "committed"
      /\ request'[r].added = request[r].added /\ request[r].added \subseteq Rows
      /\ \A s \in Slots \ {r} : request'[s] = request[s]
  BY <1>2, Ends
<1>4. mark' \in [Keys -> Slots \cup {None, "set"}] /\ swallowed' \subseteq Rows
  BY <1>1, <1>2, <1>3 DEF BackendTypes
<1>5. BackendTypes'
  BY <1>1, <1>2, <1>3, <1>4 DEF BackendTypes
<1>6. QED
  BY <1>2, <1>3, <1>5

LEMMA FreeIs ==
  /\ Free \in Requests /\ Free.state = "free" /\ Free.added = {}
  /\ [Free EXCEPT !.state = "failed"] \in Requests /\ [Free EXCEPT !.state = "failed"].state = "failed"
BY NothingSent DEF Free, Requests

(* The transactions of some slots end without a commit.                    *)
Fails(slots) ==
  /\ UNCHANGED <<agentVars, redis, stored, notified, swallowed, lineVars>>
  /\ \A key \in Keys : mark'[key] = IF mark[key] \in slots THEN None ELSE mark[key]
  /\ \A s \in Slots \ slots : request'[s] = request[s]
  /\ \A s \in slots : request'[s].state \in {"free", "failed"}

LEMMA RollsBack ==
  ASSUME Typed, NEW r \in Slots, Rollback(r)
  PROVE  BackendTypes' /\ Fails({r})
<1>1. AgentTypes /\ BackendTypes /\ request[r] \in Requests
  BY DEF Typed, BackendTypes
<1>2. /\ request' = [request EXCEPT ![r] = [Free EXCEPT !.state = "failed"]]
      /\ mark' = [key \in Keys |-> IF mark[key] \in {r} THEN None ELSE mark[key]]
      /\ UNCHANGED <<agentVars, redis, stored, notified, swallowed, lineVars>>
  BY DEF Rollback, Released
<1>3. DEFINE q == [Free EXCEPT !.state = "failed"]
<1>4. q \in Requests /\ q.state = "failed"
  BY FreeIs
<1> HIDE DEF q
<1>5. /\ request' \in [Slots -> Requests] /\ request'[r] = q
      /\ \A s \in Slots \ {r} : request'[s] = request[s]
  BY <1>1, <1>2, <1>4 DEF BackendTypes, q
<1>6. mark' \in [Keys -> Slots \cup {None, "set"}]
  BY <1>1, <1>2 DEF BackendTypes
<1>7. QED
  BY <1>1, <1>2, <1>4, <1>5, <1>6 DEF BackendTypes, Fails

LEMMA Crashes ==
  ASSUME Typed, CrashBackend
  PROVE  BackendTypes' /\ Fails(Slots)
<1>1. BackendTypes
  BY DEF Typed
<1>2. /\ request' = [r \in Slots |-> IF request[r].state = "free" THEN Free ELSE [Free EXCEPT !.state = "failed"]]
      /\ mark' = [key \in Keys |-> IF mark[key] \in Slots THEN None ELSE mark[key]]
      /\ UNCHANGED <<agentVars, redis, stored, notified, swallowed, lineVars>>
  BY DEF CrashBackend, Released
<1>3. DEFINE q == [Free EXCEPT !.state = "failed"]
<1>4. q \in Requests /\ q.state = "failed" /\ Free \in Requests /\ Free.state = "free"
  BY FreeIs
<1> HIDE DEF q
<1>5. request' = [r \in Slots |-> IF request[r].state = "free" THEN Free ELSE q]
  BY <1>2 DEF q
<1>6. request' \in [Slots -> Requests] /\ \A r \in Slots : request'[r].state \in {"free", "failed"}
  BY <1>4, <1>5
<1>7. mark' \in [Keys -> Slots \cup {None, "set"}]
  BY <1>1, <1>2 DEF BackendTypes
<1>8. QED
  BY <1>1, <1>2, <1>6, <1>7 DEF BackendTypes, Fails

(* Redis comes and goes; that it was away once is not forgotten.           *)
LEMMA RedisMoves ==
  ASSUME Typed, RedisDown \/ RedisBack
  PROVE  /\ BackendTypes' /\ redis' # "up"
         /\ UNCHANGED <<agentVars, request, mark, stored, notified, swallowed, discarded, missed>>
<1>1. /\ redis' \in {"down", "back"}
      /\ UNCHANGED <<agentVars, request, mark, stored, notified, swallowed, discarded, missed>>
  BY DEF RedisDown, RedisBack, lineVars
<1>2. BackendTypes'
  BY <1>1 DEF Typed, BackendTypes
<1>3. QED
  BY <1>1, <1>2

(* The answer reaches the agent, or nobody.                                *)
LEMMA Answers ==
  ASSUME Typed, NEW r \in Slots, Answer(r)
  PROVE  /\ AgentTypes' /\ Route' /\ BackendTypes'
         /\ UNCHANGED <<redis, mark, stored, notified, swallowed>>
         /\ request[r].state \in {"done", "failed"} /\ request'[r] = Free
         /\ \A s \in Slots \ {r} : request'[s] = request[s]
         /\ discarded \subseteq discarded'
         /\ \/ awaiting # r /\ UNCHANGED <<agentVars, discarded, missed>>
            \/ /\ awaiting = r /\ request[r].state = "done" /\ acked' = acked + Len(Chunk) /\ awaiting' = None
               /\ UNCHANGED <<written, start, position, buffer, batch, discarded, missed>>
            \/ /\ awaiting' = None /\ acked' = 0 /\ Passed' \subseteq Passed
               /\ \A l \in Passed' : l \in Held => l \in Held'
<1>1. AgentTypes /\ Route /\ BackendTypes
  BY DEF Typed
<1>2. /\ request' = [request EXCEPT ![r] = Free] /\ request[r].state \in {"done", "failed"}
      /\ UNCHANGED <<redis, mark, stored, notified, swallowed>>
  BY DEF Answer
<1>3. /\ request' \in [Slots -> Requests] /\ request'[r] = Free
      /\ \A s \in Slots \ {r} : request'[s] = request[s]
  BY <1>1, <1>2, FreeIs DEF BackendTypes
<1>4. BackendTypes'
  BY <1>1, <1>2, <1>3 DEF BackendTypes
<1>5. CASE awaiting # r /\ UNCHANGED <<agentVars, lineVars>>
  <2>1. UNCHANGED <<discarded, missed>>
    BY <1>5 DEF lineVars
  <2>2. AgentTypes' /\ Route'
    BY <1>1, <1>5, <2>1 DEF agentVars, AgentTypes, Route, Sending
  <2>3. QED
    BY <1>2, <1>3, <1>4, <1>5, <2>1, <2>2
<1>6. CASE /\ awaiting = r /\ request[r].state = "done"
           /\ acked' = acked + Len(Chunk) /\ awaiting' = None
           /\ UNCHANGED <<written, start, position, buffer, pc, batch, stopping, lineVars>>
  <2>1. Len(batch) \in Nat /\ acked \in Nat /\ Len(Chunk) \in Nat /\ acked + Len(Chunk) <= Len(batch)
    BY <1>1, ChunkIs, LenProperties DEF AgentTypes
  <2>2. acked' \in 0..Len(batch)
    BY <1>6, <2>1
  <2>3. UNCHANGED <<discarded, missed>>
    BY <1>6 DEF lineVars
  <2>4. AgentTypes'
    BY <1>1, <1>6, <2>2, <2>3 DEF AgentTypes
  <2>5. Route'
    BY <1>1, <1>6 DEF Route, Sending
  <2>6. QED
    BY <1>2, <1>3, <1>4, <1>6, <2>3, <2>4, <2>5
<1>7. CASE awaiting = r /\ SendFails(0) /\ UNCHANGED <<written, start>>
  <2>1. Sending
    BY <1>1, <1>7, SlotAssumption DEF Route
  <2>2. QED
    BY <1>2, <1>3, <1>4, <1>7, <2>1, SendFailed
<1>8. QED
  BY <1>5, <1>6, <1>7 DEF Answer

LEMMA Steps ==
  ASSUME [Next]_vars
  PROVE  /\ dedup' = dedup
         /\ \/ UNCHANGED vars \/ AgentMoves \/ Post \/ CrashBackend \/ RedisDown \/ RedisBack
            \/ \E r \in Slots : \/ ProcessEvent(r) \/ Commit(r) \/ RunHook(r) \/ Rollback(r)
                                \/ Answer(r) \/ SwallowError(r)
BY DEF Next, vars, Agent, Backend, AgentMoves

Counted == UNCHANGED faults \/ \E n \in Nat : Faults(n)

LEMMA SendCounted ==
  ASSUME NEW m \in Nat, SendFails(m)
  PROVE  Counted
<1>1. CASE Faults(m)
  BY <1>1 DEF Counted
<1>2. CASE EnqueueEvents(batch, m)
  <2>1. PICK tried \in 0..Len(batch) : Faults(IF tried < Len(batch) THEN m + 1 ELSE m)
    BY <1>2 DEF EnqueueEvents
  <2>2. (IF tried < Len(batch) THEN m + 1 ELSE m) \in Nat
    OBVIOUS
  <2>3. QED
    BY <2>1, <2>2 DEF Counted
<1>3. QED
  BY <1>1, <1>2 DEF SendFails

LEMMA FaultsCounted ==
  ASSUME Typed, [Next]_vars
  PROVE  faults' \in 0..MaxFaults
<1>1. faults \in 0..MaxFaults /\ MaxFaults \in Nat
  BY FaultAssumption DEF Typed, TypeOK
<1>2. Fault \/ NoFault => Counted
  BY DEF Fault, NoFault, Counted
<1>3. Counted
  <2>1. CASE UNCHANGED vars
    BY <2>1 DEF vars, state, Counted
  <2>2. CASE StartFlush
    <3>1. Fault \/ NoFault
      BY <2>2 DEF StartFlush
    <3>2. QED
      BY <1>2, <3>1
  <2>3. CASE LoseRequest \/ TimeOut
    BY <2>3, SendCounted DEF LoseRequest, TimeOut
  <2>4. ASSUME NEW r \in Slots, Answer(r)
        PROVE  Counted
    <3>1. NoFault \/ SendFails(0)
      BY <2>4 DEF Answer
    <3>2. QED
      BY <1>2, <3>1, SendCounted
  <2>5. CASE \/ AppendLine \/ Rotate \/ Collect \/ FinishSend \/ RestartAgent \/ RequestStop \/ CrashAgent
    <3>1. UNCHANGED faults \/ Fault \/ NoFault
      BY <2>5 DEF AppendLine, Rotate, Collect, FinishSend, RestartAgent, RequestStop, CrashAgent
    <3>2. QED
      BY <1>2, <3>1 DEF Counted
  <2>6. CASE Post \/ CrashBackend \/ RedisDown \/ RedisBack
    <3>1. Fault \/ NoFault
      BY <2>6 DEF Post, CrashBackend, RedisDown, RedisBack
    <3>2. QED
      BY <1>2, <3>1
  <2>7. ASSUME NEW r \in Slots,
               ProcessEvent(r) \/ Commit(r) \/ RunHook(r) \/ Rollback(r) \/ SwallowError(r)
        PROVE  Counted
    <3>1. Fault \/ NoFault
      BY <2>7 DEF ProcessEvent, Commit, RunHook, Rollback, SwallowError
    <3>2. QED
      BY <1>2, <3>1
  <2>8. QED
    BY <2>1, <2>2, <2>3, <2>4, <2>5, <2>6, <2>7, Steps DEF AgentMoves
<1>4. CASE UNCHANGED faults
  BY <1>1, <1>4
<1>5. ASSUME NEW n \in Nat, Faults(n)
      PROVE  faults' \in 0..MaxFaults
  BY <1>1, <1>5 DEF Faults
<1>6. QED
  BY <1>3, <1>4, <1>5 DEF Counted

LEMMA AgentSame ==
  ASSUME AgentTypes, Route, UNCHANGED <<agentVars, missed>>, discarded' \subseteq Lines
  PROVE  AgentTypes' /\ Route'
BY DEF agentVars, AgentTypes, Route, Sending

LEMMA TypedStep ==
  ASSUME Typed, [Next]_vars
  PROVE  Typed'
<1>1. AgentTypes /\ Route /\ BackendTypes /\ dedup \in Stores /\ discarded \subseteq Lines
  BY DEF Typed, TypeOK, AgentTypes
<1>2. AgentTypes' /\ Route' /\ BackendTypes'
  <2>1. CASE UNCHANGED vars
    <3>1. UNCHANGED <<agentVars, discarded, missed, redis, request, mark, stored, notified, swallowed>>
      BY <2>1 DEF vars, state, backendVars, lineVars
    <3>2. BackendTypes'
      BY <1>1, <3>1 DEF BackendTypes
    <3>3. QED
      BY <1>1, <3>1, <3>2, AgentSame
  <2>2. CASE AgentMoves
    <3>1. AgentTypes' /\ Route' /\ backendVars' = backendVars
      BY <2>2, AgentStep
    <3>2. UNCHANGED <<redis, request, mark, stored, notified, swallowed>>
      BY <3>1 DEF backendVars
    <3>3. BackendTypes'
      BY <1>1, <3>2 DEF BackendTypes
    <3>4. QED
      BY <3>1, <3>3
  <2>3. CASE Post
    BY <2>3, Posts
  <2>4. CASE CrashBackend
    <3>1. BackendTypes' /\ UNCHANGED <<agentVars, discarded, missed>>
      BY <2>4, Crashes DEF Fails, lineVars
    <3>2. QED
      BY <1>1, <3>1, AgentSame
  <2>5. ASSUME NEW r \in Slots, ProcessEvent(r)
        PROVE  AgentTypes' /\ Route' /\ BackendTypes'
    BY <1>1, <2>5, Processes, AgentSame
  <2>6. ASSUME NEW r \in Slots, Commit(r)
        PROVE  AgentTypes' /\ Route' /\ BackendTypes'
    BY <1>1, <2>6, Commits, AgentSame
  <2>7. ASSUME NEW r \in Slots, RunHook(r)
        PROVE  AgentTypes' /\ Route' /\ BackendTypes'
    BY <1>1, <2>7, Hooks, AgentSame
  <2>8. ASSUME NEW r \in Slots, Rollback(r)
        PROVE  AgentTypes' /\ Route' /\ BackendTypes'
    <3>1. BackendTypes' /\ UNCHANGED <<agentVars, discarded, missed>>
      BY <2>8, RollsBack DEF Fails, lineVars
    <3>2. QED
      BY <1>1, <3>1, AgentSame
  <2>9. ASSUME NEW r \in Slots, Answer(r)
        PROVE  AgentTypes' /\ Route' /\ BackendTypes'
    BY <2>9, Answers
  <2>10. ASSUME NEW r \in Slots, SwallowError(r)
         PROVE  AgentTypes' /\ Route' /\ BackendTypes'
    BY <1>1, <2>10, Swallows, AgentSame
  <2>11. CASE RedisDown \/ RedisBack
    BY <1>1, <2>11, RedisMoves, AgentSame
  <2>12. QED
    BY <2>1, <2>2, <2>3, <2>4, <2>5, <2>6, <2>7, <2>8, <2>9, <2>10, <2>11, Steps
<1>3. dedup' \in Stores /\ faults' \in 0..MaxFaults
  BY <1>1, Steps, FaultsCounted
<1>4. TypeOK'
  BY <1>2, <1>3 DEF TypeOK, AgentTypes, BackendTypes, Requests
<1>5. QED
  BY <1>2, <1>4 DEF Typed

LEMMA InitTyped == Init => Typed
<1>1. SUFFICES ASSUME Init PROVE Typed
  OBVIOUS
<1>2. /\ written \in 0..NumLines /\ start = 0 /\ position = 0
      /\ buffer \in Seq(Lines) /\ Len(buffer) <= MaxBuffer
      /\ pc = "loop" /\ batch = <<>> /\ acked = 0 /\ awaiting = None
      /\ discarded = {} /\ missed = {}
  BY <1>1, BacklogAssumption DEF Init
<1>3. stopping \in BOOLEAN
  BY <1>1 DEF Init
<1>4. start \in 0..written /\ position \in 0..NumLines /\ acked \in 0..Len(batch)
  BY <1>2, NothingSent, Bounds
<1>5. AgentTypes
  BY <1>2, <1>3, <1>4, NothingSent DEF AgentTypes
<1>6. BackendTypes
  <2>1. request \in [Slots -> Requests]
    BY <1>1, FreeIs DEF Init
  <2>2. mark \in [Keys -> Slots \cup {None, "set"}] /\ stored \in [Rows -> Nat]
    BY <1>1 DEF Init
  <2>3. notified \subseteq Rows /\ swallowed \subseteq Rows /\ redis \in {"up", "down", "back"}
    BY <1>1 DEF Init
  <2>4. QED
    BY <2>1, <2>2, <2>3 DEF BackendTypes
<1>7. Route
  BY <1>1 DEF Init, Route, Sending
<1>8. dedup \in Stores /\ faults \in 0..MaxFaults
  BY <1>1, FaultAssumption DEF Init
<1>9. QED
  BY <1>5, <1>6, <1>7, <1>8, TypesAreTypeOK DEF Typed

-----------------------------------------------------------------------------
(* One mark, one row: what is stored is marked, what a transaction is about*)
(* to store it alone has marked, and nobody stored it before.              *)

StoredAreMarked == \A p \in Rows : stored[p] > 0 => mark[Key(p)] = "set"

AddedAreMarked ==
  \A r \in Slots : Open(r) => \A p \in request[r].added : mark[Key(p)] = Holder(Key(p), r)

AddedAreNew ==
  \A r \in Slots : Open(r) => \A p \in request[r].added :
    \A q \in Rows : Key(q) = Key(p) => stored[q] = 0

AddedByOne ==
  \A r, s \in Slots : Open(r) /\ Open(s) =>
    \A p \in request[r].added, q \in request[s].added : Key(q) = Key(p) => r = s /\ q = p

Ended(r) == request[r].state \in {"committed", "done"}

EndedAreStored ==
  \A r \in Slots : Ended(r) => \A p \in request[r].added : stored[p] > 0 \/ p \in swallowed

NotifiedAreStored == \A p \in notified : stored[p] > 0 \/ p \in swallowed

(* A row marked in the other store tells of an outage.                     *)
Configured(p) == p[2] = dedup \/ redis # "up"

RowsAreConfigured ==
  /\ \A r \in Slots : Open(r) => \A p \in request[r].added : Configured(p)
  /\ \A p \in Rows : stored[p] > 0 => Configured(p)

OneRowEach ==
  \A p, q \in Rows : Key(p) = Key(q) /\ stored[p] > 0 /\ stored[q] > 0 => p = q /\ stored[p] = 1

Marked ==
  /\ StoredAreMarked /\ AddedAreMarked /\ AddedAreNew /\ AddedByOne
  /\ EndedAreStored /\ NotifiedAreStored /\ RowsAreConfigured /\ OneRowEach

(* Steps that store nothing and mark nothing.                              *)
LEMMA MarkedFrame ==
  ASSUME Typed, Typed', Marked, dedup' = dedup, stored' = stored, redis # "up" => redis' # "up",
         swallowed \subseteq swallowed',
         \A p \in notified' : p \in notified \/ stored[p] > 0 \/ p \in swallowed',
         \A key \in Keys : mark[key] = "set" => mark'[key] = "set",
         \A s \in Slots, key \in Keys : Open(s)' /\ mark[key] = s => mark'[key] = s,
         \A s \in Slots : \A p \in request'[s].added :
           /\ Open(s)' => Open(s) /\ p \in request[s].added
           /\ Ended(s)' => (Ended(s) /\ p \in request[s].added) \/ p \in swallowed'
  PROVE  Marked'
<1>1. \A s \in Slots : request'[s].added \subseteq Rows
  BY DEF Typed, BackendTypes, Requests
<1>2. StoredAreMarked'
  BY RowsAre DEF Marked, StoredAreMarked, Key
<1>3. AddedAreMarked'
  <2>1. SUFFICES ASSUME NEW r \in Slots, Open(r)', NEW p \in request'[r].added
                 PROVE  mark'[Key(p)] = Holder(Key(p), r)
    BY DEF AddedAreMarked, Key, Holder
  <2>2. mark[Key(p)] = Holder(Key(p), r) /\ Key(p) \in Keys
    BY <1>1, <2>1, RowsAre DEF Marked, AddedAreMarked
  <2>3. Holder(Key(p), r) \in {"set", r}
    BY DEF Holder
  <2>4. QED
    BY <2>1, <2>2, <2>3
<1>4. AddedAreNew'
  BY DEF Marked, AddedAreNew, Key
<1>5. AddedByOne'
  BY DEF Marked, AddedByOne, Key
<1>6. EndedAreStored'
  BY DEF Marked, EndedAreStored
<1>7. NotifiedAreStored'
  BY DEF Marked, NotifiedAreStored
<1>8. OneRowEach'
  BY DEF Marked, OneRowEach, Key
<1>9. RowsAreConfigured'
  BY DEF Marked, RowsAreConfigured, Configured
<1>10. QED
  BY <1>2, <1>3, <1>4, <1>5, <1>6, <1>7, <1>8, <1>9 DEF Marked

LEMMA HolderIs ==
  ASSUME NEW r \in Slots, NEW key
  PROVE  Holder(key, r) # None /\ Holder(key, r) \in {r, "set"} /\ r # "set" /\ r # None
BY SlotAssumption DEF Holder

(* A key of a slot is nobody else's.                                       *)
LEMMA HolderIsOne ==
  ASSUME NEW r \in Slots, NEW s \in Slots, NEW key, Holder(key, s) = r
  PROVE  s = r
BY SlotAssumption DEF Holder

LEMMA MarkedProcess ==
  ASSUME Typed, Typed', Marked, dedup' = dedup, NEW r \in Slots, ProcessEvent(r)
  PROVE  Marked'
<1>1. /\ UNCHANGED <<redis, stored, notified, swallowed>> /\ Open(r) /\ request'[r].state = "open"
      /\ \A s \in Slots \ {r} : request'[s] = request[s]
  BY Processes
<1>2. \A s \in Slots : (Open(s)' => Open(s)) /\ ~Ended(r)' /\ (s # r /\ Ended(s)' => Ended(s))
  BY <1>1 DEF Open, Ended
<1>3. PICK l \in Lines :
              \/ mark' = mark /\ request'[r].added = request[r].added
              \/ /\ mark[Key(RowOf(l))] = None
                 /\ mark' = [mark EXCEPT ![Key(RowOf(l))] = Holder(Key(RowOf(l)), r)]
                 /\ request'[r].added = request[r].added \cup {RowOf(l)}
  BY Processes
<1>4. CASE mark' = mark /\ request'[r].added = request[r].added
  <2>1. \A s \in Slots : \A p \in request'[s].added :
           /\ Open(s)' => Open(s) /\ p \in request[s].added
           /\ Ended(s)' => Ended(s) /\ p \in request[s].added
    BY <1>1, <1>2, <1>4
  <2>2. QED
    BY <1>1, <1>4, <2>1, MarkedFrame
<1>5. CASE /\ mark[Key(RowOf(l))] = None
           /\ mark' = [mark EXCEPT ![Key(RowOf(l))] = Holder(Key(RowOf(l)), r)]
           /\ request'[r].added = request[r].added \cup {RowOf(l)}
  <2>1. /\ \A s \in Slots : request[s].added \subseteq Rows /\ request'[s].added \subseteq Rows
        /\ \A p \in Rows : Key(p) \in Keys
        /\ stored \in [Rows -> Nat] /\ mark \in [Keys -> Slots \cup {None, "set"}]
    BY RowsAre DEF Typed, BackendTypes, Requests
  <2>2. DEFINE row == RowOf(l)
               key == Key(row)
  <2>3. /\ row \in Rows /\ key \in Keys /\ mark'[key] = Holder(key, r) /\ mark[key] = None
        /\ \A k \in Keys \ {key} : mark'[k] = mark[k]
    BY <1>5, <2>1, RowOfIs
  <2>4. Configured(row)
    BY RowOfIs, StoreAssumption DEF Typed, TypeOK, Configured, DedupStore
  <2>5. request'[r].added = request[r].added \cup {row}
    BY <1>5
  <2> HIDE DEF row, key
  <2>6. row \in Rows /\ Key(row) = key
    BY <2>3 DEF key
  <2>7. \A p \in Rows : Key(p) = key => stored[p] = 0
    BY <2>1, <2>3, SlotAssumption DEF Marked, StoredAreMarked
  <2>8. \A s \in Slots : Open(s) => \A p \in request[s].added : Key(p) # key
    BY <2>1, <2>3, HolderIs DEF Marked, AddedAreMarked
  <2>9. \A s \in Slots : Open(s)' => Open(s) /\ \A p \in request'[s].added : p \in request[s].added \/ (s = r /\ p = row)
    BY <1>1, <1>2, <2>5
  <2>10. StoredAreMarked'
    <3>1. SUFFICES ASSUME NEW p \in Rows, stored[p] > 0
                   PROVE  mark'[Key(p)] = "set"
      BY <1>1 DEF StoredAreMarked, Key
    <3>2. mark[Key(p)] = "set" /\ Key(p) # key
      BY <2>1, <2>7, <3>1 DEF Marked, StoredAreMarked
    <3>3. QED
      BY <2>1, <2>3, <3>2
  <2>11. AddedAreMarked'
    <3>1. SUFFICES ASSUME NEW s \in Slots, Open(s)', NEW p \in request'[s].added
                   PROVE  mark'[Key(p)] = Holder(Key(p), s)
      BY DEF AddedAreMarked, Holder, Key
    <3>2. CASE s = r /\ p = row
      BY <2>3, <2>6, <3>2
    <3>3. CASE p \in request[s].added
      <4>1. Key(p) # key /\ Key(p) \in Keys /\ mark[Key(p)] = Holder(Key(p), s)
        BY <2>1, <2>8, <2>9, <3>1, <3>3 DEF Marked, AddedAreMarked
      <4>2. QED
        BY <2>3, <4>1
    <3>4. QED
      BY <2>9, <3>1, <3>2, <3>3
  <2>12. AddedAreNew'
    <3>1. SUFFICES ASSUME NEW s \in Slots, Open(s)', NEW p \in request'[s].added,
                          NEW q \in Rows, Key(q) = Key(p)
                   PROVE  stored[q] = 0
      BY <1>1 DEF AddedAreNew, Key
    <3>2. CASE s = r /\ p = row
      BY <2>6, <2>7, <3>1, <3>2
    <3>3. CASE p \in request[s].added
      BY <2>9, <3>1, <3>3 DEF Marked, AddedAreNew
    <3>4. QED
      BY <2>9, <3>1, <3>2, <3>3
  <2>13. AddedByOne'
    <3>1. SUFFICES ASSUME NEW s \in Slots, NEW t \in Slots, Open(s)', Open(t)', NEW p \in request'[s].added,
                          NEW q \in request'[t].added, Key(q) = Key(p)
                   PROVE  s = t /\ q = p
      BY DEF AddedByOne, Key
    <3>2. Open(s) /\ Open(t)
      BY <2>9, <3>1
    <3>3. CASE p \in request[s].added /\ q \in request[t].added
      BY <3>1, <3>2, <3>3 DEF Marked, AddedByOne
    <3>4. CASE p \notin request[s].added
      <4>1. s = r /\ p = row /\ Key(p) = key
        BY <2>6, <2>9, <3>1, <3>4
      <4>2. q \notin request[t].added
        BY <2>8, <3>1, <3>2, <4>1
      <4>3. QED
        BY <2>9, <3>1, <4>1, <4>2
    <3>5. CASE q \notin request[t].added
      <4>1. t = r /\ q = row /\ Key(q) = key
        BY <2>6, <2>9, <3>1, <3>5
      <4>2. p \notin request[s].added
        BY <2>8, <3>1, <3>2, <4>1
      <4>3. QED
        BY <2>9, <3>1, <4>1, <4>2
    <3>6. QED
      BY <3>3, <3>4, <3>5
  <2>14. EndedAreStored'
    BY <1>1, <1>2 DEF Marked, EndedAreStored
  <2>15. NotifiedAreStored'
    BY <1>1 DEF Marked, NotifiedAreStored
  <2>16. OneRowEach'
    BY <1>1 DEF Marked, OneRowEach, Key
  <2>17. RowsAreConfigured'
    <3>1. \A s \in Slots : Open(s)' => \A p \in request'[s].added : Configured(p)
      BY <2>4, <2>9 DEF Marked, RowsAreConfigured
    <3>2. \A p \in Rows : stored[p] > 0 => Configured(p)
      BY DEF Marked, RowsAreConfigured
    <3>3. QED
      BY <1>1, <3>1, <3>2 DEF RowsAreConfigured, Configured
  <2>18. QED
    BY <2>10, <2>11, <2>12, <2>13, <2>14, <2>15, <2>16, <2>17 DEF Marked
<1>6. QED
  BY <1>3, <1>4, <1>5

LEMMA MarkedCommit ==
  ASSUME Typed, Typed', Marked, dedup' = dedup, NEW r \in Slots, Commit(r)
  PROVE  Marked'
<1>1. /\ UNCHANGED <<redis, notified, swallowed>> /\ Open(r)
      /\ request'[r].state = "committed" /\ request'[r].added = request[r].added
      /\ \A s \in Slots \ {r} : request'[s] = request[s]
      /\ \A p \in Rows : stored'[p] = IF p \in request[r].added THEN stored[p] + 1 ELSE stored[p]
      /\ \A key \in Keys : mark'[key] = IF mark[key] = r THEN "set" ELSE mark[key]
  BY Commits
<1>2. /\ \A s \in Slots : request[s].added \subseteq Rows
      /\ \A p \in Rows : Key(p) \in Keys /\ stored[p] \in Nat
      /\ notified \subseteq Rows
  BY RowsAre DEF Typed, BackendTypes, Requests
<1>3. \A p \in Rows : /\ stored[p] > 0 => stored'[p] > 0
                      /\ p \in request[r].added => stored'[p] > 0
                      /\ p \notin request[r].added => stored'[p] = stored[p]
  BY <1>1, <1>2
<1>4. \A s \in Slots : Open(s)' => s # r /\ Open(s) /\ request'[s].added = request[s].added
  BY <1>1 DEF Open
<1>5. StoredAreMarked'
  <2>1. SUFFICES ASSUME NEW p \in Rows, stored'[p] > 0
                 PROVE  mark'[Key(p)] = "set"
    BY DEF StoredAreMarked, Key
  <2>2. CASE p \in request[r].added
    <3>1. mark[Key(p)] = Holder(Key(p), r)
      BY <1>1, <2>2 DEF Marked, AddedAreMarked
    <3>2. QED
      BY <1>1, <1>2, <3>1, HolderIs
  <2>3. CASE p \notin request[r].added
    <3>1. mark[Key(p)] = "set"
      BY <1>3, <2>1, <2>3 DEF Marked, StoredAreMarked
    <3>2. QED
      BY <1>1, <1>2, <3>1
  <2>4. QED
    BY <2>2, <2>3
<1>6. AddedAreMarked'
  <2>1. SUFFICES ASSUME NEW s \in Slots, Open(s)', NEW p \in request'[s].added
                 PROVE  mark'[Key(p)] = Holder(Key(p), s)
    BY DEF AddedAreMarked, Holder, Key
  <2>2. s # r /\ Open(s) /\ p \in request[s].added /\ p \in Rows /\ Key(p) \in Keys
    BY <1>2, <1>4, <2>1
  <2>3. mark[Key(p)] = Holder(Key(p), s) /\ Holder(Key(p), s) # r
    BY <2>2, HolderIsOne DEF Marked, AddedAreMarked
  <2>4. QED
    BY <1>1, <2>2, <2>3
<1>7. AddedAreNew'
  <2>1. SUFFICES ASSUME NEW s \in Slots, Open(s)', NEW p \in request'[s].added,
                        NEW q \in Rows, Key(q) = Key(p)
                 PROVE  stored'[q] = 0
    BY DEF AddedAreNew, Key
  <2>2. s # r /\ Open(s) /\ p \in request[s].added
    BY <1>4, <2>1
  <2>3. stored[q] = 0
    BY <2>1, <2>2 DEF Marked, AddedAreNew
  <2>4. q \notin request[r].added
    BY <1>1, <2>1, <2>2 DEF Marked, AddedByOne
  <2>5. QED
    BY <1>3, <2>3, <2>4
<1>8. AddedByOne'
  BY <1>4 DEF Marked, AddedByOne, Key
<1>9. EndedAreStored'
  <2>1. SUFFICES ASSUME NEW s \in Slots, Ended(s)', NEW p \in request'[s].added
                 PROVE  stored'[p] > 0 \/ p \in swallowed
    BY <1>1 DEF EndedAreStored
  <2>2. CASE s = r
    BY <1>1, <1>2, <1>3, <2>1, <2>2
  <2>3. CASE s # r
    <3>1. Ended(s) /\ p \in request[s].added /\ p \in Rows
      BY <1>1, <1>2, <2>1, <2>3 DEF Ended
    <3>2. QED
      BY <1>3, <3>1 DEF Marked, EndedAreStored
  <2>4. QED
    BY <2>2, <2>3
<1>10. NotifiedAreStored'
  BY <1>1, <1>2, <1>3 DEF Marked, NotifiedAreStored
<1>11. OneRowEach'
  <2>1. SUFFICES ASSUME NEW p \in Rows, NEW q \in Rows, Key(p) = Key(q),
                        stored'[p] > 0, stored'[q] > 0
                 PROVE  p = q /\ stored'[p] = 1
    BY DEF OneRowEach, Key
  <2>2. CASE p \in request[r].added /\ q \in request[r].added
    <3>1. p = q /\ stored[p] = 0
      BY <1>1, <2>1, <2>2 DEF Marked, AddedByOne, AddedAreNew
    <3>2. QED
      BY <1>1, <2>2, <3>1
  <2>3. CASE p \in request[r].added /\ q \notin request[r].added
    BY <1>1, <1>3, <2>1, <2>3 DEF Marked, AddedAreNew
  <2>4. CASE p \notin request[r].added /\ q \in request[r].added
    BY <1>1, <1>3, <2>1, <2>4 DEF Marked, AddedAreNew
  <2>5. CASE p \notin request[r].added /\ q \notin request[r].added
    BY <1>3, <2>1, <2>5 DEF Marked, OneRowEach
  <2>6. QED
    BY <2>2, <2>3, <2>4, <2>5
<1>12. RowsAreConfigured'
  <2>1. \A s \in Slots : Open(s)' => \A p \in request'[s].added : Configured(p)
    BY <1>4 DEF Marked, RowsAreConfigured
  <2>2. \A p \in Rows : stored'[p] > 0 => Configured(p)
    BY <1>1, <1>3 DEF Marked, RowsAreConfigured
  <2>3. QED
    BY <1>1, <2>1, <2>2 DEF RowsAreConfigured, Configured
<1>13. QED
  BY <1>5, <1>6, <1>7, <1>8, <1>9, <1>10, <1>11, <1>12 DEF Marked

LEMMA MarkedFails ==
  ASSUME Typed, Typed', Marked, dedup' = dedup, NEW slots \in SUBSET Slots, Fails(slots)
  PROVE  Marked'
<1>1. /\ UNCHANGED <<redis, stored, notified, swallowed>>
      /\ \A key \in Keys : mark'[key] = IF mark[key] \in slots THEN None ELSE mark[key]
      /\ \A s \in Slots \ slots : request'[s] = request[s]
      /\ \A s \in slots : request'[s].state \in {"free", "failed"}
  BY DEF Fails
<1>2. \A key \in Keys : mark[key] = "set" => mark'[key] = "set"
  BY <1>1, SlotAssumption
<1>3. \A s \in Slots : (Open(s)' \/ Ended(s)') => s \notin slots /\ request'[s] = request[s]
  BY <1>1 DEF Open, Ended
<1>4. \A s \in Slots, key \in Keys : Open(s)' /\ mark[key] = s => mark'[key] = s
  BY <1>1, <1>3
<1>5. \A s \in Slots : (Open(s)' => Open(s)) /\ (Ended(s)' => Ended(s))
  BY <1>3 DEF Open, Ended
<1>6. \A s \in Slots : \A p \in request'[s].added :
           /\ Open(s)' => Open(s) /\ p \in request[s].added
           /\ Ended(s)' => Ended(s) /\ p \in request[s].added
  BY <1>3, <1>5
<1>7. QED
  BY <1>1, <1>2, <1>4, <1>6, MarkedFrame

LEMMA MarkedSwallow ==
  ASSUME Typed, Typed', Marked, dedup' = dedup, NEW r \in Slots, SwallowError(r)
  PROVE  Marked'
<1>1. /\ UNCHANGED <<redis, stored, notified>>
      /\ request'[r].state = "committed" /\ request'[r].added = request[r].added
      /\ \A s \in Slots \ {r} : request'[s] = request[s]
      /\ swallowed' = swallowed \cup request[r].added
      /\ \A key \in Keys : mark'[key] = IF mark[key] = r THEN None ELSE mark[key]
  BY Swallows
<1>2. \A s \in Slots : Open(s)' => s # r
  BY <1>1 DEF Open
<1>3. \A key \in Keys : mark[key] = "set" => mark'[key] = "set"
  BY <1>1, SlotAssumption
<1>4. \A s \in Slots, key \in Keys : Open(s)' /\ mark[key] = s => mark'[key] = s
  BY <1>1, <1>2
<1>5. \A s \in Slots \ {r} : (Open(s)' => Open(s)) /\ (Ended(s)' => Ended(s))
  BY <1>1 DEF Open, Ended
<1>6. \A s \in Slots : \A p \in request'[s].added :
           /\ Open(s)' => Open(s) /\ p \in request[s].added
           /\ Ended(s)' => (Ended(s) /\ p \in request[s].added) \/ p \in swallowed'
  <2>1. SUFFICES ASSUME NEW s \in Slots, NEW p \in request'[s].added
                 PROVE  /\ Open(s)' => Open(s) /\ p \in request[s].added
                        /\ Ended(s)' => (Ended(s) /\ p \in request[s].added) \/ p \in swallowed'
    OBVIOUS
  <2>2. CASE s = r
    BY <1>1, <1>2, <2>1, <2>2
  <2>3. CASE s # r
    BY <1>1, <1>5, <2>1, <2>3
  <2>4. QED
    BY <2>2, <2>3
<1>7. swallowed \subseteq swallowed'
  BY <1>1
<1>8. QED
  BY <1>1, <1>3, <1>4, <1>6, <1>7, MarkedFrame

LEMMA MarkedStep ==
  ASSUME Typed, Typed', Marked, [Next]_vars
  PROVE  Marked'
<1>1. dedup' = dedup
  BY Steps
<1>2. CASE \/ UNCHANGED <<redis, request, mark, stored, notified, swallowed>>
           \/ redis' # "up" /\ UNCHANGED <<request, mark, stored, notified, swallowed>>
  <2>1. \A s \in Slots : (Open(s)' => Open(s)) /\ (Ended(s)' => Ended(s))
    BY <1>2 DEF Open, Ended
  <2>2. \A s \in Slots : \A p \in request'[s].added :
           /\ Open(s)' => Open(s) /\ p \in request[s].added
           /\ Ended(s)' => Ended(s) /\ p \in request[s].added
    BY <1>2, <2>1
  <2>3. QED
    BY <1>1, <1>2, <2>2, MarkedFrame
<1>3. CASE UNCHANGED vars \/ AgentMoves \/ RedisDown \/ RedisBack
  <2>1. CASE UNCHANGED vars
    BY <1>2, <2>1 DEF vars, state, backendVars
  <2>2. CASE AgentMoves
    BY <1>2, <2>2, AgentStep DEF backendVars
  <2>3. CASE RedisDown \/ RedisBack
    BY <1>2, <2>3, RedisMoves
  <2>4. QED
    BY <1>3, <2>1, <2>2, <2>3
<1>4. CASE Post
  <2>1. /\ UNCHANGED <<redis, mark, stored, notified, swallowed>> /\ awaiting' \in Slots
        /\ request'[awaiting'] = [state |-> "open", todo |-> Chunk, added |-> {}]
        /\ \A s \in Slots \ {awaiting'} : request'[s] = request[s]
    BY <1>4, Posts
  <2>2. request'[awaiting'].added = {}
    BY <2>1
  <2>3. \A s \in Slots \ {awaiting'} : (Open(s)' => Open(s)) /\ (Ended(s)' => Ended(s))
    BY <2>1 DEF Open, Ended
  <2>4. \A s \in Slots : \A p \in request'[s].added :
           /\ Open(s)' => Open(s) /\ p \in request[s].added
           /\ Ended(s)' => Ended(s) /\ p \in request[s].added
    BY <2>1, <2>2, <2>3
  <2>5. QED
    BY <1>1, <2>1, <2>4, MarkedFrame
<1>5. CASE CrashBackend
  BY <1>1, <1>5, Crashes, MarkedFails
<1>6. ASSUME NEW r \in Slots, ProcessEvent(r) \/ Commit(r) \/ SwallowError(r)
      PROVE  Marked'
  BY <1>1, <1>6, MarkedProcess, MarkedCommit, MarkedSwallow
<1>7. ASSUME NEW r \in Slots, RunHook(r)
      PROVE  Marked'
  <2>1. /\ UNCHANGED <<redis, mark, stored, swallowed>>
        /\ request[r].state = "committed" /\ request'[r].state = "done" /\ request'[r].added = request[r].added
        /\ \A s \in Slots \ {r} : request'[s] = request[s]
        /\ notified' \subseteq notified \cup request[r].added
    BY <1>7, Hooks
  <2>2. \A s \in Slots : (Open(s)' => Open(s)) /\ (Ended(s)' => Ended(s)) /\ request'[s].added = request[s].added
    BY <2>1 DEF Open, Ended
  <2>3. \A p \in notified' : p \in notified \/ stored[p] > 0 \/ p \in swallowed
    <3>1. \A p \in request[r].added : stored[p] > 0 \/ p \in swallowed
      BY <2>1 DEF Marked, EndedAreStored, Ended
    <3>2. QED
      BY <2>1, <3>1
  <2>4. QED
    BY <1>1, <2>1, <2>2, <2>3, MarkedFrame
<1>8. ASSUME NEW r \in Slots, Rollback(r)
      PROVE  Marked'
  <2>1. Fails({r}) /\ {r} \in SUBSET Slots
    BY <1>8, RollsBack
  <2>2. QED
    BY <1>1, <2>1, MarkedFails
<1>9. ASSUME NEW r \in Slots, Answer(r)
      PROVE  Marked'
  <2>1. /\ UNCHANGED <<redis, mark, stored, notified, swallowed>> /\ request'[r] = Free
        /\ \A s \in Slots \ {r} : request'[s] = request[s]
    BY <1>9, Answers
  <2>2. request'[r].added = {}
    BY <2>1, FreeIs
  <2>3. \A s \in Slots \ {r} : (Open(s)' => Open(s)) /\ (Ended(s)' => Ended(s))
    BY <2>1 DEF Open, Ended
  <2>4. \A s \in Slots : \A p \in request'[s].added :
           /\ Open(s)' => Open(s) /\ p \in request[s].added
           /\ Ended(s)' => Ended(s) /\ p \in request[s].added
    BY <2>1, <2>2, <2>3
  <2>5. QED
    BY <1>1, <2>1, <2>4, MarkedFrame
<1>10. QED
  BY <1>3, <1>4, <1>5, <1>6, <1>7, <1>8, <1>9, Steps

LEMMA InitMarked == Init => Marked
<1>1. SUFFICES ASSUME Init PROVE Marked
  OBVIOUS
<1>2. /\ \A r \in Slots : request[r].state = "free" /\ request[r].added = {}
      /\ \A p \in Rows : stored[p] = 0
      /\ notified = {}
  BY <1>1, FreeIs DEF Init
<1>3. QED
  BY <1>2 DEF Marked, StoredAreMarked, AddedAreMarked, AddedAreNew, AddedByOne, EndedAreStored, NotifiedAreStored, RowsAreConfigured, OneRowEach, Open, Ended

(* However often a batch comes - after a lost answer, a crash before the   *)
(* rows are deleted, a log read again, or in two requests of one agent side*)
(* by side - each store of marks lets an event in once, and an event gets  *)
(* two rows only when Redis was out of reach in between (StoredOnce).  A   *)
(* row has a mark, and a mark has one owner.                               *)
THEOREM EventsStoredOnce == Spec => []StoredOnce
<1>1. Init => Typed /\ Marked
  BY InitTyped, InitMarked
<1>2. (Typed /\ Marked) /\ [Next]_vars => (Typed /\ Marked)'
  BY TypedStep, MarkedStep
<1>3. Typed /\ Marked => StoredOnce
  BY DEF Marked, OneRowEach, RowsAreConfigured, Configured, StoredOnce
<1>4. QED
  BY <1>1, <1>2, <1>3, PTL DEF Spec

-----------------------------------------------------------------------------
(* A mark in Postgres stands for a row, stored or about to be stored with  *)
(* it; an answer tells the agent the truth, but for the named exceptions.  *)

InRedis(f) == <<f, "redis">>

InTable(f) == <<f, "postgres">>

MarksAreEarned ==
  /\ \A f \in Fingerprints :
       mark[InTable(f)] = "set" => \E p \in Rows : Fingerprint[p[1]] = f /\ stored[p] > 0
  /\ \A f \in Fingerprints, r \in Slots :
       mark[InTable(f)] = r => Open(r) /\ \E p \in request[r].added : Fingerprint[p[1]] = f
  /\ \A f \in Fingerprints : mark[InRedis(f)] \notin Slots

(* Stored under its fingerprint, or lost in a way that has a name.         *)
Known(l) == IsStored(l) \/ Swallowed(l) \/ MarkedInRedis(l)

(* Or refused for good.                                                    *)
Handled(l) == Known(l) \/ l \in Rejected \cap discarded

(* What the request the agent waits for has done, and has still to do.     *)
AnswerIsTrue ==
  awaiting # None =>
    \A l \in LinesOf(Chunk) :
      /\ Open(awaiting) =>
           l \in LinesOf(request[awaiting].todo) \/ Handled(l) \/ mark[InTable(Fingerprint[l])] = awaiting
      /\ Ended(awaiting) => Handled(l)

AckedAreHandled == \A i \in 1..acked : Handled(batch[i])

ReadAreKept == \A l \in Passed : l \in Held \/ Known(l)

Trusted == MarksAreEarned /\ AnswerIsTrue /\ AckedAreHandled /\ ReadAreKept

(* What is handled stays handled.                                          *)
Grows ==
  /\ discarded \subseteq discarded' /\ swallowed \subseteq swallowed'
  /\ \A p \in Rows : stored[p] > 0 => stored'[p] > 0
  /\ \A f \in Fingerprints : mark[InRedis(f)] = "set" => mark'[InRedis(f)] = "set"

LEMMA StaysHandled ==
  ASSUME Grows, NEW l \in Lines
  PROVE  (Known(l) => Known(l)') /\ (Handled(l) => Handled(l)')
<1>1. IsStored(l) => IsStored(l)'
  BY DEF Grows, IsStored
<1>2. Swallowed(l) => Swallowed(l)'
  BY DEF Grows, Swallowed
<1>3. MarkedInRedis(l) => MarkedInRedis(l)'
  BY RowsAre DEF Grows, MarkedInRedis, InRedis
<1>4. QED
  BY <1>1, <1>2, <1>3 DEF Grows, Handled, Known

(* The lines in the agent's hands are lines.                               *)
LEMMA BatchIs ==
  ASSUME Typed
  PROVE  /\ LinesOf(batch) \subseteq Lines /\ LinesOf(Chunk) \subseteq Lines
         /\ Passed \subseteq Lines /\ acked \in Nat
         /\ \A i \in 1..Len(batch) : batch[i] \in LinesOf(batch)
         /\ \A i \in 1..acked : batch[i] \in Lines
<1>1. batch \in Seq(Lines) /\ acked \in 0..Len(batch) /\ Len(batch) \in Nat
  BY LenProperties DEF Typed, AgentTypes
<1>2. LinesOf(batch) \subseteq Lines /\ LinesOf(batch) = {batch[i] : i \in 1..Len(batch)}
  BY <1>1, LinesOfIs
<1>3. LinesOf(Chunk) \subseteq Lines
  BY ChunkIs, LinesOfIs DEF Typed
<1>4. Passed \subseteq Lines
  BY Numbers DEF Typed, Passed
<1>5. \A i \in 1..acked : i \in 1..Len(batch)
  BY <1>1
<1>6. QED
  BY <1>1, <1>2, <1>3, <1>4, <1>5

LEMMA ChunkSame ==
  ASSUME UNCHANGED <<batch, acked>>
  PROVE  Chunk' = Chunk
BY DEF Chunk

(* The request the agent waits for does not move.                          *)
LEMMA AnswerFrame ==
  ASSUME Typed, AnswerIsTrue, Grows, UNCHANGED <<awaiting, batch, acked>>,
         awaiting # None => request'[awaiting] = request[awaiting],
         \A key \in Keys : awaiting # None /\ Open(awaiting) /\ mark[key] = awaiting => mark'[key] = awaiting
  PROVE  AnswerIsTrue'
<1>1. LinesOf(Chunk) \subseteq Lines /\ LinesOf(Chunk') = LinesOf(Chunk)
  BY BatchIs, ChunkSame
<1>2. \A l \in Lines : InTable(Fingerprint[l]) \in Keys
  BY RowsAre DEF InTable
<1>3. SUFFICES ASSUME awaiting # None, NEW l \in LinesOf(Chunk)
               PROVE  /\ Open(awaiting)' => \/ l \in LinesOf(request'[awaiting].todo) \/ Handled(l)'
                                            \/ mark'[InTable(Fingerprint[l])] = awaiting
                      /\ Ended(awaiting)' => Handled(l)'
  BY <1>1 DEF AnswerIsTrue, InTable
<1>4. request'[awaiting] = request[awaiting] /\ InTable(Fingerprint[l]) \in Keys
  BY <1>1, <1>2, <1>3
<1>5. (Open(awaiting)' <=> Open(awaiting)) /\ (Ended(awaiting)' <=> Ended(awaiting))
  BY <1>4 DEF Open, Ended
<1>6. Handled(l) => Handled(l)'
  BY <1>1, StaysHandled
<1>7. QED
  BY <1>3, <1>4, <1>5, <1>6 DEF AnswerIsTrue

LEMMA NobodyAwaited ==
  ASSUME awaiting' = None
  PROVE  AnswerIsTrue'
BY DEF AnswerIsTrue

LEMMA AckedFrame ==
  ASSUME Typed, AckedAreHandled, Grows, acked' = 0 \/ UNCHANGED <<batch, acked>>
  PROVE  AckedAreHandled'
<1>1. CASE acked' = 0
  BY <1>1 DEF AckedAreHandled
<1>2. CASE UNCHANGED <<batch, acked>>
  <2>1. \A i \in 1..acked : Handled(batch[i])'
    BY BatchIs, StaysHandled, <1>2 DEF AckedAreHandled
  <2>2. QED
    BY <1>2, <2>1 DEF AckedAreHandled
<1>3. QED
  BY <1>1, <1>2

LEMMA KeptFrame ==
  ASSUME Typed, ReadAreKept, Grows, UNCHANGED <<written, start, position, batch, buffer, missed>>
  PROVE  ReadAreKept'
<1>1. Passed' = Passed /\ Held \subseteq Held'
  BY DEF Passed, Held, Grows
<1>2. QED
  BY <1>1, BatchIs, StaysHandled DEF ReadAreKept

(* What the frames of an agent that does nothing rest on.                  *)
LEMMA AgentVars ==
  ASSUME UNCHANGED agentVars
  PROVE  UNCHANGED <<written, start, position, buffer, batch, acked, awaiting>>
BY DEF agentVars

LEMMA TrustedAgent ==
  ASSUME Typed, Trusted, AgentMoves
  PROVE  Trusted'
<1>1. UNCHANGED <<request, mark, stored, notified, swallowed>> /\ Grows
  BY AgentStep DEF backendVars, Grows
<1>2. MarksAreEarned'
  BY <1>1 DEF Trusted, MarksAreEarned, Open, InRedis, InTable
<1>3. AnswerIsTrue'
  BY <1>1, AgentStep, NobodyAwaited, AnswerFrame DEF Trusted
<1>4. AckedAreHandled'
  BY <1>1, AgentStep, AckedFrame DEF Trusted
<1>5. ReadAreKept'
  <2>1. SUFFICES ASSUME NEW l \in Passed'
                 PROVE  l \in Held' \/ Known(l)'
    BY DEF ReadAreKept
  <2>2. CASE l \in Passed /\ l \notin Held
    BY <1>1, <2>2, BatchIs, StaysHandled DEF Trusted, ReadAreKept
  <2>3. CASE acked = Len(batch) /\ l \in LinesOf(batch)
    <3>1. PICK i \in 1..Len(batch) : l = batch[i]
      BY <2>3, LinesOfIs DEF Typed, AgentTypes
    <3>2. Handled(l) /\ l \in Lines
      BY <2>3, <3>1, BatchIs DEF Trusted, AckedAreHandled
    <3>3. Handled(l)'
      BY <1>1, <3>2, StaysHandled
    <3>4. QED
      BY <3>3 DEF Handled, Held
  <2>4. QED
    BY <2>1, <2>2, <2>3, AgentStep
<1>6. QED
  BY <1>2, <1>3, <1>4, <1>5 DEF Trusted

LEMMA TrustedPost ==
  ASSUME Typed, Typed', Trusted, Post
  PROVE  Trusted'
<1>1. /\ UNCHANGED <<written, start, position, buffer, batch, acked, mark, stored, swallowed, discarded, missed>>
      /\ awaiting' \in Slots /\ request[awaiting'] = Free
      /\ request'[awaiting'] = [state |-> "open", todo |-> Chunk, added |-> {}]
      /\ \A s \in Slots \ {awaiting'} : request'[s] = request[s]
  BY Posts
<1>2. Grows
  BY <1>1 DEF Grows
<1>3. MarksAreEarned'
  <2>1. ~Open(awaiting')
    BY <1>1, FreeIs DEF Open
  <2>2. \A f \in Fingerprints : mark[InTable(f)] # awaiting'
    BY <1>1, <2>1 DEF Trusted, MarksAreEarned
  <2>3. QED
    BY <1>1, <2>2 DEF Trusted, MarksAreEarned, Open, InRedis, InTable
<1>4. AnswerIsTrue'
  <2>1. Chunk' = Chunk
    BY <1>1, ChunkSame
  <2>2. request'[awaiting'].todo = Chunk /\ request'[awaiting'].state = "open"
    BY <1>1
  <2>3. QED
    BY <2>1, <2>2 DEF AnswerIsTrue, Ended
<1>5. AckedAreHandled' /\ ReadAreKept'
  BY <1>1, <1>2, AckedFrame, KeptFrame DEF Trusted
<1>6. QED
  BY <1>3, <1>4, <1>5 DEF Trusted

(* What an event's mark becomes when it is processed.                      *)
LEMMA MarkTaken ==
  ASSUME Typed, NEW r \in Slots, NEW l \in Lines, mark[Key(RowOf(l))] = None,
         mark' = [mark EXCEPT ![Key(RowOf(l))] = Holder(Key(RowOf(l)), r)]
  PROVE  /\ \A key \in Keys : mark'[key] = mark[key] \/ (key = Key(RowOf(l)) /\ mark[key] = None)
         /\ \/ DedupStore = "redis" /\ mark'[InRedis(Fingerprint[l])] = "set" /\ Key(RowOf(l)) = InRedis(Fingerprint[l])
            \/ DedupStore = "postgres" /\ mark'[InTable(Fingerprint[l])] = r /\ Key(RowOf(l)) = InTable(Fingerprint[l])
<1>1. mark \in [Keys -> Slots \cup {None, "set"}]
  BY DEF Typed, BackendTypes
<1>2. /\ Key(RowOf(l)) = <<Fingerprint[l], DedupStore>> /\ Key(RowOf(l)) \in Keys
      /\ DedupStore \in {"redis", "postgres"}
  BY RowOfIs
<1>3. DEFINE key == Key(RowOf(l))
<1>4. key \in Keys /\ key = <<Fingerprint[l], DedupStore>> /\ mark[key] = None /\ mark' = [mark EXCEPT ![key] = Holder(key, r)]
  BY <1>2
<1> HIDE DEF key
<1>5. mark'[key] = Holder(key, r) /\ \A k \in Keys \ {key} : mark'[k] = mark[k]
  BY <1>1, <1>4
<1>6. Holder(key, r) = IF DedupStore = "redis" THEN "set" ELSE r
  BY <1>4 DEF Holder
<1>7. \A k \in Keys : mark'[k] = mark[k] \/ (k = key /\ mark[k] = None)
  BY <1>4, <1>5
<1>8. CASE DedupStore = "redis"
  <2>1. key = InRedis(Fingerprint[l]) /\ Holder(key, r) = "set"
    BY <1>4, <1>6, <1>8 DEF InRedis
  <2>2. QED
    BY <1>5, <1>7, <1>8, <2>1 DEF key
<1>9. CASE DedupStore = "postgres"
  <2>1. key = InTable(Fingerprint[l]) /\ Holder(key, r) = r
    BY <1>4, <1>6, <1>9 DEF InTable
  <2>2. QED
    BY <1>5, <1>7, <1>9, <2>1 DEF key
<1>10. QED
  BY <1>2, <1>8, <1>9

LEMMA TablesDiffer ==
  ASSUME NEW f, NEW g
  PROVE  InRedis(f) # InTable(g) /\ (InTable(f) = InTable(g) => f = g) /\ (InRedis(f) = InRedis(g) => f = g)
BY DEF InRedis, InTable

LEMMA TrustedProcess ==
  ASSUME Typed, Typed', Trusted, NEW r \in Slots, ProcessEvent(r)
  PROVE  Trusted'
<1>1. /\ UNCHANGED <<agentVars, stored, notified, swallowed, missed>> /\ discarded \subseteq discarded'
      /\ Open(r) /\ request'[r].state = "open"
      /\ \A s \in Slots \ {r} : request'[s] = request[s]
  BY Processes
<1>2. PICK l \in Lines :
        /\ LinesOf(request[r].todo) = {l} \cup LinesOf(request'[r].todo)
        /\ \/ /\ l \in Rejected /\ l \in discarded' /\ mark' = mark
              /\ request'[r].added = request[r].added
           \/ /\ mark[Key(RowOf(l))] = None
              /\ mark' = [mark EXCEPT ![Key(RowOf(l))] = Holder(Key(RowOf(l)), r)]
              /\ request'[r].added = request[r].added \cup {RowOf(l)}
           \/ /\ mark[Key(RowOf(l))] \in {r, "set"} /\ mark' = mark
              /\ request'[r].added = request[r].added
  BY Processes
<1>3. /\ \A f \in Fingerprints : InRedis(f) \in Keys /\ InTable(f) \in Keys
      /\ \A k \in Lines : Fingerprint[k] \in Fingerprints
      /\ r # "set" /\ r # None /\ None \notin Slots /\ "set" # None
  BY RowsAre, SlotAssumption DEF InRedis, InTable
<1>4. /\ RowOf(l)[1] = l /\ Key(RowOf(l)) = <<Fingerprint[l], DedupStore>>
      /\ DedupStore \in {"redis", "postgres"}
  BY RowOfIs
<1>5. /\ \A f \in Fingerprints : /\ mark'[InTable(f)] = mark[InTable(f)] \/ (mark'[InTable(f)] = r /\ f = Fingerprint[l])
                                 /\ mark[InTable(f)] # None => mark'[InTable(f)] = mark[InTable(f)]
                                 /\ mark'[InRedis(f)] = mark[InRedis(f)] \/ (mark'[InRedis(f)] = "set" /\ f = Fingerprint[l])
      /\ request[r].added \subseteq request'[r].added
      /\ mark'[InTable(Fingerprint[l])] # mark[InTable(Fingerprint[l])] => RowOf(l) \in request'[r].added
      /\ \A key \in Keys : mark[key] # None => mark'[key] = mark[key]
  <2>1. CASE mark' = mark /\ request'[r].added = request[r].added
    BY <1>3, <2>1
  <2>2. CASE /\ mark[Key(RowOf(l))] = None
             /\ mark' = [mark EXCEPT ![Key(RowOf(l))] = Holder(Key(RowOf(l)), r)]
             /\ request'[r].added = request[r].added \cup {RowOf(l)}
    <3>1. /\ \A key \in Keys : mark'[key] = mark[key] \/ (key = Key(RowOf(l)) /\ mark[key] = None)
          /\ \/ mark'[InRedis(Fingerprint[l])] = "set" /\ Key(RowOf(l)) = InRedis(Fingerprint[l])
             \/ mark'[InTable(Fingerprint[l])] = r /\ Key(RowOf(l)) = InTable(Fingerprint[l])
      BY <2>2, MarkTaken
    <3>2. ASSUME NEW f \in Fingerprints
          PROVE  /\ mark'[InTable(f)] = mark[InTable(f)] \/ (mark'[InTable(f)] = r /\ f = Fingerprint[l])
                 /\ mark[InTable(f)] # None => mark'[InTable(f)] = mark[InTable(f)]
                 /\ mark'[InRedis(f)] = mark[InRedis(f)] \/ (mark'[InRedis(f)] = "set" /\ f = Fingerprint[l])
      BY <1>3, <3>1, TablesDiffer
    <3>3. \A key \in Keys : mark[key] # None => mark'[key] = mark[key]
      BY <3>1
    <3>4. RowOf(l) \in request'[r].added /\ request[r].added \subseteq request'[r].added
      BY <2>2
    <3>5. QED
      BY <1>3, <3>2, <3>3, <3>4
  <2>3. QED
    BY <1>2, <2>1, <2>2
<1>6. UNCHANGED <<written, start, position, buffer, batch, acked, awaiting, missed>>
  BY <1>1, AgentVars
<1>7. Grows
  <2>1. \A f \in Fingerprints : mark[InRedis(f)] = "set" => mark'[InRedis(f)] = "set"
    BY <1>5
  <2>2. QED
    BY <1>1, <2>1 DEF Grows
<1>8. MarksAreEarned'
  <2>1. ASSUME NEW f \in Fingerprints, mark'[InTable(f)] = "set"
        PROVE  \E p \in Rows : Fingerprint[p[1]] = f /\ stored'[p] > 0
    <3>1. mark[InTable(f)] = "set"
      BY <1>3, <1>5, <2>1
    <3>2. QED
      BY <1>1, <3>1 DEF Trusted, MarksAreEarned
  <2>2. ASSUME NEW f \in Fingerprints, NEW s \in Slots, mark'[InTable(f)] = s
        PROVE  Open(s)' /\ \E p \in request'[s].added : Fingerprint[p[1]] = f
    <3>1. CASE mark[InTable(f)] = s
      <4>1. Open(s) /\ \E p \in request[s].added : Fingerprint[p[1]] = f
        BY <3>1 DEF Trusted, MarksAreEarned
      <4>2. CASE s = r
        BY <1>1, <1>5, <4>1, <4>2 DEF Open
      <4>3. CASE s # r
        BY <1>1, <4>1, <4>3 DEF Open
      <4>4. QED
        BY <4>2, <4>3
    <3>2. CASE mark[InTable(f)] # s
      <4>1. f = Fingerprint[l] /\ s = r /\ RowOf(l) \in request'[r].added
        BY <1>5, <2>2, <3>2
      <4>2. QED
        BY <1>1, <1>4, <4>1 DEF Open
    <3>3. QED
      BY <3>1, <3>2
  <2>3. \A f \in Fingerprints : mark'[InRedis(f)] \notin Slots
    BY <1>5, SlotAssumption DEF Trusted, MarksAreEarned
  <2>4. QED
    BY <2>1, <2>2, <2>3 DEF MarksAreEarned, InRedis, InTable
<1>9. AnswerIsTrue'
  <2>1. CASE awaiting # r
    <3>1. awaiting # None => request'[awaiting] = request[awaiting]
      BY <1>1, <2>1 DEF Typed, AgentTypes
    <3>2. \A key \in Keys : awaiting # None /\ Open(awaiting) /\ mark[key] = awaiting => mark'[key] = awaiting
      BY <1>5
    <3>3. QED
      BY <1>6, <1>7, <3>1, <3>2, AnswerFrame DEF Trusted
  <2>2. CASE awaiting = r
    <3>1. LinesOf(Chunk) \subseteq Lines /\ Chunk' = Chunk
      BY <1>6, BatchIs, ChunkSame
    <3>2. SUFFICES ASSUME NEW k \in LinesOf(Chunk)
                   PROVE  k \in LinesOf(request'[r].todo) \/ Handled(k)' \/ mark'[InTable(Fingerprint[k])] = r
      BY <1>1, <1>6, <2>2, <3>1 DEF AnswerIsTrue, Ended, InTable
    <3>3. k \in LinesOf(request[r].todo) \/ Handled(k) \/ mark[InTable(Fingerprint[k])] = r
      BY <1>1, <1>3, <2>2, <3>2 DEF Trusted, AnswerIsTrue
    <3>4. CASE k = l
      <4>1. CASE l \in Rejected /\ l \in discarded'
        BY <3>4, <4>1 DEF Handled
      <4>2. CASE /\ mark[Key(RowOf(l))] = None
                 /\ mark' = [mark EXCEPT ![Key(RowOf(l))] = Holder(Key(RowOf(l)), r)]
        <5>1. mark'[InRedis(Fingerprint[l])] = "set" \/ mark'[InTable(Fingerprint[l])] = r
          BY <4>2, MarkTaken
        <5>2. mark'[InRedis(Fingerprint[l])] = "set" => MarkedInRedis(l)'
          BY DEF MarkedInRedis, InRedis
        <5>3. QED
          BY <3>4, <5>1, <5>2 DEF Handled, Known
      <4>3. CASE mark[Key(RowOf(l))] \in {r, "set"} /\ mark' = mark
        <5>1. CASE DedupStore = "redis"
          <6>1. Key(RowOf(l)) = InRedis(Fingerprint[l])
            BY <1>4, <5>1 DEF InRedis
          <6>2. mark[InRedis(Fingerprint[l])] = "set"
            BY <1>3, <4>3, <6>1 DEF Trusted, MarksAreEarned
          <6>3. MarkedInRedis(l)'
            BY <4>3, <6>2 DEF MarkedInRedis, InRedis
          <6>4. QED
            BY <3>4, <6>3 DEF Handled, Known
        <5>2. CASE DedupStore = "postgres"
          <6>1. Key(RowOf(l)) = InTable(Fingerprint[l])
            BY <1>4, <5>2 DEF InTable
          <6>2. CASE mark[InTable(Fingerprint[l])] = r
            BY <3>4, <4>3, <6>2
          <6>3. CASE mark[InTable(Fingerprint[l])] = "set"
            <7>1. IsStored(l)
              BY <1>3, <6>3 DEF Trusted, MarksAreEarned, IsStored
            <7>2. Handled(l)
              BY <7>1 DEF Handled, Known
            <7>3. QED
              BY <1>7, <3>4, <7>2, StaysHandled
          <6>4. QED
            BY <4>3, <6>1, <6>2, <6>3
        <5>3. QED
          BY <1>4, <5>1, <5>2
      <4>4. QED
        BY <1>2, <4>1, <4>2, <4>3
    <3>5. CASE k # l
      <4>1. Handled(k) => Handled(k)'
        BY <1>7, <3>1, <3>2, StaysHandled
      <4>2. mark[InTable(Fingerprint[k])] = r => mark'[InTable(Fingerprint[k])] = r
        BY <1>3, <1>5, <3>1, <3>2
      <4>3. k \in LinesOf(request[r].todo) => k \in LinesOf(request'[r].todo)
        BY <1>2, <3>5
      <4>4. QED
        BY <3>3, <4>1, <4>2, <4>3
    <3>6. QED
      BY <3>4, <3>5
  <2>3. QED
    BY <2>1, <2>2
<1>10. AckedAreHandled' /\ ReadAreKept'
  BY <1>6, <1>7, AckedFrame, KeptFrame DEF Trusted
<1>11. QED
  BY <1>8, <1>9, <1>10 DEF Trusted

(* The transaction of r is over, and what it was about to store is stored, *)
(* or its failure swallowed.                                               *)
LEMMA TrustedEnds ==
  ASSUME Typed, Typed', Trusted, NEW r \in Slots, Open(r), request[r].todo = <<>>,
         request'[r].state = "committed", \A s \in Slots \ {r} : request'[s] = request[s],
         UNCHANGED <<agentVars, missed>>, Grows,
         \A key \in Keys : mark[key] # r => mark'[key] = mark[key],
         \A key \in Keys : mark[key] = r => mark'[key] \in {None, "set"},
         \A f \in Fingerprints : mark'[InTable(f)] = "set" => \E p \in Rows : Fingerprint[p[1]] = f /\ stored'[p] > 0,
         \A f \in Fingerprints : mark[InTable(f)] = r =>
           (\E p \in Rows : Fingerprint[p[1]] = f /\ stored'[p] > 0) \/ (\E p \in swallowed' : Fingerprint[p[1]] = f)
  PROVE  Trusted'
<1>1. /\ \A f \in Fingerprints : InRedis(f) \in Keys /\ InTable(f) \in Keys
      /\ \A k \in Lines : Fingerprint[k] \in Fingerprints
      /\ None \notin Slots /\ "set" \notin Slots
  BY RowsAre, SlotAssumption DEF InRedis, InTable
<1>2. UNCHANGED <<written, start, position, buffer, batch, acked, awaiting, missed>>
  BY AgentVars
<1>3. MarksAreEarned'
  <2>1. ASSUME NEW f \in Fingerprints, NEW s \in Slots, mark'[InTable(f)] = s
        PROVE  Open(s)' /\ \E p \in request'[s].added : Fingerprint[p[1]] = f
    <3>1. mark[InTable(f)] = s /\ s # r
      BY <1>1, <2>1
    <3>2. QED
      BY <3>1 DEF Trusted, MarksAreEarned, Open
  <2>2. \A f \in Fingerprints : mark'[InRedis(f)] \notin Slots
    BY <1>1 DEF Trusted, MarksAreEarned
  <2>3. QED
    BY <2>1, <2>2 DEF MarksAreEarned, InRedis, InTable
<1>4. AnswerIsTrue'
  <2>1. CASE awaiting # r
    <3>1. awaiting # None => request'[awaiting] = request[awaiting]
      BY <2>1 DEF Typed, AgentTypes
    <3>2. \A key \in Keys : awaiting # None /\ Open(awaiting) /\ mark[key] = awaiting => mark'[key] = awaiting
      BY <2>1
    <3>3. QED
      BY <1>2, <3>1, <3>2, AnswerFrame DEF Trusted
  <2>2. CASE awaiting = r
    <3>1. LinesOf(Chunk) \subseteq Lines /\ Chunk' = Chunk /\ LinesOf(request[r].todo) = {}
      BY <1>2, BatchIs, ChunkSame, NothingSent
    <3>2. SUFFICES ASSUME NEW k \in LinesOf(Chunk)
                   PROVE  Handled(k)'
      BY <1>2, <2>2, <3>1 DEF AnswerIsTrue, Open
    <3>3. Handled(k) \/ mark[InTable(Fingerprint[k])] = r
      BY <1>1, <2>2, <3>1, <3>2 DEF Trusted, AnswerIsTrue
    <3>4. CASE Handled(k)
      BY <3>1, <3>2, <3>4, StaysHandled
    <3>5. CASE mark[InTable(Fingerprint[k])] = r
      <4>1. \/ \E p \in Rows : Fingerprint[p[1]] = Fingerprint[k] /\ stored'[p] > 0
            \/ \E p \in swallowed' : Fingerprint[p[1]] = Fingerprint[k]
        BY <1>1, <3>1, <3>2, <3>5
      <4>2. IsStored(k)' \/ Swallowed(k)'
        BY <4>1 DEF IsStored, Swallowed
      <4>3. QED
        BY <4>2 DEF Handled, Known
    <3>6. QED
      BY <3>3, <3>4, <3>5
  <2>3. QED
    BY <2>1, <2>2
<1>5. AckedAreHandled' /\ ReadAreKept'
  BY <1>2, AckedFrame, KeptFrame DEF Trusted
<1>6. QED
  BY <1>3, <1>4, <1>5 DEF Trusted

LEMMA TrustedCommit ==
  ASSUME Typed, Typed', Trusted, NEW r \in Slots, Commit(r)
  PROVE  Trusted'
<1>1. /\ UNCHANGED <<agentVars, swallowed, discarded, missed>>
      /\ Open(r) /\ request[r].todo = <<>> /\ request'[r].state = "committed"
      /\ \A s \in Slots \ {r} : request'[s] = request[s]
      /\ \A p \in Rows : stored'[p] = IF p \in request[r].added THEN stored[p] + 1 ELSE stored[p]
      /\ \A key \in Keys : mark'[key] = IF mark[key] = r THEN "set" ELSE mark[key]
  BY Commits
<1>2. /\ \A s \in Slots : request[s].added \subseteq Rows
      /\ \A p \in Rows : stored[p] \in Nat
      /\ \A f \in Fingerprints : InRedis(f) \in Keys /\ InTable(f) \in Keys
      /\ r # None /\ r # "set"
  BY RowsAre, SlotAssumption DEF Typed, BackendTypes, Requests, InRedis, InTable
<1>3. \A p \in Rows : /\ stored[p] > 0 => stored'[p] > 0
                      /\ p \in request[r].added => stored'[p] > 0
  BY <1>1, <1>2
<1>4. Grows
  BY <1>1, <1>2, <1>3 DEF Grows
<1>5. \A f \in Fingerprints : mark[InTable(f)] = r => \E p \in Rows : Fingerprint[p[1]] = f /\ stored'[p] > 0
  BY <1>2, <1>3 DEF Trusted, MarksAreEarned
<1>6. ASSUME NEW f \in Fingerprints, mark'[InTable(f)] = "set"
      PROVE  \E p \in Rows : Fingerprint[p[1]] = f /\ stored'[p] > 0
  <2>1. CASE mark[InTable(f)] = r
    BY <1>5, <2>1
  <2>2. CASE mark[InTable(f)] # r
    <3>1. mark[InTable(f)] = "set"
      BY <1>1, <1>2, <1>6, <2>2
    <3>2. QED
      BY <1>3, <3>1 DEF Trusted, MarksAreEarned
  <2>3. QED
    BY <2>1, <2>2
<1>7. QED
  BY <1>1, <1>4, <1>5, <1>6, TrustedEnds

LEMMA TrustedSwallow ==
  ASSUME Typed, Typed', Trusted, NEW r \in Slots, SwallowError(r)
  PROVE  Trusted'
<1>1. /\ UNCHANGED <<agentVars, stored, discarded, missed>>
      /\ Open(r) /\ request[r].todo = <<>> /\ request'[r].state = "committed"
      /\ \A s \in Slots \ {r} : request'[s] = request[s]
      /\ swallowed' = swallowed \cup request[r].added
      /\ \A key \in Keys : mark'[key] = IF mark[key] = r THEN None ELSE mark[key]
  BY Swallows
<1>2. /\ \A f \in Fingerprints : InRedis(f) \in Keys /\ InTable(f) \in Keys
      /\ r # None /\ r # "set" /\ "set" # None
  BY RowsAre, SlotAssumption DEF InRedis, InTable
<1>3. Grows
  BY <1>1, <1>2 DEF Grows
<1>4. \A f \in Fingerprints : mark[InTable(f)] = r => \E p \in swallowed' : Fingerprint[p[1]] = f
  BY <1>1 DEF Trusted, MarksAreEarned
<1>5. ASSUME NEW f \in Fingerprints, mark'[InTable(f)] = "set"
      PROVE  \E p \in Rows : Fingerprint[p[1]] = f /\ stored'[p] > 0
  <2>1. mark[InTable(f)] = "set"
    BY <1>1, <1>2, <1>5
  <2>2. QED
    BY <1>1, <2>1 DEF Trusted, MarksAreEarned
<1>6. QED
  BY <1>1, <1>3, <1>4, <1>5, TrustedEnds

LEMMA TrustedHook ==
  ASSUME Typed, Typed', Trusted, NEW r \in Slots, RunHook(r)
  PROVE  Trusted'
<1>1. /\ UNCHANGED <<agentVars, mark, stored, swallowed, discarded, missed>>
      /\ request[r].state = "committed" /\ request'[r].state = "done" /\ request'[r].added = request[r].added
      /\ \A s \in Slots \ {r} : request'[s] = request[s]
  BY Hooks
<1>2. UNCHANGED <<written, start, position, buffer, batch, acked, awaiting, missed>> /\ r # None
  BY <1>1, AgentVars, SlotAssumption
<1>3. Grows
  BY <1>1 DEF Grows
<1>4. MarksAreEarned'
  <2>1. \A s \in Slots : Open(s) => s # r /\ request'[s] = request[s]
    BY <1>1 DEF Open
  <2>2. QED
    BY <1>1, <2>1 DEF Trusted, MarksAreEarned, Open, InRedis, InTable
<1>5. AnswerIsTrue'
  <2>1. CASE awaiting # r
    <3>1. awaiting # None => request'[awaiting] = request[awaiting]
      BY <1>1, <2>1 DEF Typed, AgentTypes
    <3>2. QED
      BY <1>1, <1>2, <1>3, <3>1, AnswerFrame DEF Trusted
  <2>2. CASE awaiting = r
    <3>1. Chunk' = Chunk /\ LinesOf(Chunk) \subseteq Lines
      BY <1>2, BatchIs, ChunkSame
    <3>2. \A l \in LinesOf(Chunk) : Handled(l)
      BY <1>1, <1>2, <2>2 DEF Trusted, AnswerIsTrue, Ended
    <3>3. \A l \in LinesOf(Chunk) : Handled(l)'
      BY <1>3, <3>1, <3>2, StaysHandled
    <3>4. QED
      BY <1>1, <1>2, <2>2, <3>1, <3>3 DEF AnswerIsTrue, Open
  <2>3. QED
    BY <2>1, <2>2
<1>6. AckedAreHandled' /\ ReadAreKept'
  BY <1>2, <1>3, AckedFrame, KeptFrame DEF Trusted
<1>7. QED
  BY <1>4, <1>5, <1>6 DEF Trusted

LEMMA TrustedFails ==
  ASSUME Typed, Typed', Trusted, NEW slots \in SUBSET Slots, Fails(slots)
  PROVE  Trusted'
<1>1. /\ UNCHANGED <<agentVars, stored, swallowed, discarded, missed>>
      /\ \A key \in Keys : mark'[key] = IF mark[key] \in slots THEN None ELSE mark[key]
      /\ \A s \in Slots \ slots : request'[s] = request[s]
      /\ \A s \in slots : request'[s].state \in {"free", "failed"}
  BY DEF Fails, lineVars
<1>2. /\ \A f \in Fingerprints : InRedis(f) \in Keys /\ InTable(f) \in Keys
      /\ None \notin Slots /\ "set" \notin Slots /\ "set" # None
  BY RowsAre, SlotAssumption DEF InRedis, InTable
<1>3. UNCHANGED <<written, start, position, buffer, batch, acked, awaiting, missed>>
  BY <1>1, AgentVars
<1>4. Grows
  BY <1>1, <1>2 DEF Grows
<1>5. MarksAreEarned'
  <2>1. ASSUME NEW f \in Fingerprints, mark'[InTable(f)] = "set"
        PROVE  \E p \in Rows : Fingerprint[p[1]] = f /\ stored'[p] > 0
    <3>1. mark[InTable(f)] = "set"
      BY <1>1, <1>2, <2>1
    <3>2. QED
      BY <1>1, <3>1 DEF Trusted, MarksAreEarned
  <2>2. ASSUME NEW f \in Fingerprints, NEW s \in Slots, mark'[InTable(f)] = s
        PROVE  Open(s)' /\ \E p \in request'[s].added : Fingerprint[p[1]] = f
    <3>1. mark[InTable(f)] = s /\ s \notin slots
      BY <1>1, <1>2, <2>2
    <3>2. QED
      BY <1>1, <3>1 DEF Trusted, MarksAreEarned, Open
  <2>3. \A f \in Fingerprints : mark'[InRedis(f)] \notin Slots
    BY <1>1, <1>2 DEF Trusted, MarksAreEarned
  <2>4. QED
    BY <2>1, <2>2, <2>3 DEF MarksAreEarned, InRedis, InTable
<1>6. AnswerIsTrue'
  <2>1. CASE awaiting \notin slots
    <3>1. awaiting # None => request'[awaiting] = request[awaiting]
      BY <1>1, <2>1 DEF Typed, AgentTypes
    <3>2. \A key \in Keys : awaiting # None /\ Open(awaiting) /\ mark[key] = awaiting => mark'[key] = awaiting
      BY <1>1, <2>1
    <3>3. QED
      BY <1>3, <1>4, <3>1, <3>2, AnswerFrame DEF Trusted
  <2>2. CASE awaiting \in slots
    BY <1>1, <1>3, <2>2 DEF AnswerIsTrue, Open, Ended
  <2>3. QED
    BY <2>1, <2>2
<1>7. AckedAreHandled' /\ ReadAreKept'
  BY <1>3, <1>4, AckedFrame, KeptFrame DEF Trusted
<1>8. QED
  BY <1>5, <1>6, <1>7 DEF Trusted

LEMMA TrustedAnswer ==
  ASSUME Typed, Typed', Trusted, NEW r \in Slots, Answer(r)
  PROVE  Trusted'
<1>1. /\ UNCHANGED <<mark, stored, swallowed>> /\ discarded \subseteq discarded'
      /\ request[r].state \in {"done", "failed"} /\ request'[r] = Free
      /\ \A s \in Slots \ {r} : request'[s] = request[s]
  BY Answers
<1>2. Grows /\ r # None
  BY <1>1, SlotAssumption DEF Grows
<1>3. MarksAreEarned'
  <2>1. \A f \in Fingerprints : mark[InTable(f)] # r
    BY <1>1 DEF Trusted, MarksAreEarned, Open
  <2>2. QED
    BY <1>1, <2>1 DEF Trusted, MarksAreEarned, Open, InRedis, InTable
<1>4. CASE awaiting # r /\ UNCHANGED <<agentVars, discarded, missed>>
  <2>1. UNCHANGED <<written, start, position, buffer, batch, acked, awaiting, missed>>
    BY <1>4, AgentVars
  <2>2. awaiting # None => request'[awaiting] = request[awaiting]
    BY <1>1, <1>4 DEF Typed, AgentTypes
  <2>3. AnswerIsTrue'
    BY <1>1, <1>2, <2>1, <2>2, AnswerFrame DEF Trusted
  <2>4. QED
    BY <1>2, <1>3, <2>1, <2>3, AckedFrame, KeptFrame DEF Trusted
<1>5. CASE /\ awaiting = r /\ request[r].state = "done" /\ acked' = acked + Len(Chunk) /\ awaiting' = None
           /\ UNCHANGED <<written, start, position, buffer, batch, discarded, missed>>
  <2>1. AnswerIsTrue' /\ ReadAreKept'
    BY <1>2, <1>5, NobodyAwaited, KeptFrame DEF Trusted
  <2>2. \A l \in LinesOf(Chunk) : Handled(l)
    BY <1>2, <1>5 DEF Trusted, AnswerIsTrue, Ended
  <2>3. /\ acked \in Nat /\ Len(Chunk) \in Nat /\ LinesOf(Chunk) = {Chunk[i] : i \in 1..Len(Chunk)}
        /\ \A i \in 1..Len(Chunk) : Chunk[i] = batch[acked + i]
    BY BatchIs, ChunkIs DEF Typed
  <2>4. LinesOf(Chunk) \subseteq Lines /\ \A i \in 1..acked : batch[i] \in Lines
    BY BatchIs
  <2>5. ASSUME NEW i \in 1..acked'
        PROVE  Handled(batch[i]) /\ batch[i] \in Lines
    <3>1. CASE i <= acked
      BY <1>5, <2>3, <2>4, <3>1 DEF Trusted, AckedAreHandled
    <3>2. CASE i > acked
      <4>1. i - acked \in 1..Len(Chunk) /\ acked + (i - acked) = i
        BY <1>5, <2>3, <3>2
      <4>2. Chunk[i - acked] = batch[i]
        BY <2>3, <4>1
      <4>3. batch[i] \in LinesOf(Chunk)
        BY <2>3, <4>1, <4>2
      <4>4. QED
        BY <2>2, <2>4, <4>3
    <3>3. QED
      BY <1>5, <2>3, <3>1, <3>2
  <2>6. \A i \in 1..acked' : Handled(batch[i])'
    BY <1>2, <1>5, <2>5, StaysHandled
  <2>7. QED
    BY <1>3, <1>5, <2>1, <2>6 DEF Trusted, AckedAreHandled
<1>6. CASE /\ awaiting' = None /\ acked' = 0 /\ Passed' \subseteq Passed
           /\ \A l \in Passed' : l \in Held => l \in Held'
  <2>1. AnswerIsTrue' /\ AckedAreHandled'
    BY <1>2, <1>6, NobodyAwaited, AckedFrame DEF Trusted
  <2>2. ReadAreKept'
    BY <1>2, <1>6, BatchIs, StaysHandled DEF Trusted, ReadAreKept
  <2>3. QED
    BY <1>3, <2>1, <2>2 DEF Trusted
<1>7. QED
  BY <1>4, <1>5, <1>6, Answers

LEMMA TrustedStep ==
  ASSUME Typed, Typed', Trusted, [Next]_vars
  PROVE  Trusted'
<1>1. CASE UNCHANGED <<agentVars, request, mark, stored, swallowed, discarded, missed>>
  <2>1. UNCHANGED <<written, start, position, buffer, batch, acked, awaiting, missed>> /\ Grows
    BY <1>1, AgentVars DEF Grows
  <2>2. MarksAreEarned'
    BY <1>1 DEF Trusted, MarksAreEarned, Open, InRedis, InTable
  <2>3. QED
    BY <1>1, <2>1, <2>2, AnswerFrame, AckedFrame, KeptFrame DEF Trusted
<1>2. CASE UNCHANGED vars
  BY <1>1, <1>2 DEF vars, state, backendVars, lineVars
<1>3. CASE RedisDown \/ RedisBack
  BY <1>1, <1>3, RedisMoves
<1>4. CASE AgentMoves
  BY <1>4, TrustedAgent
<1>5. CASE Post
  BY <1>5, TrustedPost
<1>6. CASE CrashBackend
  BY <1>6, Crashes, TrustedFails
<1>7. ASSUME NEW r \in Slots, ProcessEvent(r) \/ Commit(r) \/ RunHook(r) \/ SwallowError(r)
      PROVE  Trusted'
  BY <1>7, TrustedProcess, TrustedCommit, TrustedHook, TrustedSwallow
<1>8. ASSUME NEW r \in Slots, Rollback(r)
      PROVE  Trusted'
  <2>1. Fails({r}) /\ {r} \in SUBSET Slots
    BY <1>8, RollsBack
  <2>2. QED
    BY <2>1, TrustedFails
<1>9. ASSUME NEW r \in Slots, Answer(r)
      PROVE  Trusted'
  BY <1>9, TrustedAnswer
<1>10. QED
  BY <1>2, <1>3, <1>4, <1>5, <1>6, <1>7, <1>8, <1>9, Steps

(* A buffer an earlier process left holds the lines of the log so far.     *)
LEMMA InitTrusted == Init => Trusted
<1>1. SUFFICES ASSUME Init PROVE Trusted
  OBVIOUS
<1>2. /\ \A f \in Fingerprints : mark[InTable(f)] = None /\ mark[InRedis(f)] = None
      /\ awaiting = None /\ acked = 0 /\ LinesOf(buffer) = 1..written
  BY <1>1, RowsAre DEF Init, InTable, InRedis
<1>3. MarksAreEarned
  BY <1>2, SlotAssumption DEF MarksAreEarned
<1>4. ReadAreKept
  BY <1>2 DEF ReadAreKept, Passed, Held
<1>5. QED
  BY <1>2, <1>3, <1>4 DEF Trusted, AnswerIsTrue, AckedAreHandled

(* What the invariants say together of a state.                            *)
Delivering == Typed /\ Marked /\ Trusted

LEMMA DeliveringAlways == Spec => []Delivering
<1>1. Init => Delivering
  BY InitTyped, InitMarked, InitTrusted DEF Delivering
<1>2. Delivering /\ [Next]_vars => Delivering'
  BY TypedStep, MarkedStep, TrustedStep DEF Delivering
<1>3. QED
  BY <1>1, <1>2, PTL DEF Spec

(* Whoever is told that events are stored is told the truth, whatever was  *)
(* lost, retried or rolled back, unless a database error was swallowed on  *)
(* the way or, for the agent, Redis holds a mark of the event: the agent   *)
(* that is answered, and the correlation job (AckedAreStored).             *)
THEOREM AcksAreTrue == Spec => []AckedAreStored
<1>1. Delivering => AckedAreStored
  <2>1. SUFFICES ASSUME Delivering PROVE AckedAreStored
    OBVIOUS
  <2>2. \A row \in notified : stored[row] > 0 \/ row \in swallowed
    BY <2>1 DEF Delivering, Marked, NotifiedAreStored
  <2>3. \A i \in 1..acked : Handled(batch[i])
    BY <2>1 DEF Delivering, Trusted, AckedAreHandled
  <2>4. QED
    BY <2>2, <2>3 DEF AckedAreStored, Handled, Known
<1>2. QED
  BY <1>1, DeliveringAlways, PTL

(* No line of the log is lost from sight, with either store, whenever Redis*)
(* goes and comes back: it is still to be read, in the agent's hands,      *)
(* buffered, stored, a rule that says so dropped it, or one of the named   *)
(* faults took it; and the types (Bookkeeping).                            *)
THEOREM NoLineForgotten == Spec => []Bookkeeping
<1>1. Delivering => Bookkeeping
  <2>1. SUFFICES ASSUME Delivering PROVE Bookkeeping
    OBVIOUS
  <2>2. TypeOK /\ start \in Nat /\ position \in Nat
    BY <2>1, Numbers DEF Delivering, Typed
  <2>3. ASSUME NEW l \in 1..written
        PROVE  Accounted(l)
    <3>1. CASE l > start + position
      BY <3>1 DEF Accounted
    <3>2. CASE l <= start + position
      <4>1. l \in Held \/ Known(l)
        BY <2>1, <3>2 DEF Delivering, Trusted, ReadAreKept, Passed
      <4>2. QED
        BY <4>1 DEF Accounted, Held, Known
    <3>3. l \in Int
      OBVIOUS
    <3>4. QED
      BY <2>2, <3>1, <3>2, <3>3
  <2>4. QED
    BY <2>2, <2>3 DEF Bookkeeping
<1>2. QED
  BY <1>1, DeliveringAlways, PTL

=============================================================================
