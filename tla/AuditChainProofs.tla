--------------------------- MODULE AuditChainProofs ---------------------------
(* For every number of lines, edits and crashes: as long as one process appends
   at a time, the mark of an edit stays in the chain.

   The invariant that makes it inductive is that hashes rise along the file: a
   record stands on at least what the line before it stands on, so a line that
   lost its predecessor can never meet the hash it needs again. *)
EXTENDS AuditChain, SequenceTheorems, WellFoundedInduction, TLAPS

OneWriter == \A v, w \in Writers : v = w

Lines == log \in Seq({Torn} \cup Line) /\ Len(log) <= MaxLen

\* Half a line is the last one.
TornAtTheEnd == \A k \in 1 .. Len(log) : log[k] = Torn => k = Len(log)

\* A record stands on as much as the line before it, and adds to it.
Rising(file) == \A k \in 1 .. Len(file) : file[k] # Torn =>
                  /\ Len(Before(file, k)) <= Len(file[k].prev)
                  /\ Len(file[k].prev) < Len(file[k].hash)
                  /\ file[k].hash[Len(file[k].hash)] \in Payloads

\* What a writer holds still fits behind the last line.
Fits(line, last) == /\ line \in Line
                    /\ line.body \in Payloads
                    /\ line.hash = Append(line.prev, line.body)
                    /\ Len(last) <= Len(line.prev)

Waiting == /\ pending \in [Writers -> {Nothing} \cup {<<r>> : r \in Line}]
           /\ \A w \in Writers : pending[w] # Nothing =>
                Readable(log) /\ Fits(pending[w][1], LastHash(log))

Marked == \/ touched = Untouched
          \/ /\ touched \in 1 .. Len(log)
             /\ log[touched] # Torn
             /\ ~Chained(log, touched)

IInv == /\ Lines
        /\ TornAtTheEnd
        /\ Rising(log)
        /\ Waiting
        /\ Marked

------------------------------------------------------------------------------
(* Sequences of lines *)

LEMMA WithoutIsShorter ==
  ASSUME NEW S, NEW file \in Seq(S), NEW k \in 1 .. Len(file)
  PROVE  /\ Without(file, k) \in Seq(S)
         /\ Len(Without(file, k)) = Len(file) - 1
         /\ \A j \in 1 .. Len(file) - 1 :
              Without(file, k)[j] = IF j < k THEN file[j] ELSE file[j + 1]
  BY DEF Without

LEMMA BeforeIsAHash ==
  ASSUME NEW file \in Seq({Torn} \cup Line), NEW k \in 1 .. Len(file),
         k > 1 => file[k - 1] # Torn
  PROVE  Before(file, k) \in Seq(Body)
  BY DEF Before, GENESIS, Line

\* Deleting a line keeps the hashes rising, and the line that takes its place has
\* lost the one it stood on.
LEMMA WithoutRises ==
  ASSUME NEW file \in Seq({Torn} \cup Line), NEW k \in 1 .. Len(file),
         \A j \in 1 .. Len(file) : file[j] = Torn => j = Len(file),
         Rising(file)
  PROVE  /\ Rising(Without(file, k))
         /\ k < Len(file) /\ file[k + 1] # Torn => ~Chained(Without(file, k), k)
<1> DEFINE new == Without(file, k)
<1>1. /\ new \in Seq({Torn} \cup Line) /\ Len(new) = Len(file) - 1
      /\ \A j \in 1 .. Len(file) - 1 : new[j] = IF j < k THEN file[j] ELSE file[j + 1]
  BY WithoutIsShorter
<1> HIDE DEF new
<1>2. ASSUME NEW j \in 1 .. Len(new), new[j] # Torn
      PROVE  /\ Len(Before(new, j)) <= Len(new[j].prev)
             /\ Len(new[j].prev) < Len(new[j].hash)
             /\ new[j].hash[Len(new[j].hash)] \in Payloads
             /\ j = k => Len(Before(new, j)) < Len(new[j].prev)
  <2>1. CASE j < k
    <3>1. new[j] = file[j] /\ Before(new, j) = Before(file, j)
      BY <1>1, <1>2, <2>1 DEF Before
    <3>. QED
      BY <1>1, <1>2, <2>1, <3>1 DEF Rising
  <2>2. CASE j > k
    <3>1. new[j] = file[j + 1] /\ Before(new, j) = Before(file, j + 1)
      BY <1>1, <1>2, <2>2 DEF Before
    <3>. QED
      BY <1>1, <1>2, <2>2, <3>1 DEF Rising
  <2>3. CASE j = k
    <3>1. new[k] = file[k + 1] /\ Before(new, k) = Before(file, k)
      BY <1>1, <1>2, <2>3 DEF Before
    <3>2. k + 1 \in 1 .. Len(file) /\ file[k] # Torn /\ file[k + 1] # Torn
      BY <1>1, <1>2, <2>3, <3>1
    <3>3. /\ Len(Before(file, k)) <= Len(file[k].prev)
          /\ Len(file[k].prev) < Len(file[k].hash)
      BY <3>2 DEF Rising
    <3>4. /\ Len(file[k].hash) <= Len(file[k + 1].prev)
          /\ Len(file[k + 1].prev) < Len(file[k + 1].hash)
          /\ file[k + 1].hash[Len(file[k + 1].hash)] \in Payloads
      BY <3>2 DEF Rising, Before
    <3>5. /\ Len(Before(file, k)) \in Nat /\ Len(file[k].prev) \in Nat
          /\ Len(file[k].hash) \in Nat /\ Len(file[k + 1].prev) \in Nat
      <4>1. file[k] \in Line /\ file[k + 1] \in Line
        BY <3>2
      <4>2. k > 1 => file[k - 1] # Torn
        OBVIOUS
      <4>3. Before(file, k) \in Seq(Body)
        BY <4>2, BeforeIsAHash
      <4>4. /\ file[k].prev \in Seq(Body) /\ file[k].hash \in Seq(Body)
            /\ file[k + 1].prev \in Seq(Body)
        BY <4>1 DEF Line
      <4>. QED
        BY <4>3, <4>4, LenProperties
    <3>6. Len(Before(file, k)) < Len(file[k + 1].prev)
      BY <3>3, <3>4, <3>5
    <3>7. Len(Before(file, k)) <= Len(file[k + 1].prev)
      BY <3>5, <3>6
    <3>. QED
      BY <2>3, <3>1, <3>4, <3>6, <3>7, Zenon
  <2>. QED
    BY <1>1, <2>1, <2>2, <2>3
<1>3. Rising(new)
  BY <1>2 DEF Rising
<1>4. ASSUME k < Len(file), file[k + 1] # Torn
      PROVE  ~Chained(new, k)
  <2>1. k \in 1 .. Len(new) /\ new[k] # Torn
    BY <1>1, <1>4
  <2>2. Len(Before(new, k)) < Len(new[k].prev)
    BY <1>2, <2>1
  <2>3. k > 1 => new[k - 1] # Torn
    BY <1>1, <2>1
  <2>4. Before(new, k) \in Seq(Body)
    BY <1>1, <2>1, <2>3, BeforeIsAHash
  <2>5. Len(Before(new, k)) \in Nat
    BY <2>4, LenProperties
  <2>6. Before(new, k) # new[k].prev
    BY <2>2, <2>5
  <2>. QED
    BY <2>6 DEF Chained
<1>. QED
  BY <1>3, <1>4 DEF new

------------------------------------------------------------------------------
(* The invariant *)

LEMMA InitIInv == Init => IInv
  BY BoundsAssumption DEF Init, IInv, Lines, TornAtTheEnd, Rising, Waiting, Marked,
     Nothing, Readable, Untouched

\* A writer's line goes behind the last one: everything before it stays.
LEMMA ExtendKeeps ==
  ASSUME NEW line \in {Torn} \cup Line, IInv, Readable(log), Len(log) < MaxLen,
         log' = Extend(log, line), touched' = touched,
         line # Torn => Fits(line, LastHash(log))
  PROVE  Lines' /\ TornAtTheEnd' /\ Rising(log') /\ Marked'
<1>1. log \in Seq({Torn} \cup Line) /\ \A j \in 1 .. Len(log) : log[j] # Torn
  BY DEF IInv, Lines, Readable
<1>2. log' = Append(log, line)
  BY <1>1 DEF Extend
<1>3. /\ log' \in Seq({Torn} \cup Line) /\ Len(log') = Len(log) + 1
      /\ log'[Len(log) + 1] = line
      /\ \A j \in 1 .. Len(log) : log'[j] = log[j]
  BY <1>1, <1>2
<1>4. Lines'
  BY <1>3, BoundsAssumption DEF Lines
<1>5. TornAtTheEnd'
  BY <1>1, <1>3 DEF TornAtTheEnd
<1>6. \A j \in 1 .. Len(log) : Before(log', j) = Before(log, j)
  BY <1>1, <1>3 DEF Before
<1>7. Rising(log')
  <2>1. \A j \in 1 .. Len(log) : log[j] # Torn =>
          /\ Len(Before(log, j)) <= Len(log[j].prev)
          /\ Len(log[j].prev) < Len(log[j].hash)
          /\ log[j].hash[Len(log[j].hash)] \in Payloads
    BY DEF IInv, Rising
  <2>2. ASSUME line # Torn
        PROVE  /\ Len(Before(log', Len(log) + 1)) <= Len(line.prev)
               /\ Len(line.prev) < Len(line.hash)
               /\ line.hash[Len(line.hash)] \in Payloads
    <3>1. Before(log', Len(log) + 1) = LastHash(log)
      BY <1>1, <1>3 DEF Before, LastHash
    <3>2. line.prev \in Seq(Body) /\ line.body \in Payloads
          /\ line.hash = Append(line.prev, line.body)
          /\ Len(LastHash(log)) <= Len(line.prev)
      BY <2>2 DEF Fits, Line
    <3>3. line.body \in Body
      BY <3>2 DEF Body
    <3>. QED
      BY <3>1, <3>2, <3>3, AppendProperties
  <2>3. \A j \in 1 .. Len(log') : j \in 1 .. Len(log) \/ j = Len(log) + 1
    BY <1>1, <1>3
  <2>. QED
    BY <1>3, <1>6, <2>1, <2>2, <2>3 DEF Rising
<1>8. Marked'
  BY <1>1, <1>3, <1>6 DEF IInv, Marked, Chained, Untouched
<1>. QED
  BY <1>4, <1>5, <1>7, <1>8

LEMMA LastHashIsAHash ==
  ASSUME log \in Seq({Torn} \cup Line), log # <<>> => log[Len(log)] # Torn
  PROVE  LastHash(log) \in Seq(Body)
<1>1. CASE log = <<>>
  BY <1>1 DEF LastHash, GENESIS
<1>2. CASE log # <<>>
  <2>1. Len(log) \in 1 .. Len(log)
    BY <1>2
  <2>2. log[Len(log)] \in Line
    BY <1>2, <2>1
  <2>. QED
    BY <1>2, <2>2 DEF LastHash, Line
<1>. QED
  BY <1>1, <1>2

LEMMA ReadKeepsIInv ==
  ASSUME IInv, NEW w \in Writers, NEW p \in Payloads, ReadLast(w, p)
  PROVE  IInv'
<1> DEFINE r == Record(LastHash(log), p)
<1>1. UNCHANGED <<log, touched>> /\ Readable(log)
      /\ pending' = [pending EXCEPT ![w] = <<r>>]
  BY DEF ReadLast
<1>2. LastHash(log) \in Seq(Body)
  <2>1. log # <<>> => log[Len(log)] # Torn
    BY <1>1 DEF IInv, Lines, Readable
  <2>. QED
    BY <2>1, LastHashIsAHash DEF IInv, Lines
<1>3. /\ r \in Line /\ r.body = p /\ r.prev = LastHash(log)
      /\ r.hash = Append(LastHash(log), p)
  BY <1>2, AppendProperties DEF Record, Digest, Line, Body
<1>4. Len(LastHash(log)) \in Nat
  BY <1>2, LenProperties
<1>5. Fits(r, LastHash(log))
  BY <1>3, <1>4 DEF Fits
<1> HIDE DEF r
<1>6. Waiting'
  <2>1. pending' \in [Writers -> {Nothing} \cup {<<l>> : l \in Line}]
    BY <1>1, <1>3 DEF IInv, Waiting
  <2>2. ASSUME NEW v \in Writers, pending'[v] # Nothing
        PROVE  Readable(log') /\ Fits(pending'[v][1], LastHash(log'))
    <3>1. CASE v = w
      <4>1. pending'[v][1] = r
        BY <1>1, <3>1 DEF IInv, Waiting
      <4>. QED
        BY <1>1, <1>5, <4>1
    <3>2. CASE v # w
      <4>1. pending'[v] = pending[v]
        BY <1>1, <3>2 DEF IInv, Waiting
      <4>. QED
        BY <1>1, <2>2, <4>1 DEF IInv, Waiting
    <3>. QED
      BY <3>1, <3>2
  <2>. QED
    BY <2>1, <2>2 DEF Waiting
<1>. QED
  BY <1>1, <1>6 DEF IInv, Lines, TornAtTheEnd, Rising, Before, Marked, Chained, Untouched

\* The line is written or torn; either way nobody else holds one.
LEMMA WriteKeepsIInv ==
  ASSUME IInv, OneWriter, NEW w \in Writers, Write(w) \/ DieWriting(w)
  PROVE  IInv'
<1>1. /\ pending[w] # Nothing /\ Len(log) < MaxLen /\ touched' = touched
      /\ pending' = [pending EXCEPT ![w] = Nothing]
      /\ log' = Extend(log, pending[w][1]) \/ log' = Extend(log, Torn)
  BY DEF Write, DieWriting
<1>2. Readable(log) /\ Fits(pending[w][1], LastHash(log))
  BY <1>1 DEF IInv, Waiting
<1>3. pending[w][1] \in Line
  BY <1>2 DEF Fits
<1>4. Lines' /\ TornAtTheEnd' /\ Rising(log') /\ Marked'
  <2>1. CASE log' = Extend(log, pending[w][1])
    BY <1>1, <1>2, <1>3, <2>1, ExtendKeeps
  <2>2. CASE log' = Extend(log, Torn)
    BY <1>1, <1>2, <2>2, ExtendKeeps
  <2>. QED
    BY <1>1, <2>1, <2>2
<1>5. Waiting'
  <2>1. pending' \in [Writers -> {Nothing} \cup {<<l>> : l \in Line}]
    BY <1>1 DEF IInv, Waiting
  <2>2. \A v \in Writers : pending'[v] = Nothing
    BY <1>1 DEF IInv, Waiting, OneWriter
  <2>. QED
    BY <2>1, <2>2 DEF Waiting
<1>. QED
  BY <1>4, <1>5 DEF IInv

\* A line goes, the last one or one before it; the mark moves up, or goes with it.
LEMMA LosingKeeps ==
  ASSUME IInv, NEW k \in 1 .. Len(log), log' = Without(log, k),
         touched' = IF k = Len(log) \/ (k = Len(log) - 1 /\ ~Readable(log))
                    THEN TouchedWithout(k) ELSE Earlier(k)
  PROVE  Lines' /\ TornAtTheEnd' /\ Rising(log') /\ Marked'
<1>1. /\ log' \in Seq({Torn} \cup Line) /\ Len(log') = Len(log) - 1
      /\ \A j \in 1 .. Len(log) - 1 : log'[j] = IF j < k THEN log[j] ELSE log[j + 1]
  BY WithoutIsShorter DEF IInv, Lines
<1>2. /\ log \in Seq({Torn} \cup Line) /\ Len(log) \in Nat /\ Len(log) <= MaxLen
      /\ \A j \in 1 .. Len(log) : log[j] = Torn => j = Len(log)
  BY DEF IInv, Lines, TornAtTheEnd
<1>3. Lines'
  BY <1>1, <1>2, BoundsAssumption DEF Lines
<1>4. TornAtTheEnd'
  BY <1>1, <1>2 DEF TornAtTheEnd
<1>5. /\ Rising(log')
      /\ k < Len(log) /\ log[k + 1] # Torn => ~Chained(log', k)
  BY <1>2, WithoutRises DEF IInv
<1>6. ASSUME NEW j \in 1 .. Len(log'), j < k
      PROVE  log'[j] = log[j] /\ Before(log', j) = Before(log, j)
  BY <1>1, <1>2, <1>6 DEF Before
<1>7. Marked'
  <2>1. CASE touched' = Untouched
    BY <2>1 DEF Marked, Untouched
  <2>2. CASE touched' # Untouched /\ touched' = touched /\ touched < k
    <3>1. touched \in 1 .. Len(log) /\ log[touched] # Torn /\ ~Chained(log, touched)
      BY <2>2 DEF IInv, Marked, Untouched
    <3>2. touched \in 1 .. Len(log')
      BY <1>1, <1>2, <2>2, <3>1
    <3>3. log'[touched] = log[touched] /\ Before(log', touched) = Before(log, touched)
      BY <1>6, <2>2, <3>2
    <3>. QED
      BY <2>2, <3>1, <3>2, <3>3 DEF Marked, Chained
  <2>3. CASE touched' # Untouched /\ touched' = k
    <3>1. k < Len(log) /\ log[k + 1] # Torn
      <4>1. CASE touched = k /\ touched' = TouchedWithout(k)
        BY <2>3, <4>1, <1>2 DEF TouchedWithout
      <4>2. CASE touched < k
        BY <2>3, <4>2, <1>2, BoundsAssumption DEF TouchedWithout, Earlier, IInv, Marked, Untouched
      <4>3. CASE ~(k = Len(log) \/ (k = Len(log) - 1 /\ ~Readable(log)))
        <5>1. k < Len(log)
          BY <1>2, <4>3
        <5>2. CASE log[k + 1] = Torn
          <6>1. k + 1 = Len(log)
            BY <1>2, <5>1, <5>2
          <6>2. ~Readable(log)
            BY <1>2, <5>2, <6>1 DEF Readable
          <6>. QED
            BY <1>2, <4>3, <6>1, <6>2
        <5>. QED
          BY <5>1, <5>2
      <4>4. CASE k = Len(log) \/ (k = Len(log) - 1 /\ ~Readable(log))
        <5>1. touched' = TouchedWithout(k)
          BY <4>4
        <5>2. touched < k
          BY <5>1, <2>3, <1>2, BoundsAssumption DEF TouchedWithout, IInv, Marked, Untouched
        <5>. QED
          BY <5>1, <5>2, <2>3, <1>2 DEF TouchedWithout
      <4>. QED
        BY <4>3, <4>4
    <3>2. ~Chained(log', k)
      BY <1>5, <3>1
    <3>3. k \in 1 .. Len(log') /\ log'[k] # Torn
      BY <1>1, <1>2, <3>1
    <3>. QED
      BY <2>3, <3>2, <3>3 DEF Marked
  <2>4. \/ touched' = Untouched
        \/ touched' = k
        \/ touched' = touched /\ touched < k
    <3>1. touched \in Int /\ Untouched \in Int /\ k \in Int /\ k < Untouched
      BY <1>2, BoundsAssumption DEF IInv, Marked, Untouched
    <3>2. touched' = TouchedWithout(k) \/ touched' = Earlier(k)
      OBVIOUS
    <3>. QED
      BY <3>1, <3>2 DEF TouchedWithout, Earlier
  <2>. QED
    BY <2>1, <2>2, <2>3, <2>4
<1>. QED
  BY <1>3, <1>4, <1>5, <1>7

LEMMA ShorterLastHash ==
  ASSUME IInv, NEW k \in 1 .. Len(log), Readable(log)
  PROVE  Len(LastHash(Without(log, k))) <= Len(LastHash(log))
<1> DEFINE new == Without(log, k)
<1>1. /\ new \in Seq({Torn} \cup Line) /\ Len(new) = Len(log) - 1
      /\ \A j \in 1 .. Len(log) - 1 : new[j] = IF j < k THEN log[j] ELSE log[j + 1]
  BY WithoutIsShorter DEF IInv, Lines
<1> HIDE DEF new
<1>2. log \in Seq({Torn} \cup Line) /\ \A j \in 1 .. Len(log) : log[j] # Torn
  BY DEF IInv, Lines, Readable
<1>3. LastHash(log) = log[Len(log)].hash /\ LastHash(log) \in Seq(Body)
  BY <1>2, LastHashIsAHash DEF LastHash
<1>4. CASE k < Len(log)
  <2>1. LastHash(new) = LastHash(log)
    BY <1>1, <1>2, <1>3, <1>4 DEF LastHash
  <2>. QED
    BY <1>3, <2>1, LenProperties DEF new
<1>5. CASE k = Len(log)
  <2>1. LastHash(new) = Before(log, k)
    BY <1>1, <1>2, <1>5 DEF LastHash, Before
  <2>2. /\ Len(Before(log, k)) <= Len(log[k].prev)
        /\ Len(log[k].prev) < Len(log[k].hash)
    BY <1>2 DEF IInv, Rising
  <2>3. Before(log, k) \in Seq(Body) /\ log[k] \in Line
    BY <1>2, BeforeIsAHash
  <2>4. /\ Len(Before(log, k)) \in Nat /\ Len(log[k].prev) \in Nat
        /\ Len(log[k].hash) \in Nat
    BY <2>3, LenProperties DEF Line
  <2>. QED
    BY <1>3, <1>5, <2>1, <2>2, <2>4 DEF new
<1>. QED
  BY <1>2, <1>4, <1>5

LEMMA LoseKeepsIInv ==
  ASSUME IInv, LoseLine
  PROVE  IInv'
<1>1. Len(log) \in 1 .. Len(log)
  BY DEF LoseLine, IInv, Lines
<1>2. /\ log' = Without(log, Len(log)) /\ touched' = TouchedWithout(Len(log))
      /\ pending' = [w \in Writers |-> Nothing]
  BY DEF LoseLine
<1>3. Lines' /\ TornAtTheEnd' /\ Rising(log') /\ Marked'
  BY <1>1, <1>2, LosingKeeps
<1>. QED
  BY <1>2, <1>3 DEF IInv, Waiting

LEMMA DeleteKeepsIInv ==
  ASSUME IInv, NEW k \in 1 .. Len(log), DeleteLine(k)
  PROVE  IInv'
<1>1. /\ log' = Without(log, k) /\ pending' = pending
      /\ touched' = IF k = Len(log) \/ (k = Len(log) - 1 /\ ~Readable(log))
                    THEN TouchedWithout(k) ELSE Earlier(k)
  BY DEF DeleteLine
<1>2. Lines' /\ TornAtTheEnd' /\ Rising(log') /\ Marked'
  BY <1>1, LosingKeeps
<1>3. Waiting'
  <2>1. ASSUME NEW w \in Writers, pending[w] # Nothing
        PROVE  Readable(log') /\ Fits(pending[w][1], LastHash(log'))
    <3>1. Readable(log) /\ Fits(pending[w][1], LastHash(log))
      BY <2>1 DEF IInv, Waiting
    <3>2. Readable(log')
      <4>1. /\ log \in Seq({Torn} \cup Line) /\ \A j \in 1 .. Len(log) : log[j] # Torn
        BY <3>1 DEF IInv, Lines, Readable
      <4>2. /\ Len(log') = Len(log) - 1
            /\ \A j \in 1 .. Len(log) - 1 : log'[j] = IF j < k THEN log[j] ELSE log[j + 1]
        BY <1>1, <4>1, WithoutIsShorter
      <4>. QED
        BY <4>1, <4>2 DEF Readable
    <3>3. Len(LastHash(log')) <= Len(LastHash(log))
      BY <1>1, <3>1, ShorterLastHash
    <3>4. /\ LastHash(log) \in Seq(Body) /\ LastHash(log') \in Seq(Body)
          /\ pending[w][1].prev \in Seq(Body)
      <4>1. LastHash(log) \in Seq(Body)
        BY <3>1, LastHashIsAHash DEF IInv, Lines, Readable
      <4>2. LastHash(log') \in Seq(Body)
        <5>1. log' \in Seq({Torn} \cup Line)
          BY <1>2 DEF Lines
        <5>2. log' # <<>> => Len(log') \in 1 .. Len(log')
          BY <5>1
        <5>3. log' # <<>> => log'[Len(log')] # Torn
          BY <3>2, <5>2 DEF Readable
        <5>. QED
          BY <5>1, <5>2, <5>3 DEF LastHash, GENESIS, Line
      <4>. QED
        BY <3>1, <4>1, <4>2 DEF Fits, Line
    <3>5. /\ Len(LastHash(log)) \in Nat /\ Len(LastHash(log')) \in Nat
          /\ Len(pending[w][1].prev) \in Nat
      BY <3>4, LenProperties
    <3>. QED
      BY <3>1, <3>2, <3>3, <3>5 DEF Fits
  <2>. QED
    BY <1>1, <2>1 DEF IInv, Waiting
<1>. QED
  BY <1>2, <1>3 DEF IInv

\* A forged body is never the last payload of its hash.
LEMMA ChangeKeepsIInv ==
  ASSUME IInv, NEW k \in 1 .. Len(log), NEW p \in Forged, ChangeRecord(k, p)
  PROVE  IInv'
<1> DEFINE r == [log[k] EXCEPT !.body = p]
<1>1. /\ log[k] # Torn /\ log' = [log EXCEPT ![k] = r] /\ pending' = pending
      /\ touched' = Earlier(k)
  BY DEF ChangeRecord
<1>2. log \in Seq({Torn} \cup Line) /\ log[k] \in Line /\ Len(log) <= MaxLen
  BY <1>1 DEF IInv, Lines
<1>3. /\ r \in Line /\ r.prev = log[k].prev /\ r.hash = log[k].hash /\ r.body = p
  BY <1>2 DEF Line, Body
<1> HIDE DEF r
<1>4. /\ log' \in Seq({Torn} \cup Line) /\ Len(log') = Len(log) /\ log'[k] = r
      /\ \A j \in 1 .. Len(log) : j # k => log'[j] = log[j]
  BY <1>1, <1>2, <1>3
<1>5. r # Torn
  BY <1>3, TornAssumption
<1>6. /\ \A j \in 1 .. Len(log) : log'[j] = Torn <=> log[j] = Torn
      /\ \A j \in 1 .. Len(log) : log'[j].prev = log[j].prev /\ log'[j].hash = log[j].hash
  BY <1>1, <1>3, <1>4, <1>5
<1>7. \A j \in 1 .. Len(log) : Before(log', j) = Before(log, j)
  BY <1>2, <1>6 DEF Before
<1>8. LastHash(log') = LastHash(log) /\ (Readable(log') <=> Readable(log))
  <2>1. log' = <<>> <=> log = <<>>
    BY <1>2, <1>4
  <2>2. log # <<>> => Len(log) \in 1 .. Len(log)
    BY <1>2
  <2>. QED
    BY <1>4, <1>6, <2>1, <2>2 DEF LastHash, Readable
<1>9. Lines' /\ TornAtTheEnd'
  BY <1>2, <1>4, <1>6 DEF IInv, Lines, TornAtTheEnd
<1>10. Rising(log')
  BY <1>4, <1>6, <1>7 DEF IInv, Rising
<1>11. Waiting'
  BY <1>1, <1>8 DEF IInv, Waiting
<1>12. ~Chained(log', k)
  <2>1. r.hash \in Seq(Body) /\ r.hash[Len(r.hash)] \in Payloads
    BY <1>1, <1>2, <1>3 DEF IInv, Rising, Line
  <2>2. Before(log', k) \in Seq(Body)
    <3>1. k > 1 => log[k - 1] # Torn
      BY <1>2 DEF IInv, TornAtTheEnd
    <3>. QED
      BY <1>2, <1>7, <3>1, BeforeIsAHash
  <2>3. ASSUME r.hash = Append(Before(log', k), p)
        PROVE  FALSE
    <3>1. r.hash[Len(r.hash)] = p
      BY <2>2, <2>3, AppendProperties DEF Body
    <3>. QED
      BY <2>1, <3>1, ForgedAssumption
  <2>. QED
    BY <1>3, <1>4, <2>3 DEF Chained, Digest
<1>13. Marked'
  <2>1. CASE touched' = k
    BY <1>4, <1>5, <1>12, <2>1 DEF Marked
  <2>2. CASE touched' = touched /\ touched # k /\ touched # Untouched
    BY <1>4, <1>6, <1>7, <2>2 DEF IInv, Marked, Chained
  <2>3. touched' = k \/ touched' = touched
    BY <1>1 DEF Earlier
  <2>4. touched' = Untouched => Marked'
    BY DEF Marked, Untouched
  <2>. QED
    BY <2>1, <2>2, <2>3, <2>4
<1>. QED
  BY <1>9, <1>10, <1>11, <1>13 DEF IInv

LEMMA NextIInv ==
  ASSUME IInv, OneWriter, [Next]_vars
  PROVE  IInv'
<1>1. ASSUME UNCHANGED vars
      PROVE  IInv'
  BY <1>1 DEF vars, IInv, Lines, TornAtTheEnd, Rising, Before, Waiting, Readable, Fits,
     LastHash, Marked, Chained, Untouched
<1>2. ASSUME NEW w \in Writers, NEW p \in Payloads, ReadLast(w, p)
      PROVE  IInv'
  BY <1>2, ReadKeepsIInv
<1>3. ASSUME NEW w \in Writers, Write(w) \/ DieWriting(w)
      PROVE  IInv'
  BY <1>3, WriteKeepsIInv
<1>4. ASSUME NEW k \in 1 .. Len(log), DeleteLine(k)
      PROVE  IInv'
  BY <1>4, DeleteKeepsIInv
<1>5. ASSUME NEW k \in 1 .. Len(log), NEW p \in Forged, ChangeRecord(k, p)
      PROVE  IInv'
  BY <1>5, ChangeKeepsIInv
<1>. QED
  BY <1>1, <1>2, <1>3, <1>4, <1>5, LoseKeepsIInv DEF Next

------------------------------------------------------------------------------
(* The theorem *)

\* The record verify() names is the first that is not chained.
LEMMA FirstBrokenIsFirst ==
  ASSUME NEW file \in Seq({Torn} \cup Line), NEW k \in 1 .. Len(file), ~Chained(file, k)
  PROVE  FirstBroken(file) <= k
<1> DEFINE T == {j \in 1 .. Len(file) : ~Chained(file, j)}
<1>1. k \in T /\ T \subseteq Nat
  OBVIOUS
<1>2. PICK m \in T : \A j \in T : ~(<<j, m>> \in OpToRel(<, Nat))
  BY <1>1, NatLessThanWellFounded, WFMin
<1>3. \A j \in T : ~(j < m)
  BY <1>1, <1>2 DEF OpToRel
<1>4. m \in 1 .. Len(file) /\ ~Chained(file, m)
  OBVIOUS
<1>5. \A j \in 1 .. m - 1 : Chained(file, j)
  <2>1. ASSUME NEW j \in 1 .. m - 1, ~Chained(file, j)
        PROVE  FALSE
    <3>1. j \in T /\ j < m
      BY <1>4, <2>1
    <3>. QED
      BY <1>3, <3>1
  <2>. QED
    BY <2>1
<1> DEFINE f == FirstBroken(file)
<1>6. f \in 1 .. Len(file) /\ ~Chained(file, f) /\ \A j \in 1 .. f - 1 : Chained(file, j)
  BY <1>4, <1>5, Zenon DEF FirstBroken
<1>7. ASSUME k < f
      PROVE  FALSE
  <2>1. k \in 1 .. f - 1
    BY <1>6, <1>7
  <2>. QED
    BY <1>6, <2>1
<1>. QED
  BY <1>6, <1>7

LEMMA MarksAreFound == IInv => BreaksByFirstTamperedRecord
<1>1. ASSUME IInv, Readable(log), touched <= Len(log)
      PROVE  ~Verifies(log) /\ FirstBroken(log) <= touched
  <2>1. Len(log) < Untouched
    BY <1>1, BoundsAssumption DEF IInv, Lines, Untouched
  <2>2. touched \in 1 .. Len(log) /\ ~Chained(log, touched)
    BY <1>1, <2>1, BoundsAssumption DEF IInv, Marked, Lines, Untouched
  <2>3. ~Verifies(log)
    BY <2>2 DEF Verifies
  <2>4. FirstBroken(log) <= touched
    BY <1>1, <2>2, FirstBrokenIsFirst DEF IInv, Lines
  <2>. QED
    BY <2>3, <2>4
<1>. QED
  BY <1>1 DEF BreaksByFirstTamperedRecord

\* With one process appending at a time, no sequence of appends, crashes, lost
\* lines and further edits hides an edit: verify() names a record at or before it.
THEOREM EditsAreFound ==
  ASSUME OneWriter
  PROVE  Spec => []BreaksByFirstTamperedRecord
<1>1. IInv /\ [Next]_vars => IInv'
  BY NextIInv
<1>. QED
  BY <1>1, InitIInv, MarksAreFound, PTL DEF Spec

------------------------------------------------------------------------------
(* A log nobody edited *)

\* Until the first edit every record is chained, and what a writer holds hangs on
\* the last line.
Unedited ==
    /\ edits \in Nat
    /\ edits = 0 =>
         /\ \A k \in 1 .. Len(log) : log[k] # Torn => Chained(log, k)
         /\ \A w \in Writers : pending[w] # Nothing => pending[w][1].prev = LastHash(log)

\* A line behind the last one leaves the records before it as they are.
LEMMA ExtendAppends ==
  ASSUME NEW line \in {Torn} \cup Line, log \in Seq({Torn} \cup Line), Readable(log),
         log' = Extend(log, line)
  PROVE  /\ log' \in Seq({Torn} \cup Line) /\ Len(log') = Len(log) + 1
         /\ log'[Len(log) + 1] = line
         /\ Before(log', Len(log) + 1) = LastHash(log)
         /\ \A k \in 1 .. Len(log) :
              log'[k] = log[k] /\ (Chained(log', k) <=> Chained(log, k))
<1>1. \A j \in 1 .. Len(log) : log[j] # Torn
  BY DEF Readable
<1>2. log' = Append(log, line)
  BY <1>1 DEF Extend
<1>3. /\ log' \in Seq({Torn} \cup Line) /\ Len(log') = Len(log) + 1
      /\ log'[Len(log) + 1] = line
      /\ \A j \in 1 .. Len(log) : log'[j] = log[j]
  BY <1>2
<1>4. Before(log', Len(log) + 1) = LastHash(log)
  BY <1>3 DEF Before, LastHash
<1>5. \A j \in 1 .. Len(log) : Before(log', j) = Before(log, j)
  BY <1>3 DEF Before
<1>. QED
  BY <1>3, <1>4, <1>5 DEF Chained

\* Without a line, the records before it are as they were.
LEMMA WithoutKeepsTheFirst ==
  ASSUME NEW n \in 1 .. Len(log), log \in Seq({Torn} \cup Line), log' = Without(log, n)
  PROVE  /\ Len(log') = Len(log) - 1
         /\ \A k \in 1 .. Len(log') : k < n =>
              log'[k] = log[k] /\ (Chained(log', k) <=> Chained(log, k))
<1>1. /\ Len(log') = Len(log) - 1
      /\ \A j \in 1 .. Len(log) - 1 : log'[j] = IF j < n THEN log[j] ELSE log[j + 1]
  BY WithoutIsShorter
<1>2. \A j \in 1 .. Len(log') : j < n => log'[j] = log[j]
  BY <1>1
<1>3. \A j \in 1 .. Len(log') : j < n => Before(log', j) = Before(log, j)
  BY <1>1, <1>2 DEF Before
<1>. QED
  BY <1>1, <1>2, <1>3 DEF Chained

LEMMA NextUnedited ==
  ASSUME IInv, Unedited, OneWriter, [Next]_vars
  PROVE  Unedited'
<1>1. ASSUME UNCHANGED vars
      PROVE  Unedited'
  BY <1>1 DEF vars, Unedited, Chained, Before, LastHash
<1>2. ASSUME NEW w \in Writers, NEW p \in Payloads, ReadLast(w, p)
      PROVE  Unedited'
  <2>1. UNCHANGED <<log, edits>>
        /\ pending' = [pending EXCEPT ![w] = <<Record(LastHash(log), p)>>]
    BY <1>2 DEF ReadLast
  <2>2. Record(LastHash(log), p).prev = LastHash(log)
    BY DEF Record
  <2>3. ASSUME NEW v \in Writers
        PROVE  \/ pending'[v] = pending[v]
               \/ pending'[v] = <<Record(LastHash(log), p)>>
    BY <2>1 DEF IInv, Waiting
  <2>. QED
    BY <2>1, <2>2, <2>3 DEF Unedited, Chained, Before, LastHash
<1>3. ASSUME NEW w \in Writers, Write(w) \/ DieWriting(w)
      PROVE  Unedited'
  <2>1. /\ pending[w] # Nothing /\ edits' = edits
        /\ pending' = [pending EXCEPT ![w] = Nothing]
        /\ log' = Extend(log, pending[w][1]) \/ log' = Extend(log, Torn)
    BY <1>3 DEF Write, DieWriting
  <2>2. Readable(log) /\ Fits(pending[w][1], LastHash(log))
        /\ log \in Seq({Torn} \cup Line)
    BY <2>1 DEF IInv, Waiting, Lines
  <2>3. \A v \in Writers : pending'[v] = Nothing
    BY <2>1 DEF IInv, Waiting, OneWriter
  <2>4. ASSUME edits = 0, NEW k \in 1 .. Len(log'), log'[k] # Torn
        PROVE  Chained(log', k)
    <3>1. PICK line \in {Torn} \cup Line :
            /\ log' = Extend(log, line)
            /\ line = Torn \/ line = pending[w][1]
      BY <2>1, <2>2 DEF Fits
    <3>2. /\ Len(log') = Len(log) + 1
          /\ log'[Len(log) + 1] = line
          /\ Before(log', Len(log) + 1) = LastHash(log)
          /\ \A j \in 1 .. Len(log) :
               log'[j] = log[j] /\ (Chained(log', j) <=> Chained(log, j))
      BY <2>2, <3>1, ExtendAppends
    <3>3. CASE k \in 1 .. Len(log)
      BY <2>4, <3>2, <3>3 DEF Unedited
    <3>4. CASE k = Len(log) + 1
      <4>1. line = pending[w][1]
        BY <2>4, <3>1, <3>2, <3>4
      <4>2. line.prev = LastHash(log)
        BY <2>1, <2>4, <4>1 DEF Unedited
      <4>3. line.hash = Append(line.prev, line.body)
        BY <2>2, <4>1 DEF Fits
      <4>. QED
        BY <3>2, <3>4, <4>2, <4>3 DEF Chained, Digest
    <3>. QED
      BY <2>2, <3>2, <3>3, <3>4
  <2>. QED
    BY <2>1, <2>3, <2>4 DEF Unedited
<1>4. CASE LoseLine
  <2>1. /\ log' = Without(log, Len(log)) /\ edits' = edits
        /\ \A v \in Writers : pending'[v] = Nothing
    BY <1>4 DEF LoseLine
  <2>2. log \in Seq({Torn} \cup Line) /\ Len(log) \in 1 .. Len(log)
    BY <1>4 DEF LoseLine, IInv, Lines
  <2>3. /\ Len(log') = Len(log) - 1
        /\ \A k \in 1 .. Len(log') : k < Len(log) =>
             log'[k] = log[k] /\ (Chained(log', k) <=> Chained(log, k))
    BY <2>1, <2>2, WithoutKeepsTheFirst
  <2>4. \A k \in 1 .. Len(log') : k < Len(log) /\ k \in 1 .. Len(log)
    BY <2>2, <2>3
  <2>. QED
    BY <2>1, <2>3, <2>4 DEF Unedited
<1>5. ASSUME NEW k \in 1 .. Len(log), DeleteLine(k) \/ \E p \in Forged : ChangeRecord(k, p)
      PROVE  Unedited'
  <2>1. edits' = edits + 1
    BY <1>5 DEF DeleteLine, ChangeRecord
  <2>2. edits' \in Nat /\ edits' # 0
    BY <2>1 DEF Unedited
  <2>. QED
    BY <2>2 DEF Unedited
<1>. QED
  BY <1>1, <1>2, <1>3, <1>4, <1>5 DEF Next

\* One process at a time: whatever crashes and whatever line is lost, verify()
\* accepts a log that nobody edited.
THEOREM UneditedLogsVerify ==
  ASSUME OneWriter
  PROVE  Spec => []VerifiesUnlessTouched
<1>1. Init => Unedited
  BY DEF Init, Unedited, Nothing
<1>2. IInv /\ [Next]_vars => IInv'
  BY NextIInv
<1>3. IInv /\ Unedited /\ [Next]_vars => Unedited'
  BY NextUnedited
<1>4. Unedited => VerifiesUnlessTouched
  BY DEF Unedited, VerifiesUnlessTouched, Verifies, Readable
<1>. QED
  BY <1>1, <1>2, <1>3, <1>4, InitIInv, PTL DEF Spec

------------------------------------------------------------------------------
(* A log that verifies *)

\* From the first line to k there are records, each chained to the one before.
ChainedUpTo(file, k) == \A j \in 1 .. k : file[j] # Torn /\ Chained(file, j)

\* The hash of the last record of a chain is what all of them say.
LEMMA ChainTellsBodies ==
  ASSUME NEW file \in Seq({Torn} \cup Line), NEW k \in 1 .. Len(file), ChainedUpTo(file, k)
  PROVE  file[k].hash = [i \in 1 .. k |-> file[i].body]
<1> DEFINE Wrong(j) == file[j].hash # [i \in 1 .. j |-> file[i].body]
           T == {j \in 1 .. k : Wrong(j)}
<1>1. SUFFICES ASSUME k \in T
               PROVE  FALSE
  OBVIOUS
<1>0. k \in T /\ T \subseteq Nat
  BY <1>1
<1>2. PICK m \in T : \A j \in T : ~(<<j, m>> \in OpToRel(<, Nat))
  BY <1>0, NatLessThanWellFounded, WFMin
<1>3. \A j \in T : ~(j < m)
  <2> HIDE DEF T
  <2>. QED
    BY <1>0, <1>2 DEF OpToRel
<1>4. m \in 1 .. k /\ Wrong(m)
  OBVIOUS
<1>5. /\ file[m].hash = Append(Before(file, m), file[m].body)
      /\ \A j \in 1 .. k : file[j] \in Line
  BY <1>4 DEF ChainedUpTo, Chained, Digest
<1>6. file[m].body \in Body /\ \A j \in 1 .. k : file[j].body \in Body
  BY <1>4, <1>5 DEF Line
<1>7. Before(file, m) = [i \in 1 .. m - 1 |-> file[i].body]
  <2>1. CASE m = 1
    BY <2>1 DEF Before, GENESIS
  <2>2. CASE m > 1
    <3>1. m - 1 \in 1 .. k /\ m - 1 < m
      BY <1>4, <2>2
    <3>2. ~Wrong(m - 1)
      BY <1>3, <3>1
    <3>3. Before(file, m) = file[m - 1].hash
      BY <2>2 DEF Before
    <3>. QED
      BY <3>2, <3>3
  <2>. QED
    BY <1>4, <2>1, <2>2
<1>8. Append([i \in 1 .. m - 1 |-> file[i].body], file[m].body) = [i \in 1 .. m |-> file[i].body]
  <2> DEFINE a == [i \in 1 .. m - 1 |-> file[i].body]
             b == [i \in 1 .. m |-> file[i].body]
  <2>1. a \in Seq(Body) /\ Len(a) = m - 1 /\ b \in Seq(Body) /\ Len(b) = m
    BY <1>4, <1>6
  <2>2. /\ Append(a, file[m].body) \in Seq(Body) /\ Len(Append(a, file[m].body)) = m
        /\ Append(a, file[m].body)[m] = file[m].body
        /\ \A i \in 1 .. m - 1 : Append(a, file[m].body)[i] = a[i]
    <3> HIDE DEF a
    <3>. QED
      BY <1>4, <1>6, <2>1, AppendProperties
  <2>3. \A i \in 1 .. m : Append(a, file[m].body)[i] = b[i]
    BY <1>4, <2>2
  <2>. QED
    <3> HIDE DEF a, b
    <3>1. Append(a, file[m].body) = b
      BY <2>1, <2>2, <2>3, SeqEqual
    <3>. QED
      BY <3>1 DEF a, b
<1>. QED
  BY <1>4, <1>5, <1>7, <1>8

\* What a chain from the first line says was the whole file once.
ChainsWereWritten ==
    /\ <<>> \in written
    /\ \A k \in 1 .. Len(log) : ChainedUpTo(log, k) => log[k].hash \in written

\* A line that goes leaves a gap that no chain crosses.
LEMMA LosingKeepsWritten ==
  ASSUME IInv, ChainsWereWritten, NEW n \in 1 .. Len(log), log' = Without(log, n),
         written' = written
  PROVE  ChainsWereWritten'
<1>1. /\ log \in Seq({Torn} \cup Line) /\ Rising(log)
      /\ \A j \in 1 .. Len(log) : log[j] = Torn => j = Len(log)
  BY DEF IInv, Lines, TornAtTheEnd
<1>2. /\ Len(log') = Len(log) - 1
      /\ \A k \in 1 .. Len(log') : k < n =>
           log'[k] = log[k] /\ (Chained(log', k) <=> Chained(log, k))
  BY <1>1, WithoutKeepsTheFirst
<1>3. n < Len(log) /\ log[n + 1] # Torn => ~Chained(log', n)
  BY <1>1, WithoutRises
<1>4. n < Len(log) => log'[n] = log[n + 1]
  <2>1. \A j \in 1 .. Len(log) - 1 : log'[j] = IF j < n THEN log[j] ELSE log[j + 1]
    BY <1>1, WithoutIsShorter
  <2>. QED
    BY <1>1, <2>1
<1>5. ASSUME NEW k \in 1 .. Len(log'), ChainedUpTo(log', k)
      PROVE  log'[k].hash \in written
  <2>1. k < n
    <3>1. ASSUME k >= n
          PROVE  FALSE
      <4>1. n \in 1 .. k /\ n < Len(log)
        BY <1>1, <1>2, <1>5, <3>1
      <4>2. log'[n] # Torn /\ Chained(log', n)
        BY <1>5, <4>1 DEF ChainedUpTo
      <4>. QED
        BY <1>3, <1>4, <4>1, <4>2
    <3>. QED
      BY <1>2, <1>1, <3>1
  <2>2. k \in 1 .. Len(log)
    BY <1>1, <1>2, <2>1
  <2>3. \A j \in 1 .. k : j \in 1 .. Len(log') /\ j < n
    BY <1>1, <1>2, <2>1
  <2>4. ChainedUpTo(log, k)
    BY <1>2, <1>5, <2>3 DEF ChainedUpTo
  <2>5. k \in 1 .. k
    OBVIOUS
  <2>. QED
    BY <1>2, <2>1, <2>2, <2>4 DEF ChainsWereWritten
<1>. QED
  BY <1>5 DEF ChainsWereWritten

\* A changed body is no longer the last payload of its hash: the chain ends there.
LEMMA ChangingKeepsWritten ==
  ASSUME IInv, IInv', ChainsWereWritten, NEW n \in 1 .. Len(log), NEW p \in Forged,
         ChangeRecord(n, p)
  PROVE  ChainsWereWritten'
<1>1. /\ log \in Seq({Torn} \cup Line) /\ Len(log) <= MaxLen /\ log[n] # Torn
      /\ log' = [log EXCEPT ![n] = [log[n] EXCEPT !.body = p]]
      /\ touched' = Earlier(n) /\ written' = written
  BY DEF IInv, Lines, ChangeRecord
<1>2. Len(log') = Len(log) /\ \A j \in 1 .. Len(log) : j # n => log'[j] = log[j]
  BY <1>1
<1>3. touched' \in 1 .. n
  BY <1>1, BoundsAssumption DEF IInv, Marked, Untouched, Earlier
<1>4. ~Chained(log', touched')
  BY <1>1, <1>3, BoundsAssumption DEF IInv, Marked, Untouched
<1>5. ASSUME NEW k \in 1 .. Len(log'), ChainedUpTo(log', k)
      PROVE  log'[k].hash \in written
  <2>1. k < n
    <3>1. ASSUME k >= n
          PROVE  FALSE
      <4>1. touched' \in 1 .. k
        BY <1>3, <1>5, <3>1
      <4>. QED
        BY <1>4, <1>5, <4>1 DEF ChainedUpTo
    <3>. QED
      BY <1>1, <1>2, <3>1
  <2>2. \A j \in 1 .. k : j \in 1 .. Len(log) /\ j # n
    BY <1>1, <1>2, <2>1
  <2>3. \A j \in 1 .. k : log'[j] = log[j]
    BY <1>2, <2>2
  <2>4. \A j \in 1 .. k : Before(log', j) = Before(log, j)
    <3>1. \A j \in 1 .. k : j > 1 => j - 1 \in 1 .. k
      OBVIOUS
    <3>. QED
      BY <2>3, <3>1 DEF Before
  <2>5. ChainedUpTo(log, k)
    BY <1>5, <2>3, <2>4 DEF ChainedUpTo, Chained
  <2>6. k \in 1 .. Len(log) /\ log'[k] = log[k]
    BY <1>2, <2>1
  <2>. QED
    BY <2>5, <2>6 DEF ChainsWereWritten
<1>. QED
  BY <1>1, <1>5 DEF ChainsWereWritten

\* A record that completes a chain completes the file that is written down.
LEMMA WritingKeepsWritten ==
  ASSUME IInv, ChainsWereWritten, NEW w \in Writers, Write(w) \/ DieWriting(w)
  PROVE  ChainsWereWritten'
<1>1. PICK line \in {Torn} \cup Line :
        /\ log' = Extend(log, line)
        /\ written \subseteq written'
        /\ line # Torn => (Readable(log') => Bodies(log') \in written')
  <2>1. pending[w] # Nothing
    BY DEF Write, DieWriting
  <2>2. pending[w][1] \in Line
    BY <2>1 DEF IInv, Waiting, Fits
  <2>3. CASE Write(w)
    BY <2>2, <2>3 DEF Write
  <2>4. CASE DieWriting(w)
    BY <2>4 DEF DieWriting
  <2>. QED
    BY <2>3, <2>4
<1>2. Readable(log) /\ log \in Seq({Torn} \cup Line)
  BY DEF Write, DieWriting, IInv, Waiting, Lines
<1>3. /\ log' \in Seq({Torn} \cup Line) /\ Len(log') = Len(log) + 1
      /\ log'[Len(log) + 1] = line
      /\ \A k \in 1 .. Len(log) :
           log'[k] = log[k] /\ (Chained(log', k) <=> Chained(log, k))
  BY <1>1, <1>2, ExtendAppends
<1>4. ASSUME NEW k \in 1 .. Len(log'), ChainedUpTo(log', k)
      PROVE  log'[k].hash \in written'
  <2>1. CASE k \in 1 .. Len(log)
    <3>1. \A j \in 1 .. k : j \in 1 .. Len(log)
      BY <2>1
    <3>2. ChainedUpTo(log, k)
      BY <1>3, <1>4, <3>1 DEF ChainedUpTo
    <3>3. log[k].hash \in written
      BY <2>1, <3>2 DEF ChainsWereWritten
    <3>. QED
      BY <1>1, <1>3, <2>1, <3>3
  <2>2. CASE k = Len(log')
    <3>1. log'[k].hash = [i \in 1 .. k |-> log'[i].body]
      BY <1>3, <1>4, ChainTellsBodies
    <3>2. Bodies(log') = [i \in 1 .. k |-> log'[i].body]
      BY <2>2 DEF Bodies
    <3>3. k \in 1 .. k
      OBVIOUS
    <3>4. Readable(log') /\ line # Torn
      BY <1>2, <1>3, <1>4, <2>2, <3>3 DEF ChainedUpTo, Readable
    <3>. QED
      BY <1>1, <3>1, <3>2, <3>4
  <2>. QED
    BY <1>2, <1>3, <2>1, <2>2
<1>. QED
  BY <1>1, <1>4 DEF ChainsWereWritten

LEMMA NextChainsWereWritten ==
  ASSUME IInv, IInv', ChainsWereWritten, [Next]_vars
  PROVE  ChainsWereWritten'
<1>1. ASSUME UNCHANGED <<log, written>>
      PROVE  ChainsWereWritten'
  BY <1>1 DEF ChainsWereWritten, ChainedUpTo, Chained, Before
<1>2. ASSUME NEW w \in Writers, NEW p \in Payloads, ReadLast(w, p)
      PROVE  ChainsWereWritten'
  BY <1>1, <1>2 DEF ReadLast
<1>3. CASE LoseLine
  <2>1. log' = Without(log, Len(log)) /\ written' = written /\ Len(log) \in 1 .. Len(log)
    BY <1>3 DEF LoseLine, IInv, Lines
  <2>. QED
    BY <2>1, LosingKeepsWritten
<1>4. ASSUME NEW k \in 1 .. Len(log), DeleteLine(k)
      PROVE  ChainsWereWritten'
  <2>1. log' = Without(log, k) /\ written' = written
    BY <1>4 DEF DeleteLine
  <2>. QED
    BY <2>1, LosingKeepsWritten
<1>. QED
  BY <1>1, <1>2, <1>3, <1>4, WritingKeepsWritten, ChangingKeepsWritten DEF Next, vars

LEMMA ChainsAreFiles == IInv /\ ChainsWereWritten => VerifiedOnlyIfOnceWritten
<1>1. ASSUME IInv, ChainsWereWritten, Verifies(log)
      PROVE  Bodies(log) \in written
  <2>1. log \in Seq({Torn} \cup Line)
    BY <1>1 DEF IInv, Lines
  <2>2. CASE log = <<>>
    <3>1. Bodies(log) = <<>>
      BY <2>2 DEF Bodies
    <3>. QED
      BY <1>1, <3>1 DEF ChainsWereWritten
  <2>3. CASE log # <<>>
    <3>1. Len(log) \in 1 .. Len(log)
      BY <2>1, <2>3
    <3>2. ChainedUpTo(log, Len(log))
      BY <1>1 DEF Verifies, Readable, ChainedUpTo
    <3>3. log[Len(log)].hash = [i \in 1 .. Len(log) |-> log[i].body]
      BY <2>1, <3>1, <3>2, ChainTellsBodies
    <3>. QED
      BY <1>1, <3>1, <3>2, <3>3 DEF ChainsWereWritten, Bodies
  <2>. QED
    BY <2>2, <2>3
<1>. QED
  BY <1>1 DEF VerifiedOnlyIfOnceWritten

\* One process at a time: a log that verifies says, from its first line to its
\* last, exactly what it said when append() left it, whatever was edited since.
THEOREM VerifiedLogsWereWritten ==
  ASSUME OneWriter
  PROVE  Spec => []VerifiedOnlyIfOnceWritten
<1>1. Init => ChainsWereWritten
  BY DEF Init, ChainsWereWritten
<1>2. IInv /\ [Next]_vars => IInv'
  BY NextIInv
<1>3. IInv /\ IInv' /\ ChainsWereWritten /\ [Next]_vars => ChainsWereWritten'
  BY NextChainsWereWritten
<1>. QED
  BY <1>1, <1>2, <1>3, InitIInv, ChainsAreFiles, PTL DEF Spec

==============================================================================
