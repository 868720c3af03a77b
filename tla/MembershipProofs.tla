--------------------------- MODULE MembershipProofs ---------------------------
(***************************************************************************)
(* What the listings files say of the market, for any names, venues,       *)
(* calendar, windows and runs: the Korean list and its questions           *)
(* (Membership), and the US list and its sectors (ListingsBackfill).       *)
(***************************************************************************)
EXTENDS Membership, ListingsBackfill, FiniteSetTheorems, SequenceTheorems,
        WellFoundedInduction, TLAPS

States == {"pre", "in", "halted", "gone"}

-----------------------------------------------------------------------------
(* The market                                                              *)

(* A name moves on sessions only, and as a name may move.                  *)
MarketMoves ==
    /\ today \in Nat
    /\ open \subseteq 0 .. today /\ open \cap Weekend = {}
    /\ market \in [Names -> [0 .. today -> States]]
    /\ \A n \in Names, d \in 1 .. today :
         /\ market[n][d] \in Moves(market[n][d - 1])
         /\ d \notin open => market[n][d] = market[n][d - 1]

LEMMA MarketStarts == Init => MarketMoves
<1> SUFFICES ASSUME Init
             PROVE  MarketMoves
  OBVIOUS
<1>1. today = 0 /\ open = {0} /\ market \in [Names -> [{0} -> {"pre", "in"}]]
  BY DEF Init
<1>2. 0 .. today = {0} /\ 1 .. today = {} /\ open \cap Weekend = {}
  BY <1>1, MembershipAssumption
<1>3. market \in [Names -> [0 .. today -> States]]
  BY <1>1, <1>2 DEF States
<1>. QED
  BY <1>1, <1>2, <1>3 DEF MarketMoves

LEMMA MarketGoesOn == MarketMoves /\ [Next]_vars => MarketMoves'
<1> SUFFICES ASSUME MarketMoves, [Next]_vars
             PROVE  MarketMoves'
  OBVIOUS
<1>1. CASE NewDay
  <2>1. PICK session \in BOOLEAN, next \in [Names -> States] :
          LET moved == {n \in Names : next[n] # market[n][today]}
          IN  /\ session => today' \notin Weekend
              /\ moved \subseteq (IF session THEN Movers ELSE {})
              /\ \A n \in Names : next[n] \in Moves(market[n][today])
              /\ open' = IF session THEN open \cup {today'} ELSE open
              /\ market' = [n \in Names |-> [d \in 0 .. today' |->
                              IF d = today' THEN next[n] ELSE market[n][d]]]
    BY <1>1 DEF NewDay, States
  <2>2. today' = today + 1 /\ today \in Nat
    BY <1>1 DEF NewDay, MarketMoves
  <2>3. open' \subseteq 0 .. today' /\ open' \cap Weekend = {}
    BY <2>1, <2>2 DEF MarketMoves
  <2>4. \A n \in Names : \A d \in 0 .. today : market'[n][d] = market[n][d]
    BY <2>1, <2>2
  <2>5. \A n \in Names : market'[n][today + 1] = next[n]
    BY <2>1, <2>2
  <2>6. market' \in [Names -> [0 .. today' -> States]]
    <3>1. \A n \in Names : \A d \in 0 .. today : market[n][d] \in States
      BY DEF MarketMoves
    <3>2. \A d \in 0 .. today' : d = today' \/ d \in 0 .. today
      BY <2>2
    <3>3. ASSUME NEW n \in Names, NEW d \in 0 .. today'
          PROVE  (IF d = today' THEN next[n] ELSE market[n][d]) \in States
      BY <3>1, <3>2
    <3>. QED
      BY <2>1, <3>3
  <2>7. ASSUME NEW n \in Names, NEW d \in 1 .. today'
        PROVE  /\ market'[n][d] \in Moves(market'[n][d - 1])
               /\ d \notin open' => market'[n][d] = market'[n][d - 1]
    <3>1. CASE d = today + 1
      <4>1. d - 1 = today /\ market'[n][d - 1] = market[n][today]
        BY <2>2, <2>4, <3>1
      <4>2. d \notin open' => next[n] = market[n][today]
        BY <2>1, <2>2, <3>1
      <4>. QED
        BY <2>1, <2>5, <3>1, <4>1, <4>2
    <3>2. CASE d # today + 1
      <4>1. d \in 1 .. today /\ d - 1 \in 0 .. today /\ d \in 0 .. today
        BY <2>2, <3>2
      <4>2. d \notin open' => d \notin open
        BY <2>1
      <4>. QED
        BY <2>4, <4>1, <4>2 DEF MarketMoves
    <3>. QED
      BY <3>1, <3>2
  <2>. QED
    BY <2>2, <2>3, <2>6, <2>7 DEF MarketMoves, Moves
<1>2. CASE Read \/ WriteList \/ WriteSidecar \/ Die \/ UNCHANGED vars
  <2>1. UNCHANGED <<today, open, market>>
    BY <1>2 DEF Read, WriteList, WriteSidecar, Die, vars
  <2>. QED
    BY <2>1 DEF MarketMoves, Moves
<1>. QED
  BY <1>1, <1>2 DEF Next

(* What a name once was it stays, at one end or the other.                 *)
LEMMA LeastNatural ==
  ASSUME NEW S \in SUBSET Nat, S # {}
  PROVE  \E x \in S : \A y \in S : x <= y
<1> DEFINE less == OpToRel(<, Nat)
<1>1. IsWellFoundedOn(less, Nat)
  BY NatLessThanWellFounded
<1>2. \A i, j \in Nat : i < j => <<i, j>> \in less
  BY Zenon DEF OpToRel
<1> HIDE DEF less
<1>3. PICK x \in S : \A y \in S : <<y, x>> \notin less
  BY <1>1, WFMin
<1>4. ASSUME NEW y \in S
      PROVE  x <= y
  <2>1. x \in Nat /\ y \in Nat
    OBVIOUS
  <2>2. ~(y < x)
    BY <1>2, <1>3, <2>1, Zenon
  <2>. QED
    BY <2>1, <2>2
<1>. QED
  BY <1>4

LEMMA OnceGoneGone ==
  ASSUME MarketMoves, NEW n \in Names, NEW d \in 0 .. today, NEW e \in d .. today,
         market[n][d] = "gone"
  PROVE  market[n][e] = "gone"
<1> DEFINE back == {i \in d .. today : market[n][i] # "gone"}
<1>1. back = {}
  <2> SUFFICES ASSUME back # {}
               PROVE  FALSE
    OBVIOUS
  <2>1. today \in Nat /\ back \subseteq Nat
    BY DEF MarketMoves
  <2>2. PICK i \in back : \A j \in back : i <= j
    BY <2>1, LeastNatural
  <2>3. i \in 1 .. today /\ i - 1 \in d .. today /\ i - 1 \notin back
    BY <2>1, <2>2
  <2>4. market[n][i] \in Moves("gone")
    BY <2>3 DEF MarketMoves
  <2>. QED
    BY <2>2, <2>4 DEF Moves
<1>. QED
  BY <1>1

LEMMA OnceInNeverBefore ==
  ASSUME MarketMoves, NEW n \in Names, NEW e \in 0 .. today, NEW d \in 0 .. e,
         market[n][e] = "pre"
  PROVE  market[n][d] = "pre"
<1> SUFFICES ASSUME market[n][d] # "pre"
             PROVE  FALSE
  OBVIOUS
<1> DEFINE again == {i \in d .. today : market[n][i] = "pre"}
<1>1. today \in Nat /\ again \subseteq Nat /\ e \in again
  BY DEF MarketMoves
<1>2. PICK i \in again : \A j \in again : i <= j
  BY <1>1, LeastNatural
<1>3. i \in 1 .. today /\ i - 1 \in d .. today /\ i - 1 \notin again
  BY <1>1, <1>2
<1>4. /\ market[n][i] \in Moves(market[n][i - 1]) /\ market[n][i - 1] # "pre"
      /\ market[n][i] = "pre"
  BY <1>2, <1>3 DEF MarketMoves
<1>. QED
  BY <1>4 DEF Moves

-----------------------------------------------------------------------------
(* What a reader of daily bars makes of a window                           *)

TradedOn(m, sessions, day, mute, n) ==
    {d \in ((day - Days) .. day) \ Weekend :
       d \in sessions /\ m[n][d] = "in" /\ <<VenueOf[n], d>> \notin mute}

DatesOf(traded, day) ==
    [listed_on |-> IF Min(traded) > day - Days THEN Min(traded) ELSE None,
     delisted_on |-> IF Max(traded) < day THEN Max(traded) + 1 ELSE None,
     halts |-> {}, sector |-> FALSE]

RowsOf(m, sessions, day, mute) ==
    [n \in {x \in Names : TradedOn(m, sessions, day, mute, x) # {}} |->
       DatesOf(TradedOn(m, sessions, day, mute, n), day)]

LEMMA ReadsBars ==
  ASSUME NEW mute, ReadKrx(mute)
  PROVE  /\ run'.rows = RowsOf(market, open, today, mute) /\ run'.mute = mute
         /\ run'.pc = "list" /\ WindowStart >= 0 /\ source = "krx"
<1>1. ASSUME NEW n \in Names
      PROVE  BarDays(n, mute) = TradedOn(market, open, today, mute, n)
  BY DEF BarDays, Bars, Rows, TradedOn, Weekdays, WindowStart
<1>2. ASSUME NEW n \in Names
      PROVE  KrxListing(n, mute) = DatesOf(TradedOn(market, open, today, mute, n), today)
  BY <1>1 DEF KrxListing, DatesOf, WindowStart
<1>3. {n \in Names : BarDays(n, mute) # {}}
        = {n \in Names : TradedOn(market, open, today, mute, n) # {}}
  BY <1>1
<1>4. [n \in {n \in Names : BarDays(n, mute) # {}} |-> KrxListing(n, mute)]
        = RowsOf(market, open, today, mute)
  BY <1>2, <1>3 DEF RowsOf
<1>5. run' = [pc |-> "list", rows |-> [n \in {n \in Names : BarDays(n, mute) # {}} |-> KrxListing(n, mute)],
              mute |-> mute, pit |-> run'.pit]
  BY DEF ReadKrx
<1>. QED
  BY <1>4, <1>5 DEF ReadKrx

-----------------------------------------------------------------------------
(* The list and the sidecar                                                *)

Asked(mute) == RowsOf(market, open, today, mute)

SidecarFollows ==
    sidecar # Refused =>
      /\ sidecar.by \in Nat /\ sidecar.by <= list.by
      /\ sidecar.as_of \in Nat /\ sidecar.as_of <= today

RunFollows ==
    /\ run # Idle => run.pc \in {"list", "sidecar"}
    /\ (run.pc \in {"list", "sidecar"} /\ source = "krx") =>
         WindowStart >= 0 /\ run.rows = Asked(run.mute)
    /\ run.pc = "sidecar" =>
         /\ sidecar # Refused => sidecar.by < list.by
         /\ list.rows = run.rows

PairSaysWhatItRead ==
    (source = "krx" /\ Paired /\ sidecar.as_of = today) =>
      WindowStart >= 0 /\ list.rows = Asked(sidecar.mute)

FilesFollow == list.by \in Nat /\ SidecarFollows /\ RunFollows /\ PairSaysWhatItRead

LEMMA FilesStart == Init => FilesFollow
BY DEF Init, FilesFollow, SidecarFollows, RunFollows, PairSaysWhatItRead, Paired, Idle

LEMMA FilesGoOn == MarketMoves /\ FilesFollow /\ [Next]_vars => FilesFollow'
<1> SUFFICES ASSUME MarketMoves, FilesFollow, [Next]_vars
             PROVE  FilesFollow'
  OBVIOUS
<1> USE DEF FilesFollow
<1>0. today \in Nat
  BY DEF MarketMoves
<1>1. CASE NewDay
  <2>1. /\ run = Idle /\ today' = today + 1
        /\ UNCHANGED <<source, list, sidecar, run>>
    BY <1>1 DEF NewDay
  <2>2. run'.pc = "idle"
    BY <2>1 DEF Idle
  <2>. QED
    BY <1>0, <2>1, <2>2 DEF SidecarFollows, RunFollows, PairSaysWhatItRead, Paired, Idle
<1>2. ASSUME UNCHANGED <<source, today, open, market>>
      PROVE  /\ WindowStart' = WindowStart
             /\ \A mute : RowsOf(market', open', today', mute) = Asked(mute)
  BY <1>2 DEF WindowStart, Asked
<1>3. CASE Read
  <2>1. UNCHANGED <<source, today, open, market, list, sidecar>>
    BY <1>3 DEF Read
  <2>2. /\ run'.pc = "list"
        /\ source = "krx" => WindowStart >= 0 /\ run'.rows = Asked(run'.mute)
    <3>1. CASE \E mute : ReadKrx(mute)
      BY <3>1, ReadsBars DEF Asked
    <3>2. CASE \E undated : ReadKind(undated)
      BY <3>2 DEF ReadKind
    <3>3. CASE ReadHistory
      BY <3>3 DEF ReadHistory
    <3>. QED
      BY <1>3, <3>1, <3>2, <3>3 DEF Read
  <2>3. Asked(run.mute)' = RowsOf(market', open', today', run'.mute)
        /\ Asked(sidecar.mute)' = RowsOf(market', open', today', sidecar'.mute)
    BY DEF Asked
  <2>. QED
    BY <1>2, <2>1, <2>2, <2>3 DEF SidecarFollows, RunFollows, PairSaysWhatItRead, Paired, Idle
<1>4. CASE WriteList
  <2>1. /\ run.pc = "list" /\ list'.rows = run.rows /\ list'.by = list.by + 1
        /\ run'.pc = "sidecar" /\ run'.rows = run.rows /\ run'.mute = run.mute
        /\ UNCHANGED <<source, today, open, market, sidecar>>
    BY <1>4 DEF WriteList, RunFollows, Idle
  <2>2. Asked(run.mute)' = RowsOf(market', open', today', run'.mute)
        /\ Asked(sidecar.mute)' = RowsOf(market', open', today', sidecar'.mute)
    BY DEF Asked
  <2>. QED
    BY <1>0, <1>2, <2>1, <2>2 DEF SidecarFollows, RunFollows, PairSaysWhatItRead, Paired, Idle
<1>5. CASE WriteSidecar
  <2>1. /\ run.pc = "sidecar" /\ run' = Idle
        /\ sidecar' = [as_of |-> today, pit |-> run.pit, by |-> list.by, mute |-> run.mute]
        /\ UNCHANGED <<source, today, open, market, list>>
    BY <1>5 DEF WriteSidecar
  <2>2. /\ sidecar'.as_of = today /\ sidecar'.by = list.by /\ sidecar'.mute = run.mute
        /\ run'.pc = "idle"
    BY <2>1 DEF Idle
  <2>3. Asked(sidecar.mute)' = RowsOf(market', open', today', sidecar'.mute)
    BY DEF Asked
  <2>4. source = "krx" => WindowStart >= 0 /\ list.rows = Asked(run.mute)
    BY <2>1 DEF RunFollows
  <2>. QED
    BY <1>0, <1>2, <2>1, <2>2, <2>3, <2>4 DEF SidecarFollows, RunFollows, PairSaysWhatItRead, Paired
<1>6. CASE Die
  <2>1. /\ run' = Idle /\ run'.pc = "idle"
        /\ UNCHANGED <<source, today, open, market>>
        /\ \/ list'.whole = FALSE /\ list'.by = list.by + 1 /\ sidecar' = sidecar
           \/ run.pc = "sidecar" /\ sidecar' \in {sidecar, Refused} /\ list' = list
    BY <1>6 DEF Die, Idle
  <2>2. Asked(sidecar.mute)' = RowsOf(market', open', today', sidecar'.mute)
    BY DEF Asked
  <2>. QED
    BY <1>0, <1>2, <2>1, <2>2 DEF SidecarFollows, RunFollows, PairSaysWhatItRead, Paired
<1>7. CASE UNCHANGED vars
  <2>1. UNCHANGED <<source, today, open, market, list, sidecar, run>>
    BY <1>7 DEF vars
  <2>2. Asked(run.mute)' = RowsOf(market', open', today', run'.mute)
        /\ Asked(sidecar.mute)' = RowsOf(market', open', today', sidecar'.mute)
    BY DEF Asked
  <2>. QED
    BY <1>2, <2>1, <2>2 DEF SidecarFollows, RunFollows, PairSaysWhatItRead, Paired, Idle
<1>. QED
  BY <1>1, <1>3, <1>4, <1>5, <1>6, <1>7 DEF Next

-----------------------------------------------------------------------------
(* Dates                                                                   *)

LEMMA MinIsLeast ==
  ASSUME NEW S \in SUBSET Nat, S # {}
  PROVE  Min(S) \in S /\ \A y \in S : Min(S) <= y
BY LeastNatural DEF Min

LEMMA MaxIsGreatest ==
  ASSUME NEW r \in Nat, NEW S \in SUBSET (0 .. r), S # {}
  PROVE  Max(S) \in S /\ \A y \in S : Max(S) >= y
<1> DEFINE below == {r - x : x \in S}
<1>1. below \in SUBSET Nat /\ below # {}
  <2>1. \A x \in S : x \in 0 .. r /\ r - x \in Nat
    OBVIOUS
  <2>. QED
    BY <2>1
<1> HIDE DEF below
<1>2. PICK b \in below : \A c \in below : b <= c
  BY <1>1, LeastNatural
<1>3. PICK x \in S : b = r - x
  BY <1>2 DEF below
<1>4. ASSUME NEW y \in S
      PROVE  x >= y
  <2>1. r - y \in below
    BY DEF below
  <2>2. x \in 0 .. r /\ y \in 0 .. r
    OBVIOUS
  <2>. QED
    BY <1>2, <1>3, <2>1, <2>2
<1>. QED
  BY <1>4 DEF Max

(* The day a name began to trade is a session: its bar is in the window    *)
(* when the day is.                                                        *)
LEMMA BeginsOnASession ==
  ASSUME MarketMoves, NEW n \in Names, NEW start \in 0 .. today, market[n][start] = "pre",
         DaysAs(n, {"in"}) # {}
  PROVE  /\ Min(DaysAs(n, {"in"})) \in (start + 1) .. today
         /\ Min(DaysAs(n, {"in"})) \in open
         /\ market[n][Min(DaysAs(n, {"in"}))] = "in"
         /\ \A d \in DaysAs(n, {"in"}) : Min(DaysAs(n, {"in"})) <= d
<1> DEFINE S == DaysAs(n, {"in"})
           f == Min(S)
<1>1. today \in Nat /\ S \in SUBSET Nat /\ S \subseteq 0 .. today
      /\ \A d \in 0 .. today : d \in S <=> market[n][d] = "in"
  BY DEF MarketMoves, DaysAs
<1> HIDE DEF S
<1>2. f \in S /\ \A d \in S : f <= d
  BY <1>1, MinIsLeast DEF S
<1> HIDE DEF f
<1>3. f \in 0 .. today /\ market[n][f] = "in"
  BY <1>1, <1>2
<1>4. ~(f <= start)
  <2>1. f <= start => market[n][f] = "pre"
    <3>1. f <= start => f \in 0 .. start
      BY <1>1, <1>3
    <3>. QED
      BY <3>1, OnceInNeverBefore
  <2>. QED
    BY <1>3, <2>1
<1>5. f \in (start + 1) .. today /\ f \in 1 .. today /\ f - 1 \in 0 .. today /\ ~(f <= f - 1)
  BY <1>1, <1>3, <1>4
<1>6. f - 1 \notin S
  BY <1>2, <1>5
<1>7. market[n][f - 1] # "in"
  BY <1>1, <1>5, <1>6
<1>8. f \in open
  BY <1>3, <1>5, <1>7 DEF MarketMoves
<1>. QED
  BY <1>2, <1>3, <1>5, <1>8 DEF f, S

(* What a window that starts and ends on a session says of one name.       *)
LEMMA WindowDates ==
  ASSUME MarketMoves, NEW n \in Names, WindowStart >= 0, {WindowStart, today} \subseteq open,
         \A d \in Weekdays : market[n][d] # "halted",
         TradedOn(market, open, today, {}, n) # {}
  PROVE  LET x == DatesOf(TradedOn(market, open, today, {}, n), today)
         IN  /\ Dated(x) <=> market[n][WindowStart] = "pre"
             /\ Dated(x) => x.listed_on = Min(DaysAs(n, {"in"}))
             /\ x.delisted_on # None <=> market[n][today] = "gone"
<1> DEFINE traded == TradedOn(market, open, today, {}, n)
           x == DatesOf(traded, today)
           start == WindowStart
<1>1. /\ today \in Nat /\ Days \in Nat \ {0} /\ None \notin Int
      /\ start \in 0 .. today /\ start = today - Days
  BY MembershipAssumption, UniverseAssumption DEF WindowStart, MarketMoves
<1>2. /\ start \notin Weekend /\ today \notin Weekend
      /\ start \in Weekdays /\ today \in Weekdays
  BY <1>1 DEF MarketMoves, Weekdays
<1>3. \A d \in 0 .. today : market[n][d] \in States
  BY DEF MarketMoves
<1>4. \A d : d \in traded <=> /\ d \in start .. today /\ d \in open
                              /\ d \notin Weekend /\ market[n][d] = "in"
  BY <1>1 DEF TradedOn
<1> HIDE DEF traded
<1>5. traded # {} /\ traded \in SUBSET (0 .. today) /\ traded \in SUBSET Nat
  <2>1. traded \subseteq start .. today
    BY <1>4
  <2>2. start .. today \subseteq 0 .. today /\ 0 .. today \subseteq Nat
    BY <1>1
  <2>. QED
    BY <2>1, <2>2 DEF traded
<1> DEFINE first == Min(traded)
           last == Max(traded)
<1>6. first \in traded /\ \A d \in traded : first <= d
  BY <1>5, MinIsLeast
<1>7. last \in traded /\ \A d \in traded : last >= d
  BY <1>1, <1>5, MaxIsGreatest
<1>8. /\ x.listed_on = IF first > start THEN first ELSE None
      /\ x.delisted_on = IF last < today THEN last + 1 ELSE None
  BY <1>1 DEF DatesOf
<1> HIDE DEF x, first, last
<1>9. first \in start .. today /\ last \in start .. today
      /\ market[n][first] = "in" /\ market[n][last] = "in"
  BY <1>4, <1>6, <1>7
<1>10. first \in Int /\ last + 1 \in Int /\ start \in Int
  BY <1>1, <1>9
<1>11. Dated(x) <=> first > start
  BY <1>1, <1>8, <1>10 DEF Dated
<1>12. x.delisted_on # None <=> last < today
  BY <1>1, <1>8, <1>10
<1>13. first > start <=> market[n][start] = "pre"
  <2>1. market[n][start] \in States /\ market[n][start] # "halted"
    BY <1>1, <1>2, <1>3
  <2>2. market[n][start] # "gone"
    <3>1. start \in 0 .. today /\ first \in start .. today
      BY <1>1, <1>9
    <3>. QED
      BY <1>9, <3>1, OnceGoneGone
  <2>3. CASE market[n][start] = "in"
    <3>1. start \in traded
      BY <1>1, <1>2, <1>4, <2>3
    <3>. QED
      BY <1>1, <1>6, <1>9, <2>3, <3>1
  <2>4. CASE market[n][start] = "pre"
    <3>1. first # start
      BY <1>9, <2>4
    <3>. QED
      BY <1>1, <1>9, <2>4, <3>1
  <2>. QED
    BY <2>1, <2>2, <2>3, <2>4 DEF States
<1>14. market[n][start] = "pre" => first = Min(DaysAs(n, {"in"}))
  <2> SUFFICES ASSUME market[n][start] = "pre"
               PROVE  first = Min(DaysAs(n, {"in"}))
    OBVIOUS
  <2> DEFINE f == Min(DaysAs(n, {"in"}))
  <2>1. first \in DaysAs(n, {"in"})
    BY <1>1, <1>9 DEF DaysAs
  <2>2. /\ f \in (start + 1) .. today /\ f \in open /\ market[n][f] = "in"
        /\ f <= first
    BY <1>1, <2>1, BeginsOnASession
  <2> HIDE DEF f
  <2>3. f \notin Weekend /\ f \in start .. today
    BY <1>1, <2>2 DEF MarketMoves
  <2>4. f \in traded
    BY <1>4, <2>2, <2>3
  <2>. QED
    BY <1>1, <1>6, <1>9, <2>2, <2>4 DEF f
<1>15. last < today <=> market[n][today] = "gone"
  <2>1. market[n][today] \in States /\ market[n][today] # "halted"
    BY <1>1, <1>2, <1>3
  <2>2. market[n][today] # "pre"
    <3>1. today \in 0 .. today /\ last \in 0 .. today
      BY <1>1, <1>9
    <3>. QED
      BY <1>9, <3>1, OnceInNeverBefore
  <2>3. CASE market[n][today] = "in"
    <3>1. today \in traded
      BY <1>1, <1>2, <1>4, <2>3
    <3>. QED
      BY <1>1, <1>7, <1>9, <2>3, <3>1
  <2>4. CASE market[n][today] = "gone"
    <3>1. last # today
      BY <1>9, <2>4
    <3>. QED
      BY <1>1, <1>9, <2>4, <3>1
  <2>. QED
    BY <2>1, <2>2, <2>3, <2>4 DEF States
<1>. QED
  BY <1>8, <1>11, <1>12, <1>13, <1>14, <1>15 DEF x, traded

LEMMA DatesAreProved == MarketMoves /\ FilesFollow => WindowProvesItsDates
<1> SUFFICES ASSUME MarketMoves, FilesFollow, source = "krx", Paired,
                    sidecar.as_of = today, sidecar.mute = {},
                    {WindowStart, today} \subseteq open,
                    \A n \in Names, d \in Weekdays : market[n][d] # "halted",
                    NEW n \in DOMAIN list.rows
             PROVE  LET x == list.rows[n]
                    IN  /\ Dated(x) <=> market[n][WindowStart] = "pre"
                        /\ Dated(x) => x.listed_on = Min(DaysAs(n, {"in"}))
                        /\ x.delisted_on # None <=> market[n][today] = "gone"
  BY DEF WindowProvesItsDates
<1>1. WindowStart >= 0 /\ list.rows = RowsOf(market, open, today, {})
  BY DEF FilesFollow, PairSaysWhatItRead, Asked
<1>2. /\ n \in Names /\ TradedOn(market, open, today, {}, n) # {}
      /\ list.rows[n] = DatesOf(TradedOn(market, open, today, {}, n), today)
  BY <1>1 DEF RowsOf
<1>. QED
  BY <1>1, <1>2, WindowDates

(* For any names, venues, calendar, window and runs: a window that starts  *)
(* and ends on a session, in which every venue answered and no name was    *)
(* halted, gives a listing date to exactly the names that began to trade   *)
(* in it, and it is the day they did; and a delisting date to exactly the  *)
(* names that are gone (fetch_krx.py:193-231, the sidecar beside the list).*)
THEOREM WindowsDateAsTheMarket == Spec => []WindowProvesItsDates
<1>1. Init => MarketMoves /\ FilesFollow
  BY MarketStarts, FilesStart
<1>2. MarketMoves /\ FilesFollow /\ [Next]_vars => (MarketMoves /\ FilesFollow)'
  BY MarketGoesOn, FilesGoOn
<1>3. MarketMoves /\ FilesFollow => WindowProvesItsDates
  BY DatesAreProved
<1>. QED
  BY <1>1, <1>2, <1>3, PTL DEF Spec
-----------------------------------------------------------------------------
(* What a dated list and a roster say                                      *)

(* The first day is a session, and nobody is halted or gone on it.         *)
Began == 0 \in open /\ \A n \in Names : market[n][0] \in {"pre", "in"}

LEMMA PastIsKept ==
  ASSUME MarketMoves, NewDay, NEW n \in Names, NEW d \in 0 .. today
  PROVE  market'[n][d] = market[n][d]
<1>1. today' = today + 1 /\ today \in Nat
  BY DEF NewDay, MarketMoves
<1>2. PICK next : market' = [m \in Names |-> [e \in 0 .. today' |->
                     IF e = today' THEN next[m] ELSE market[m][e]]]
  BY DEF NewDay
<1>. QED
  BY <1>1, <1>2

LEMMA BeganStarts == Init => Began
BY DEF Init, Began

LEMMA BeganGoesOn == MarketMoves /\ Began /\ [Next]_vars => Began'
<1> SUFFICES ASSUME MarketMoves, Began, [Next]_vars
             PROVE  Began'
  OBVIOUS
<1>1. CASE NewDay
  <2>1. 0 \in 0 .. today
    BY DEF MarketMoves
  <2>. QED
    BY <1>1, <2>1, PastIsKept DEF Began, NewDay
<1>2. CASE Read \/ WriteList \/ WriteSidecar \/ Die \/ UNCHANGED vars
  BY <1>2 DEF Read, WriteList, WriteSidecar, Die, vars, Began
<1>. QED
  BY <1>1, <1>2 DEF Next

LEMMA InBeforeAllElse ==
  ASSUME MarketMoves, Began, NEW n \in Names, NEW d \in 0 .. today, market[n][d] # "pre"
  PROVE  \E e \in 0 .. d : market[n][e] = "in"
<1> DEFINE known == {i \in 0 .. d : market[n][i] # "pre"}
<1>1. today \in Nat /\ known \subseteq Nat /\ d \in known
  BY DEF MarketMoves
<1>2. PICK e \in known : \A j \in known : e <= j
  BY <1>1, LeastNatural
<1>3. CASE e = 0
  BY <1>2, <1>3 DEF Began
<1>4. CASE e # 0
  <2>1. e \in 1 .. today /\ e - 1 \in 0 .. d /\ e - 1 \notin known
    BY <1>1, <1>2, <1>4
  <2>2. market[n][e] \in Moves("pre") /\ market[n][e] # "pre"
    BY <1>2, <2>1 DEF MarketMoves
  <2>. QED
    BY <1>2, <2>2 DEF Moves
<1>. QED
  BY <1>3, <1>4

(* What is known of one name on the days up to the last.                   *)
Tells(m, x, n, last) ==
    /\ x.listed_on \in 0 .. last
    /\ \A d \in 0 .. last : d < x.listed_on <=> m[n][d] = "pre"
    /\ x.delisted_on \in {None} \cup (0 .. last)
    /\ \A d \in 0 .. last :
         (x.delisted_on # None /\ x.delisted_on <= d) <=> m[n][d] = "gone"
    /\ \A d \in 0 .. last : (\E h \in x.halts : Covers(h, d)) <=> m[n][d] = "halted"

DatedList(m, csv, last) ==
    /\ DOMAIN csv \subseteq Names
    /\ \A n \in DOMAIN csv : Tells(m, csv[n], n, last)
    /\ \A n \in Names \ DOMAIN csv : \A d \in 0 .. last : m[n][d] = "pre"

Roster(m, csv, last) == DOMAIN csv = {n \in Names : m[n][last] \in {"in", "halted"}}

LEMMA TellingsStay ==
  ASSUME MarketMoves, NewDay, NEW csv, NEW last \in 0 .. today
  PROVE  /\ DatedList(market, csv, last) => DatedList(market', csv, last)
         /\ Roster(market, csv, last) => Roster(market', csv, last)
<1>1. today \in Nat /\ 0 .. last \subseteq 0 .. today
  BY DEF MarketMoves
<1>2. \A n \in Names : \A d \in 0 .. last : market'[n][d] = market[n][d]
  BY <1>1, PastIsKept
<1>3. last \in 0 .. last
  BY <1>1
<1>4. Roster(market, csv, last) => Roster(market', csv, last)
  BY <1>2, <1>3 DEF Roster
<1>5. ASSUME DatedList(market, csv, last)
      PROVE  DatedList(market', csv, last)
  <2>1. ASSUME NEW n \in DOMAIN csv
        PROVE  Tells(market', csv[n], n, last)
    <3>1. n \in Names /\ Tells(market, csv[n], n, last)
      BY <1>5 DEF DatedList
    <3>. QED
      BY <1>2, <3>1 DEF Tells
  <2>. QED
    BY <1>2, <1>5, <2>1 DEF DatedList
<1>. QED
  BY <1>4, <1>5

(* The halts a dated list names cover the halted days, and no others.      *)
LEMMA HaltsAreTheHaltedDays ==
  ASSUME MarketMoves, Began, NEW n \in Names, NEW d \in 0 .. today
  PROVE  (\E h \in HaltsOf(n) : Covers(h, d)) <=> market[n][d] = "halted"
<1> DEFINE resumed(s) == {e \in s .. today : market[n][e] # "halted"}
           halt(s) == [start |-> s, end |-> IF resumed(s) = {} THEN None ELSE Min(resumed(s))]
<1>1. today \in Nat /\ None \notin Int /\ market[n][0] # "halted"
  BY UniverseAssumption DEF MarketMoves, Began
<1>2. HaltsOf(n) = {halt(s) : s \in {i \in 0 .. today : market[n][i] = "halted"
                                                        /\ market[n][i - 1] # "halted"}}
  BY DEF HaltsOf, DaysAs
<1>3. ASSUME NEW s \in 0 .. today, s <= d
      PROVE  Covers(halt(s), d) <=> \A i \in s .. d : market[n][i] = "halted"
  <2>1. resumed(s) \in SUBSET Nat
    BY <1>1
  <2>2. CASE resumed(s) = {}
    BY <1>1, <1>3, <2>2 DEF Covers
  <2>3. CASE resumed(s) # {}
    <3> DEFINE m == Min(resumed(s))
    <3>1. m \in resumed(s) /\ \A y \in resumed(s) : m <= y
      BY <2>1, <2>3, MinIsLeast
    <3>2. halt(s).start = s /\ halt(s).end = m
      BY <2>3
    <3> HIDE DEF m, halt
    <3>3. m \in s .. today /\ market[n][m] # "halted" /\ m # None
      BY <1>1, <3>1
    <3>4. Covers(halt(s), d) <=> d < m
      BY <1>1, <1>3, <3>2, <3>3 DEF Covers
    <3>5. (\A i \in s .. d : market[n][i] = "halted") => d < m
      BY <1>1, <3>3
    <3>6. d < m => \A i \in s .. d : market[n][i] = "halted"
      <4>1. ASSUME d < m, NEW i \in s .. d
            PROVE  market[n][i] = "halted"
        <5>1. i \in s .. today /\ ~(m <= i)
          BY <1>1, <3>3, <4>1
        <5>. QED
          BY <3>1, <5>1
      <4>. QED
        BY <4>1
    <3>. QED
      BY <3>4, <3>5, <3>6
  <2>. QED
    BY <2>2, <2>3
<1>4. ASSUME NEW h \in HaltsOf(n), Covers(h, d)
      PROVE  market[n][d] = "halted"
  <2>1. PICK s \in 0 .. today : h = halt(s)
    BY <1>2
  <2>2. s <= d
    BY <1>4, <2>1 DEF Covers
  <2>3. d \in s .. d
    BY <2>2
  <2>. QED
    BY <1>3, <1>4, <2>1, <2>2, <2>3
<1>5. ASSUME market[n][d] = "halted"
      PROVE  \E h \in HaltsOf(n) : Covers(h, d)
  <2> DEFINE back == {i \in 0 .. d : \A j \in i .. d : market[n][j] = "halted"}
  <2>1. back \subseteq Nat /\ d \in back
    BY <1>1, <1>5
  <2>2. PICK s \in back : \A j \in back : s <= j
    BY <2>1, LeastNatural
  <2>3. s \in 0 .. d /\ s \in s .. d /\ s <= d /\ \A j \in s .. d : market[n][j] = "halted"
    BY <2>2
  <2>4. s # 0 /\ market[n][s] = "halted"
    BY <1>1, <2>3
  <2>5. s - 1 \in 0 .. d /\ s - 1 \notin back
    BY <2>2, <2>3, <2>4
  <2>6. market[n][s - 1] # "halted"
    <3>1. \A j \in (s - 1) .. d : j = s - 1 \/ j \in s .. d
      BY <2>3
    <3>. QED
      BY <2>3, <2>5, <3>1
  <2>7. halt(s) \in HaltsOf(n)
    <3>1. s \in {i \in 0 .. today : market[n][i] = "halted" /\ market[n][i - 1] # "halted"}
      BY <1>1, <2>3, <2>4, <2>6
    <3> HIDE DEF halt
    <3>. QED
      BY <1>2, <3>1
  <2>8. s \in 0 .. today
    BY <1>1, <2>3
  <2>. QED
    BY <1>3, <2>3, <2>7, <2>8
<1>. QED
  BY <1>4, <1>5

LEMMA HistoryIsDated ==
  ASSUME MarketMoves, Began, ReadHistory
  PROVE  run'.pc = "list" /\ run'.pit = TRUE /\ DatedList(market, run'.rows, today)
<1> DEFINE ins(n) == DaysAs(n, {"in"})
           gone(n) == DaysAs(n, {"gone"})
           known == {n \in Names : ins(n) # {}}
           x(n) == [listed_on |-> Min(ins(n)),
                    delisted_on |-> IF gone(n) = {} THEN None ELSE Min(gone(n)),
                    halts |-> HaltsOf(n), sector |-> TRUE]
<1>1. run' = [pc |-> "list", pit |-> TRUE, mute |-> {}, rows |-> [n \in known |-> x(n)]]
  BY DEF ReadHistory
<1>2. today \in Nat /\ None \notin Int
  BY UniverseAssumption DEF MarketMoves
<1>3. ASSUME NEW n \in known
      PROVE  Tells(market, x(n), n, today)
  <2>1. n \in Names /\ ins(n) # {} /\ ins(n) \in SUBSET Nat /\ gone(n) \in SUBSET Nat
    BY <1>2, <1>3 DEF DaysAs
  <2>2. /\ \A d : d \in ins(n) <=> d \in 0 .. today /\ market[n][d] = "in"
        /\ \A d : d \in gone(n) <=> d \in 0 .. today /\ market[n][d] = "gone"
    BY DEF DaysAs
  <2> DEFINE first == Min(ins(n))
             end == x(n).delisted_on
  <2>3. first \in ins(n) /\ \A y \in ins(n) : first <= y
    BY <2>1, MinIsLeast
  <2>4. gone(n) # {} => end \in gone(n) /\ \A y \in gone(n) : end <= y
    BY <2>1, MinIsLeast
  <2>5. gone(n) = {} => end = None
    OBVIOUS
  <2>6. x(n).listed_on = first /\ x(n).halts = HaltsOf(n)
    OBVIOUS
  <2> HIDE DEF first, end, x, ins, gone
  <2>7. first \in 0 .. today /\ market[n][first] = "in"
    BY <2>2, <2>3
  <2>8. ASSUME NEW d \in 0 .. today
        PROVE  d < first <=> market[n][d] = "pre"
    <3>1. CASE d < first
      <4>1. ASSUME NEW e \in 0 .. d
            PROVE  market[n][e] # "in"
        <5>1. e \in 0 .. today /\ ~(first <= e)
          BY <1>2, <2>7, <3>1
        <5>. QED
          BY <2>2, <2>3, <5>1
      <4>. QED
        BY <2>1, <3>1, <4>1, InBeforeAllElse
    <3>2. CASE ~(d < first)
      <4>1. first \in 0 .. d
        BY <1>2, <2>7, <3>2
      <4>. QED
        BY <2>1, <2>7, <3>2, <4>1, OnceInNeverBefore
    <3>. QED
      BY <3>1, <3>2
  <2>9. end \in {None} \cup (0 .. today)
    BY <2>2, <2>4, <2>5
  <2>10. ASSUME NEW d \in 0 .. today
         PROVE  (end # None /\ end <= d) <=> market[n][d] = "gone"
    <3>1. CASE market[n][d] = "gone"
      <4>1. d \in gone(n)
        BY <2>2, <3>1
      <4>2. end \in 0 .. today /\ end <= d
        BY <2>2, <2>4, <4>1
      <4>. QED
        BY <1>2, <3>1, <4>2
    <3>2. CASE market[n][d] # "gone"
      <4>1. SUFFICES ASSUME end # None, end <= d
                     PROVE  FALSE
        BY <3>2
      <4>2. end \in 0 .. today /\ market[n][end] = "gone"
        BY <2>2, <2>4, <2>5, <4>1
      <4>3. d \in end .. today
        BY <1>2, <4>1, <4>2
      <4>. QED
        BY <2>1, <3>2, <4>2, <4>3, OnceGoneGone
    <3>. QED
      BY <3>1, <3>2
  <2>. QED
    BY <2>1, <2>6, <2>7, <2>8, <2>9, <2>10, HaltsAreTheHaltedDays DEF Tells, end
<1>4. ASSUME NEW n \in Names \ known, NEW d \in 0 .. today
      PROVE  market[n][d] = "pre"
  <2>1. \A e \in 0 .. today : market[n][e] # "in"
    BY <1>4 DEF DaysAs
  <2>2. 0 .. d \subseteq 0 .. today
    BY <1>2
  <2>. QED
    BY <2>1, <2>2, InBeforeAllElse
<1> HIDE DEF x
<1>. QED
  BY <1>1, <1>3, <1>4 DEF DatedList

(* Whoever reads, what they are about to write, and what they have written,*)
(* says who was in the market on the days up to the one it was read on.    *)
WhoIsReading ==
    run.pc \in {"list", "sidecar"} =>
      /\ source = "history" => run.pit = TRUE /\ DatedList(market, run.rows, today)
      /\ source = "kind" => run.pit = FALSE /\ Roster(market, run.rows, today)
      /\ source = "krx" => \A n \in DOMAIN run.rows : run.rows[n].sector = FALSE

ListTells ==
    /\ (source = "history" /\ list.whole) =>
         \E last \in 0 .. today :
           /\ DatedList(market, list.rows, last)
           /\ sidecar # Refused => sidecar.as_of <= last
           /\ Paired => sidecar.as_of = last
    /\ (source = "kind" /\ Paired) => Roster(market, list.rows, sidecar.as_of)
    /\ source = "krx" => \A n \in DOMAIN list.rows : list.rows[n].sector = FALSE
    /\ run.pc = "sidecar" => list.whole = TRUE

SidecarTells ==
    sidecar # Refused =>
      /\ source = "history" => sidecar.pit = TRUE
      /\ source = "kind" => sidecar.pit = FALSE

ReadersTell == source \in {"krx", "kind", "history"} /\ WhoIsReading /\ ListTells /\ SidecarTells

LEMMA ReadersStart == Init => ReadersTell
BY DEF Init, ReadersTell, WhoIsReading, ListTells, SidecarTells, Paired, Idle

LEMMA ReaderReads ==
  ASSUME MarketMoves, Began, Read
  PROVE  /\ run'.pc = "list"
         /\ source = "history" => run'.pit = TRUE /\ DatedList(market, run'.rows, today)
         /\ source = "kind" => run'.pit = FALSE /\ Roster(market, run'.rows, today)
         /\ source = "krx" => \A n \in DOMAIN run'.rows : run'.rows[n].sector = FALSE
<1>1. CASE \E mute : ReadKrx(mute)
  <2>1. PICK mute : ReadKrx(mute)
    BY <1>1
  <2>2. run'.rows = RowsOf(market, open, today, mute) /\ run'.pc = "list" /\ source = "krx"
    BY <2>1, ReadsBars
  <2>. QED
    BY <2>2 DEF RowsOf, DatesOf
<1>2. CASE \E undated : ReadKind(undated)
  BY <1>2 DEF ReadKind, Roster
<1>3. CASE ReadHistory
  BY <1>3, HistoryIsDated DEF ReadHistory
<1>. QED
  BY <1>1, <1>2, <1>3 DEF Read

LEMMA ReadersGoOn ==
  MarketMoves /\ Began /\ FilesFollow /\ ReadersTell /\ [Next]_vars => ReadersTell'
<1> SUFFICES ASSUME MarketMoves, Began, FilesFollow, ReadersTell, [Next]_vars
             PROVE  ReadersTell'
  OBVIOUS
<1>0. today \in Nat /\ today \in 0 .. today
  BY DEF MarketMoves
<1>1. CASE NewDay
  <2>1. /\ today' = today + 1 /\ run' = run /\ run.pc = "idle"
        /\ UNCHANGED <<source, list, sidecar>>
    BY <1>1 DEF NewDay, Idle
  <2>2. ASSUME source = "history", list.whole
        PROVE  \E last \in 0 .. today' :
                 /\ DatedList(market', list.rows, last)
                 /\ sidecar # Refused => sidecar.as_of <= last
                 /\ Paired => sidecar.as_of = last
    <3>1. PICK last \in 0 .. today :
            /\ DatedList(market, list.rows, last)
            /\ sidecar # Refused => sidecar.as_of <= last
            /\ Paired => sidecar.as_of = last
      BY <2>2 DEF ReadersTell, ListTells
    <3>2. last \in 0 .. today'
      BY <1>0, <2>1
    <3>. QED
      BY <1>1, <3>1, <3>2, TellingsStay
  <2>3. ASSUME source = "kind", Paired
        PROVE  Roster(market', list.rows, sidecar.as_of)
    <3>1. sidecar.as_of \in 0 .. today
      BY <1>0, <2>3 DEF FilesFollow, SidecarFollows, Paired
    <3>. QED
      BY <1>1, <2>3, <3>1, TellingsStay DEF ReadersTell, ListTells
  <2>. QED
    BY <2>1, <2>2, <2>3 DEF ReadersTell, WhoIsReading, ListTells, SidecarTells, Paired
<1>2. CASE Read
  <2>1. UNCHANGED <<source, today, open, market, list, sidecar>>
    BY <1>2 DEF Read
  <2>. QED
    BY <1>2, <2>1, ReaderReads DEF ReadersTell, WhoIsReading, ListTells, SidecarTells, Paired
<1>3. CASE WriteList
  <2>1. /\ run.pc = "list" /\ list'.rows = run.rows /\ list'.by = list.by + 1
        /\ list'.whole = TRUE
        /\ run'.pc = "sidecar" /\ run'.rows = run.rows /\ run'.pit = run.pit
        /\ UNCHANGED <<source, today, open, market, sidecar>>
    BY <1>3 DEF WriteList, FilesFollow, RunFollows, Idle
  <2>2. ~Paired' /\ (sidecar # Refused => sidecar.as_of <= today)
    BY <2>1 DEF FilesFollow, SidecarFollows, Paired
  <2>3. source' = "history" => \E last \in 0 .. today :
                 /\ DatedList(market, list'.rows, last)
                 /\ sidecar # Refused => sidecar.as_of <= last
    BY <1>0, <2>1, <2>2 DEF ReadersTell, WhoIsReading
  <2>. QED
    BY <2>1, <2>2, <2>3 DEF ReadersTell, WhoIsReading, ListTells, SidecarTells
<1>4. CASE WriteSidecar
  <2>1. /\ run.pc = "sidecar" /\ run'.pc = "idle" /\ list.rows = run.rows
        /\ sidecar'.as_of = today /\ sidecar'.pit = run.pit
        /\ UNCHANGED <<source, today, open, market, list>>
    BY <1>4 DEF WriteSidecar, FilesFollow, RunFollows, Idle
  <2>2. source' = "history" => \E last \in 0 .. today :
                 DatedList(market, list.rows, last) /\ sidecar'.as_of = last
    BY <1>0, <2>1 DEF ReadersTell, WhoIsReading
  <2>3. source' = "kind" => Roster(market, list.rows, sidecar'.as_of)
    BY <2>1 DEF ReadersTell, WhoIsReading
  <2>4. ListTells'
    <3>1. \A last \in 0 .. today : sidecar'.as_of = last => sidecar'.as_of <= last
      BY <1>0
    <3>. QED
      BY <2>1, <2>2, <2>3, <3>1 DEF ReadersTell, ListTells
  <2>. QED
    BY <2>1, <2>4 DEF ReadersTell, WhoIsReading, SidecarTells
<1>5. CASE Die
  <2>1. run'.pc = "idle" /\ UNCHANGED <<source, today, open, market>>
    BY <1>5 DEF Die, Idle
  <2>2. CASE list' = [rows |-> <<>>, whole |-> FALSE, by |-> list.by + 1] /\ sidecar' = sidecar
    <3>1. list'.rows = <<>> /\ list'.whole = FALSE
      BY <2>2
    <3>. QED
      BY <2>1, <2>2, <3>1 DEF ReadersTell, WhoIsReading, ListTells, SidecarTells, Paired
  <2>3. CASE sidecar' \in {sidecar, Refused} /\ list' = list
    BY <2>1, <2>3 DEF ReadersTell, WhoIsReading, ListTells, SidecarTells, Paired
  <2>4. \/ list' = [rows |-> <<>>, whole |-> FALSE, by |-> list.by + 1] /\ sidecar' = sidecar
        \/ sidecar' \in {sidecar, Refused} /\ list' = list
    BY <1>5 DEF Die
  <2>. QED
    BY <2>2, <2>3, <2>4
<1>6. CASE UNCHANGED vars
  BY <1>6 DEF vars, ReadersTell, WhoIsReading, ListTells, SidecarTells, Paired
<1>. QED
  BY <1>1, <1>2, <1>3, <1>4, <1>5, <1>6 DEF Next

-----------------------------------------------------------------------------
(* Questions                                                               *)

LEMMA DatedStatus ==
  ASSUME NEW x, NEW n, NEW last \in Nat, NEW d \in Nat, Tells(market, x, n, last),
         \A e \in 0 .. last : market[n][e] \in States
  PROVE  /\ d <= last =>
              /\ StatusOn(x, d) \in {"listed", "halted"} <=> market[n][d] \in {"in", "halted"}
              /\ StatusOn(x, d) = "listed" <=> market[n][d] = "in"
         /\ last <= d =>
              (StatusOn(x, d) \in {"listed", "halted"} <=> market[n][last] \in {"in", "halted"})
<1>1. /\ None \notin Int /\ Refused \notin Int /\ x.listed_on \in 0 .. last /\ x.listed_on # None
      /\ x.delisted_on \in {None} \cup (0 .. last) /\ Dated(x)
  BY UniverseAssumption DEF Tells, Dated
<1>2. ASSUME d <= last
      PROVE  /\ StatusOn(x, d) \in {"listed", "halted"} <=> market[n][d] \in {"in", "halted"}
             /\ StatusOn(x, d) = "listed" <=> market[n][d] = "in"
  <2>1. d \in 0 .. last
    BY <1>2
  <2>2. /\ d < x.listed_on <=> market[n][d] = "pre"
        /\ (x.delisted_on # None /\ x.delisted_on <= d) <=> market[n][d] = "gone"
        /\ (\E h \in x.halts : Covers(h, d)) <=> market[n][d] = "halted"
        /\ market[n][d] \in States
    BY <2>1 DEF Tells
  <2>. QED
    BY <1>1, <2>2 DEF StatusOn, States
<1>3. ASSUME last <= d
      PROVE  StatusOn(x, d) \in {"listed", "halted"} <=> market[n][last] \in {"in", "halted"}
  <2>1. last \in 0 .. last
    OBVIOUS
  <2>2. /\ last < x.listed_on <=> market[n][last] = "pre"
        /\ (x.delisted_on # None /\ x.delisted_on <= last) <=> market[n][last] = "gone"
        /\ market[n][last] \in States
    BY <2>1 DEF Tells
  <2>3. ~(d < x.listed_on) /\ ~(last < x.listed_on)
    BY <1>1, <1>3
  <2>4. x.delisted_on # None => x.delisted_on <= d /\ x.delisted_on <= last
    BY <1>1, <1>3
  <2>5. StatusOn(x, d) \in {"listed", "halted"} <=> x.delisted_on = None
    BY <1>1, <2>3, <2>4 DEF StatusOn
  <2>. QED
    BY <2>2, <2>3, <2>4, <2>5 DEF States
<1>. QED
  BY <1>2, <1>3

(* A dated list answers for every day up to the last it knows, and for     *)
(* later days as for that one.                                             *)
LEMMA DatedAnswers ==
  ASSUME MarketMoves, NEW u, NEW last \in 0 .. today, NEW d \in Nat,
         DatedList(market, u.listings, last), u.point_in_time = TRUE
  PROVE  /\ d <= last => /\ Members(u, d, FALSE) = InMarket(d)
                         /\ Tradable(u, d, FALSE) = Trading(d)
         /\ last <= d => Members(u, d, FALSE) = InMarket(last)
<1>1. /\ today \in Nat /\ last \in Nat /\ None \notin Int /\ Refused \notin Int
      /\ \A n \in Names : \A e \in 0 .. last : market[n][e] \in States
  BY UniverseAssumption DEF MarketMoves
<1>2. EffectiveDate(u, d, FALSE) = d /\ d # Refused /\ d # None
  BY <1>1 DEF EffectiveDate
<1>3. /\ Members(u, d, FALSE)
           = {s \in DOMAIN u.listings : StatusOn(u.listings[s], d) \in {"listed", "halted"}}
      /\ Tradable(u, d, FALSE)
           = {s \in DOMAIN u.listings : StatusOn(u.listings[s], d) \in {"listed"}}
  BY <1>2 DEF Members, Tradable, WithStatus, SymbolsOf
<1>4. DOMAIN u.listings \subseteq Names
      /\ \A n \in Names \ DOMAIN u.listings : \A e \in 0 .. last : market[n][e] = "pre"
  BY DEF DatedList
<1>5. ASSUME NEW n \in DOMAIN u.listings
      PROVE  /\ d <= last =>
                  /\ StatusOn(u.listings[n], d) \in {"listed", "halted"} <=> market[n][d] \in {"in", "halted"}
                  /\ StatusOn(u.listings[n], d) = "listed" <=> market[n][d] = "in"
             /\ last <= d =>
                  (StatusOn(u.listings[n], d) \in {"listed", "halted"} <=> market[n][last] \in {"in", "halted"})
  <2>1. n \in Names /\ Tells(market, u.listings[n], n, last)
    BY <1>5 DEF DatedList
  <2>. QED
    BY <1>1, <2>1, DatedStatus
<1>6. ASSUME d <= last
      PROVE  Members(u, d, FALSE) = InMarket(d) /\ Tradable(u, d, FALSE) = Trading(d)
  <2>1. d \in 0 .. last
    BY <1>1, <1>6
  <2>2. \A n \in Names \ DOMAIN u.listings : market[n][d] = "pre"
    BY <1>4, <2>1
  <2>. QED
    BY <1>3, <1>4, <1>5, <1>6, <2>2 DEF InMarket, Trading
<1>7. ASSUME last <= d
      PROVE  Members(u, d, FALSE) = InMarket(last)
  <2>1. last \in 0 .. last
    BY <1>1
  <2>2. \A n \in Names \ DOMAIN u.listings : market[n][last] = "pre"
    BY <1>4, <2>1
  <2>. QED
    BY <1>3, <1>4, <1>5, <1>7, <2>2 DEF InMarket
<1>. QED
  BY <1>6, <1>7

LEMMA LoadedIsTheFiles ==
  ASSUME Loaded
  PROVE  /\ sidecar # Refused
         /\ LoadUniverse = [listings |-> list.rows, as_of |-> sidecar.as_of,
                            point_in_time |-> sidecar.pit]
         /\ LoadUniverse.listings = list.rows /\ LoadUniverse.as_of = sidecar.as_of
         /\ LoadUniverse.point_in_time = sidecar.pit
BY DEF Loaded, LoadUniverse

Whole == MarketMoves /\ Began /\ FilesFollow /\ ReadersTell

LEMMA WholeHolds == Spec => []Whole
<1>1. Init => Whole
  BY MarketStarts, BeganStarts, FilesStart, ReadersStart DEF Whole
<1>2. Whole /\ [Next]_vars => Whole'
  BY MarketGoesOn, BeganGoesOn, FilesGoOn, ReadersGoOn DEF Whole
<1>. QED
  BY <1>1, <1>2, PTL DEF Spec

(* For any names, calendar and runs: of a past day a dated list says who   *)
(* was in the market and who was trading, a roster refuses, and of the     *)
(* days since it was read each says what was so then (universe.py,         *)
(* members and tradable).                                                  *)
THEOREM PastDaysAreAnswered == Spec => []AnsweredRightOrRefused
<1>1. Whole => AnsweredRightOrRefused
  <2> SUFFICES ASSUME Whole, source # "krx", Loaded, list.whole, source = "kind" => Paired,
                      NEW d \in 0 .. (IF Paired THEN today ELSE LoadUniverse.as_of)
               PROVE  LET u == LoadUniverse
                      IN /\ Members(u, d, FALSE) \in {Refused, InMarket(Min({d, u.as_of}))}
                         /\ (source = "history" /\ d <= u.as_of) => Tradable(u, d, FALSE) = Trading(d)
    BY DEF AnsweredRightOrRefused
  <2> DEFINE u == LoadUniverse
  <2>1. /\ sidecar # Refused /\ u.listings = list.rows /\ u.as_of = sidecar.as_of
        /\ u.point_in_time = sidecar.pit
    BY LoadedIsTheFiles
  <2>2. today \in Nat /\ u.as_of \in Nat /\ u.as_of <= today /\ d \in 0 .. today
        /\ None \notin Int /\ Refused \notin Int /\ None # Refused
    BY <2>1, UniverseAssumption DEF Whole, MarketMoves, FilesFollow, SidecarFollows
  <2>3. Min({d, u.as_of}) = IF d <= u.as_of THEN d ELSE u.as_of
    <3>1. {d, u.as_of} \in SUBSET Nat
      BY <2>2
    <3>2. Min({d, u.as_of}) \in {d, u.as_of} /\ \A y \in {d, u.as_of} : Min({d, u.as_of}) <= y
      BY <3>1, MinIsLeast
    <3>. QED
      BY <2>2, <3>2
  <2> HIDE DEF u
  <2>4. CASE source = "kind"
    <3>1. u.point_in_time = FALSE /\ DOMAIN u.listings = InMarket(u.as_of)
      BY <2>1, <2>4 DEF Whole, ReadersTell, ListTells, SidecarTells, Roster, InMarket
    <3>2. CASE d < u.as_of
      <4>1. EffectiveDate(u, d, FALSE) = Refused
        BY <2>2, <3>1, <3>2 DEF EffectiveDate
      <4>. QED
        BY <2>4, <4>1 DEF Members, WithStatus, u
    <3>3. CASE ~(d < u.as_of)
      <4>1. EffectiveDate(u, d, FALSE) = None /\ Min({d, u.as_of}) = u.as_of
        BY <2>2, <2>3, <3>1, <3>3 DEF EffectiveDate
      <4>2. Members(u, d, FALSE) = InMarket(u.as_of)
        BY <2>2, <3>1, <4>1 DEF Members, WithStatus, SymbolsOf
      <4>. QED
        BY <2>4, <4>1, <4>2 DEF u
    <3>. QED
      BY <3>2, <3>3
  <2>5. CASE source = "history"
    <3>1. PICK last \in 0 .. today :
            /\ DatedList(market, u.listings, last) /\ u.as_of <= last
            /\ Paired => u.as_of = last
      BY <2>1, <2>5 DEF Whole, ReadersTell, ListTells
    <3>2. u.point_in_time = TRUE
      BY <2>1, <2>5 DEF Whole, ReadersTell, SidecarTells
    <3>3. /\ d <= last => /\ Members(u, d, FALSE) = InMarket(d)
                          /\ Tradable(u, d, FALSE) = Trading(d)
          /\ last <= d => Members(u, d, FALSE) = InMarket(last)
      <4>1. MarketMoves /\ d \in Nat
        BY <2>2 DEF Whole
      <4>. QED
        BY <3>1, <3>2, <4>1, DatedAnswers
    <3>4. CASE d <= u.as_of
      <4>1. Min({d, u.as_of}) = d /\ d <= last
        BY <2>2, <2>3, <3>1, <3>4
      <4>2. Members(u, d, FALSE) = InMarket(Min({d, u.as_of}))
        BY <3>3, <4>1
      <4>. QED
        BY <3>3, <4>1, <4>2, Zenon DEF u
    <3>5. CASE ~(d <= u.as_of)
      <4>1. Paired
        BY <2>2, <3>5 DEF u
      <4>. QED
        <5>1. Min({d, u.as_of}) = last /\ last <= d
          BY <2>2, <2>3, <3>1, <3>5, <4>1
        <5>2. Members(u, d, FALSE) = InMarket(Min({d, u.as_of}))
          BY <3>3, <5>1
        <5>. QED
          BY <3>5, <5>2, Zenon DEF u
    <3>. QED
      BY <3>4, <3>5
  <2>. QED
    BY <2>4, <2>5 DEF Whole, ReadersTell
<1>. QED
  BY <1>1, WholeHolds, PTL

-----------------------------------------------------------------------------
(* The survivorship gap                                                    *)

LEMMA TimesGrows ==
  ASSUME NEW a \in Nat, NEW b \in Nat, NEW c \in Nat, a <= b
  PROVE  a * c <= b * c
<1>1. b = a + (b - a) /\ b - a \in Nat
  OBVIOUS
<1>2. (b - a) * c >= 0
  BY <1>1
<1>3. (a + (b - a)) * c = a * c + (b - a) * c
  BY <1>1
<1>. QED
  BY <1>1, <1>2, <1>3

(* More leavers and fewer survivors make a share that is no smaller.       *)
LEMMA ShareGrows ==
  ASSUME NEW gone \in Nat, NEW delisted \in Nat, NEW survivors \in Nat, NEW there \in Nat,
         gone <= delisted, survivors <= there
  PROVE  gone * (survivors + delisted) <= delisted * (gone + there)
<1>1. gone * survivors <= delisted * survivors
  BY TimesGrows
<1>2. survivors * delisted <= there * delisted
  BY TimesGrows
<1>3. gone * (survivors + delisted) = gone * survivors + gone * delisted
  OBVIOUS
<1>4. delisted * (gone + there) = delisted * gone + delisted * there
  OBVIOUS
<1>5. /\ gone * delisted = delisted * gone
      /\ delisted * survivors = survivors * delisted /\ there * delisted = delisted * there
  OBVIOUS
<1>6. {gone * survivors, gone * delisted, delisted * survivors, delisted * there} \subseteq Nat
  OBVIOUS
<1>. QED
  BY <1>1, <1>2, <1>3, <1>4, <1>5, <1>6

(* Whoever was in the market of a window and is not there on its last day  *)
(* has a delisting date inside it.                                         *)
LEMMA LeaversAreDated ==
  ASSUME MarketMoves, NEW u, NEW known \in 0 .. today, DatedList(market, u.listings, known),
         NEW last \in 0 .. known, NEW first \in 0 .. last, NEW n \in Names,
         NEW d \in first .. last, n \in InMarket(d), n \notin InMarket(last)
  PROVE  n \in DelistedBetween(u, first, last)
<1>1. /\ today \in Nat /\ known \in Nat /\ d \in 0 .. known /\ last \in 0 .. today /\ d \in 0 .. last
      /\ market[n][last] \in States /\ None \notin Int
  BY UniverseAssumption DEF MarketMoves
<1>2. market[n][d] \in {"in", "halted"} /\ market[n][last] \notin {"in", "halted"}
  BY DEF InMarket
<1>3. n \in DOMAIN u.listings /\ Tells(market, u.listings[n], n, known)
  BY <1>1, <1>2 DEF DatedList
<1>4. market[n][last] # "pre"
  BY <1>1, <1>2, OnceInNeverBefore
<1>5. market[n][last] = "gone"
  BY <1>1, <1>2, <1>4 DEF States
<1> DEFINE end == u.listings[n].delisted_on
<1>6. end # None /\ end <= last /\ end \in 0 .. known /\ ~(end <= d)
  BY <1>1, <1>2, <1>3, <1>5 DEF Tells
<1>7. end \in first .. last
  BY <1>1, <1>6
<1>. QED
  BY <1>3, <1>7 DEF DelistedBetween, SymbolsOf

(* For any names, calendar and window: the share of names that a dated     *)
(* list says left is no smaller than the share that did (universe.py,      *)
(* survivorship_gap).                                                      *)
THEOREM GapsAreCounted == Spec => []GapIsNeverUnderstated
<1>1. Whole => GapIsNeverUnderstated
  <2> SUFFICES ASSUME Whole, source = "history", Loaded, list.whole,
                      NEW last \in 0 .. sidecar.as_of, NEW first \in 0 .. last
               PROVE  LET left == {n \in Names : /\ \E d \in first .. last : n \in InMarket(d)
                                                 /\ n \notin InMarket(last)}
                          gap == SurvivorshipGap(LoadUniverse, first, last)
                      IN  Cardinality(left) * (gap.survivors + gap.delisted)
                            <= gap.delisted * (Cardinality(left) + Cardinality(InMarket(last)))
    BY DEF GapIsNeverUnderstated
  <2> DEFINE u == LoadUniverse
             left == {n \in Names : /\ \E d \in first .. last : n \in InMarket(d)
                                    /\ n \notin InMarket(last)}
             gap == SurvivorshipGap(u, first, last)
             delisted == DelistedBetween(u, first, last)
             survivors == Tradable(u, last, FALSE)
  <2>1. /\ sidecar # Refused /\ u.listings = list.rows /\ u.as_of = sidecar.as_of
        /\ u.point_in_time = sidecar.pit
    BY LoadedIsTheFiles
  <2>2. u.point_in_time = TRUE
    BY <2>1 DEF Whole, ReadersTell, SidecarTells
  <2>3. PICK known \in 0 .. today : DatedList(market, u.listings, known) /\ sidecar.as_of <= known
    BY <2>1 DEF Whole, ReadersTell, ListTells
  <2>4. MarketMoves /\ today \in Nat /\ sidecar.as_of \in Nat
        /\ last \in 0 .. known /\ last \in Nat
    BY <2>1, <2>3 DEF Whole, MarketMoves, FilesFollow, SidecarFollows
  <2> HIDE DEF u
  <2>5. survivors = Trading(last)
    <3>1. last <= known
      BY <2>3, <2>4
    <3>. QED
      BY <2>2, <2>3, <2>4, <3>1, DatedAnswers
  <2>6. left \subseteq delisted
    BY <2>3, <2>4, LeaversAreDated
  <2>7. gap.survivors = Cardinality(survivors) /\ gap.delisted = Cardinality(delisted)
    BY <2>2 DEF SurvivorshipGap
  <2>8. /\ left \in SUBSET Names /\ delisted \in SUBSET Names
        /\ survivors \in SUBSET InMarket(last) /\ InMarket(last) \in SUBSET Names
    BY <2>3, <2>5 DEF DelistedBetween, DatedList, SymbolsOf, Trading, InMarket
  <2> HIDE DEF left, delisted, survivors, gap
  <2>9. IsFiniteSet(delisted) /\ IsFiniteSet(InMarket(last)) /\ IsFiniteSet(left)
        /\ IsFiniteSet(survivors)
    <3>1. IsFiniteSet(Names) /\ survivors \in SUBSET Names
      BY <2>8, MembershipAssumption
    <3>. QED
      BY <2>8, <3>1, FS_Subset
  <2>10. Cardinality(left) <= Cardinality(delisted)
    BY <2>6, <2>9, FS_Subset
  <2>11. Cardinality(survivors) <= Cardinality(InMarket(last))
    BY <2>8, <2>9, FS_Subset
  <2>12. /\ Cardinality(left) \in Nat /\ Cardinality(delisted) \in Nat
         /\ Cardinality(survivors) \in Nat /\ Cardinality(InMarket(last)) \in Nat
    BY <2>9, FS_CardinalityType
  <2>13. Cardinality(left) * (Cardinality(survivors) + Cardinality(delisted))
           <= Cardinality(delisted) * (Cardinality(left) + Cardinality(InMarket(last)))
    BY <2>10, <2>11, <2>12, ShareGrows
  <2>. QED
    BY <2>7, <2>13 DEF left, gap, u
<1>. QED
  BY <1>1, WholeHolds, PTL

-----------------------------------------------------------------------------
(* Days in order                                                           *)

UpTo(S, d) == {e \in S : e <= d}

LEMMA RankGrows ==
  ASSUME NEW S \in SUBSET Nat, IsFiniteSet(S), NEW d \in S
  PROVE  /\ Cardinality(UpTo(S, d)) \in 1 .. Cardinality(S)
         /\ \A e \in S : d < e => Cardinality(UpTo(S, d)) < Cardinality(UpTo(S, e))
<1>1. \A e \in S : UpTo(S, e) \in SUBSET S /\ e \in UpTo(S, e) /\ IsFiniteSet(UpTo(S, e))
  <2>1. \A e \in S : UpTo(S, e) \in SUBSET S /\ e \in UpTo(S, e)
    BY DEF UpTo
  <2>. QED
    BY <2>1, FS_Subset
<1>2. \A e \in S : Cardinality(UpTo(S, e)) \in Nat
  BY <1>1, FS_CardinalityType
<1>3. Cardinality(S) \in Nat /\ Cardinality(UpTo(S, d)) <= Cardinality(S)
  BY <1>1, FS_CardinalityType, FS_Subset
<1>4. Cardinality(UpTo(S, d)) # 0
  BY <1>1, FS_EmptySet
<1>5. ASSUME NEW e \in S, d < e
      PROVE  Cardinality(UpTo(S, d)) < Cardinality(UpTo(S, e))
  <2>1. UpTo(S, d) \in SUBSET UpTo(S, e) /\ UpTo(S, d) # UpTo(S, e)
    <3>1. e \in UpTo(S, e) /\ e \notin UpTo(S, d)
      BY <1>5 DEF UpTo
    <3>2. \A x \in UpTo(S, d) : x \in UpTo(S, e)
      BY <1>5 DEF UpTo
    <3>. QED
      BY <3>1, <3>2
  <2>2. /\ Cardinality(UpTo(S, d)) <= Cardinality(UpTo(S, e))
        /\ Cardinality(UpTo(S, d)) # Cardinality(UpTo(S, e))
    BY <1>1, <2>1, FS_Subset
  <2>. QED
    BY <1>2, <2>2
<1>. QED
  BY <1>2, <1>3, <1>4, <1>5

(* The days of a finite set in order: each of them once, the earlier first.*)
LEMMA OrderIsKept ==
  ASSUME NEW S \in SUBSET Nat, IsFiniteSet(S)
  PROVE  LET q == InOrder(S)
             n == Cardinality(S)
         IN  /\ n \in Nat /\ q \in [1 .. n -> S]
             /\ \A i, j \in 1 .. n : i < j => q[i] < q[j]
             /\ \A d \in S : Cardinality(UpTo(S, d)) \in 1 .. n /\ q[Cardinality(UpTo(S, d))] = d
<1> DEFINE n == Cardinality(S)
           rank(d) == Cardinality(UpTo(S, d))
           q == InOrder(S)
           f == [d \in S |-> rank(d)]
<1>1. n \in Nat
  BY FS_CardinalityType
<1>2. \A d \in S : rank(d) \in 1 .. n /\ \A e \in S : d < e => rank(d) < rank(e)
  BY RankGrows
<1> HIDE DEF rank, n
<1>3. \A d, e \in S : rank(d) = rank(e) => d = e
  <2>1. ASSUME NEW d \in S, NEW e \in S, rank(d) = rank(e)
        PROVE  d = e
    <3>1. d \in Nat /\ e \in Nat /\ rank(d) \in Nat /\ rank(e) \in Nat
      BY <1>1, <1>2
    <3>2. ~(d < e) /\ ~(e < d)
      BY <1>2, <2>1, <3>1
    <3>. QED
      BY <3>1, <3>2
  <2>. QED
    BY <2>1
<1>4. f \in Injection(S, 1 .. n)
  BY <1>2, <1>3 DEF Injection, IsInjective
<1>5. f \in Surjection(S, 1 .. n)
  <2>1. IsFiniteSet(1 .. n) /\ Cardinality(1 .. n) = n
    <3>1. /\ IsFiniteSet(1 .. n)
          /\ Cardinality(1 .. n) = IF 1 > n THEN 0 ELSE n - 1 + 1
      BY <1>1, FS_Interval
    <3>. QED
      BY <1>1, <3>1
  <2>. QED
    BY <1>4, <2>1, FS_Injection DEF n
<1>6. \A i \in 1 .. n : \E d \in S : rank(d) = i
  BY <1>5 DEF Surjection
<1>7. q = [i \in 1 .. n |-> CHOOSE d \in S : rank(d) = i]
  BY DEF InOrder, rank, n, UpTo
<1> HIDE DEF q
<1>8. \A i \in 1 .. n : q[i] \in S /\ rank(q[i]) = i
  BY <1>6, <1>7
<1>9. q \in [1 .. n -> S]
  BY <1>7, <1>8
<1>10. ASSUME NEW i \in 1 .. n, NEW j \in 1 .. n, i < j
       PROVE  q[i] < q[j]
  <2>1. q[i] \in S /\ q[j] \in S /\ rank(q[i]) = i /\ rank(q[j]) = j
    BY <1>8
  <2>2. q[i] \in Nat /\ q[j] \in Nat /\ i \in Nat /\ j \in Nat
    <3>1. \A x \in S : x \in Nat
      OBVIOUS
    <3>2. i \in Nat /\ j \in Nat
      BY <1>1
    <3>. QED
      BY <2>1, <3>1, <3>2
  <2>3. ~(q[j] < q[i]) /\ q[i] # q[j]
    BY <1>2, <1>10, <2>1, <2>2
  <2>. QED
    BY <2>2, <2>3
<1>11. \A d \in S : rank(d) \in 1 .. n /\ q[rank(d)] = d
  BY <1>2, <1>3, <1>8
<1>. QED
  BY <1>1, <1>9, <1>10, <1>11 DEF q, n, rank

LEMMA LastDays ==
  ASSUME NEW S \in SUBSET Nat, IsFiniteSet(S), NEW k \in Nat, NEW d
  PROVE  d \in ToSet(LastOf(InOrder(S), k)) <=>
           \E i \in 1 .. Cardinality(S) : i > Cardinality(S) - k /\ d = InOrder(S)[i]
<1> DEFINE q == InOrder(S)
           n == Cardinality(S)
           a == IF n > k THEN n - k + 1 ELSE 1
           t == SubSeq(q, a, n)
<1>1. n \in Nat /\ q \in [1 .. n -> S]
  BY OrderIsKept
<1> HIDE DEF q, n
<1>2. Len(q) = n /\ q \in Seq(S)
  BY <1>1
<1>3. LastOf(q, k) = t
  BY <1>2 DEF LastOf
<1>4. a \in 1 .. n + 1 /\ a \in Int /\ n \in Int
      /\ \A i \in 1 .. n : i > n - k <=> i >= a
  BY <1>1
<1> HIDE DEF a
<1>5. \A i \in a .. n : q[i] \in S
  BY <1>1, <1>4
<1>6. /\ t \in Seq(S) /\ Len(t) = IF a <= n THEN n - a + 1 ELSE 0
      /\ \A i \in 1 .. n - a + 1 : t[i] = q[a + i - 1]
  BY <1>4, <1>5, SubSeqProperties
<1> HIDE DEF t
<1>7. DOMAIN t = 1 .. n - a + 1
  <2>1. DOMAIN t = 1 .. Len(t)
    BY <1>6
  <2>2. Len(t) = n - a + 1
    BY <1>1, <1>4, <1>6
  <2>. QED
    BY <2>1, <2>2
<1>8. d \in ToSet(t) <=> \E i \in 1 .. n - a + 1 : d = q[a + i - 1]
  BY <1>6, <1>7 DEF ToSet
<1>9. (\E i \in 1 .. n - a + 1 : d = q[a + i - 1]) <=> \E i \in 1 .. n : i > n - k /\ d = q[i]
  <2>1. ASSUME NEW i \in 1 .. n - a + 1, d = q[a + i - 1]
        PROVE  \E j \in 1 .. n : j > n - k /\ d = q[j]
    <3>1. a + i - 1 \in 1 .. n /\ a + i - 1 >= a
      BY <1>1, <1>4
    <3>. QED
      BY <1>4, <2>1, <3>1
  <2>2. ASSUME NEW j \in 1 .. n, j > n - k, d = q[j]
        PROVE  \E i \in 1 .. n - a + 1 : d = q[a + i - 1]
    <3>1. j - a + 1 \in 1 .. n - a + 1 /\ a + (j - a + 1) - 1 = j
      BY <1>1, <1>4, <2>2
    <3>. QED
      BY <2>2, <3>1
  <2>. QED
    BY <2>1, <2>2
<1>. QED
  BY <1>3, <1>8, <1>9 DEF q, n

-----------------------------------------------------------------------------
(* Orders                                                                  *)

(* A name in the market on every one of the last sessions that traded on   *)
(* none of the later of them has repeated its close for all of them.       *)
InMarketDays(n) == {d \in open : market[n][d] \in {"in", "halted"}}

ClosesOf(n) ==
    LET days == InOrder(InMarketDays(n))
    IN  [i \in DOMAIN days |->
           Cardinality({d \in InMarketDays(n) : d <= days[i] /\ market[n][d] = "in"})]

Recent(k) == ToSet(LastOf(InOrder(open), k))

LEMMA OpenIsFinite ==
  ASSUME MarketMoves
  PROVE  open \in SUBSET Nat /\ IsFiniteSet(open) /\ Cardinality(open) \in Nat
<1>1. today \in Nat /\ open \subseteq 0 .. today
  BY DEF MarketMoves
<1>2. open \in SUBSET Nat /\ \A d \in open : d <= today
  BY <1>1
<1>3. IsFiniteSet(open)
  BY <1>1, <1>2, FS_BoundedSetOfNaturals
<1>. QED
  BY <1>2, <1>3, FS_CardinalityType

LEMMA SilentNamesAreStale ==
  ASSUME MarketMoves, NEW n \in Names, StaleRun <= Cardinality(open),
         \A d \in Recent(StaleRun) : market[n][d] \in {"in", "halted"},
         \A d \in Recent(StaleRun - 1) : market[n][d] # "in"
  PROVE  StaleRunOf(ClosesOf(n)) >= StaleRun
<1> DEFINE K == StaleRun
           N == Cardinality(open)
           q == InOrder(open)
           S == InMarketDays(n)
           M == Cardinality(S)
           days == InOrder(S)
           close == ClosesOf(n)
           c == q[N - K + 1]
           rank(d) == Cardinality(UpTo(S, d))
           same == {i \in DOMAIN close : \A j \in i .. Len(close) : close[j] = close[Len(close)]}
           late == (N - K + 1) .. N
           f == [i \in late |-> rank(q[i])]
<1>1. /\ open \in SUBSET Nat /\ IsFiniteSet(open) /\ N \in Nat /\ K \in Nat /\ K >= 2 /\ K <= N
      /\ S \in SUBSET open /\ S \in SUBSET Nat /\ IsFiniteSet(S)
  <2>1. open \in SUBSET Nat /\ IsFiniteSet(open) /\ N \in Nat
    BY OpenIsFinite
  <2>2. S \in SUBSET open
    BY DEF InMarketDays
  <2>. QED
    BY <2>1, <2>2, FS_Subset, UniverseAssumption
<1>2. /\ q \in [1 .. N -> open] /\ \A i, j \in 1 .. N : i < j => q[i] < q[j]
  BY <1>1, OrderIsKept
<1>3. /\ M \in Nat /\ days \in [1 .. M -> S] /\ \A i, j \in 1 .. M : i < j => days[i] < days[j]
      /\ \A d \in S : rank(d) \in 1 .. M /\ days[rank(d)] = d
  BY <1>1, OrderIsKept
<1>4. \A d : d \in Recent(K) <=> \E i \in 1 .. N : i > N - K /\ d = q[i]
  BY <1>1, LastDays DEF Recent
<1>5. \A d : d \in Recent(K - 1) <=> \E i \in 1 .. N : i > N - (K - 1) /\ d = q[i]
  <2>1. K - 1 \in Nat
    BY <1>1
  <2>. QED
    BY <1>1, <2>1, LastDays DEF Recent
<1>6. \A d \in open : \E i \in 1 .. N : d = q[i]
  BY <1>1, OrderIsKept
<1>7. close = [i \in DOMAIN days |-> Cardinality({d \in S : d <= days[i] /\ market[n][d] = "in"})]
  BY DEF ClosesOf
<1> HIDE DEF K, N, q, S, M, days, close, rank
<1>8. \A d \in S : d > c => market[n][d] # "in"
  <2>1. ASSUME NEW d \in S, d > c
        PROVE  market[n][d] # "in"
    <3>1. PICK i \in 1 .. N : d = q[i]
      BY <1>1, <1>6
    <3>2. N - K + 1 \in 1 .. N
      BY <1>1
    <3>3. i > N - K + 1
      <4>1. q[i] \in Nat /\ c \in Nat
        BY <1>1, <1>2, <3>2
      <4>2. ~(i < N - K + 1) /\ i # N - K + 1
        BY <1>2, <2>1, <3>1, <3>2, <4>1
      <4>. QED
        BY <1>1, <4>2
    <3>4. i > N - (K - 1)
      BY <1>1, <3>3
    <3>5. d \in Recent(K - 1)
      BY <1>5, <3>1, <3>4
    <3>. QED
      BY <3>5 DEF K
  <2>. QED
    BY <2>1
<1>9. /\ DOMAIN close = 1 .. M /\ Len(close) = M
  BY <1>3, <1>7
<1>10. \A i \in late : q[i] \in S /\ q[i] >= c
  <2>1. ASSUME NEW i \in late
        PROVE  q[i] \in S /\ q[i] >= c
    <3>1. i \in 1 .. N /\ i > N - K /\ N - K + 1 \in 1 .. N /\ (i = N - K + 1 \/ i > N - K + 1)
      BY <1>1
    <3>2. q[i] \in open /\ q[i] \in Recent(K) /\ q[i] \in Nat /\ c \in Nat
      BY <1>1, <1>2, <1>4, <3>1
    <3>3. market[n][q[i]] \in {"in", "halted"}
      BY <3>2 DEF K
    <3>4. q[i] >= c
      BY <1>2, <3>1, <3>2
    <3>. QED
      BY <3>2, <3>3, <3>4 DEF S, InMarketDays
  <2>. QED
    BY <2>1
<1>11. \A i \in 1 .. M : days[i] >= c =>
          {d \in S : d <= days[i] /\ market[n][d] = "in"} = {d \in S : d <= c /\ market[n][d] = "in"}
  <2>1. ASSUME NEW i \in 1 .. M, days[i] >= c, NEW d \in S, market[n][d] = "in"
        PROVE  d <= days[i] <=> d <= c
    <3>1. d \in Nat /\ days[i] \in Nat /\ c \in Nat
      <4>1. days[i] \in S /\ N - K + 1 \in 1 .. N
        BY <1>1, <1>3
      <4>2. c \in open
        BY <1>2, <4>1
      <4>. QED
        BY <1>1, <4>1, <4>2
    <3>2. ~(d > c)
      BY <1>8, <2>1
    <3>. QED
      BY <2>1, <3>1, <3>2
  <2>. QED
    BY <2>1
<1>12. ASSUME NEW i \in 1 .. M, days[i] >= c
       PROVE  i \in same
  <2>1. ASSUME NEW j \in i .. M
        PROVE  close[j] = Cardinality({d \in S : d <= c /\ market[n][d] = "in"})
    <3>1. j \in 1 .. M /\ j \in DOMAIN days
      BY <1>3
    <3>2. days[j] >= c
      <4>1. days[i] \in Nat /\ days[j] \in Nat /\ c \in Nat /\ (i = j \/ i < j)
        <5>1. days[i] \in S /\ days[j] \in S /\ N - K + 1 \in 1 .. N
          BY <1>1, <1>3, <3>1
        <5>2. c \in open
          BY <1>2, <5>1
        <5>3. i = j \/ i < j
          BY <1>3
        <5>. QED
          BY <1>1, <5>1, <5>2, <5>3
      <4>2. days[i] <= days[j]
        BY <1>3, <3>1, <4>1
      <4>. QED
        BY <1>12, <4>1, <4>2
    <3>3. close[j] = Cardinality({d \in S : d <= days[j] /\ market[n][d] = "in"})
      BY <1>7, <3>1
    <3>. QED
      BY <1>11, <3>1, <3>2, <3>3
  <2>2. M \in i .. M /\ i \in DOMAIN close
    BY <1>3, <1>9
  <2>. QED
    BY <1>9, <2>1, <2>2
<1>13. f \in Injection(late, same)
  <2>1. ASSUME NEW i \in late
        PROVE  f[i] \in same /\ f[i] \in 1 .. M /\ days[f[i]] = q[i]
    <3>1. f[i] = rank(q[i]) /\ rank(q[i]) \in 1 .. M /\ days[rank(q[i])] = q[i]
      BY <1>3, <1>10
    <3>2. days[f[i]] >= c
      BY <1>10, <3>1
    <3>3. f[i] \in 1 .. M
      BY <3>1
    <3> HIDE DEF f, same
    <3>. QED
      BY <1>12, <3>1, <3>2, <3>3
  <2>2. ASSUME NEW i \in late, NEW j \in late, f[i] = f[j]
        PROVE  i = j
    <3>1. q[i] = q[j]
      BY <2>1, <2>2
    <3>2. i \in 1 .. N /\ j \in 1 .. N
      BY <1>1
    <3>3. q[i] \in Nat /\ q[j] \in Nat
      BY <1>1, <1>2, <3>2
    <3>4. ~(i < j) /\ ~(j < i)
      BY <1>2, <3>1, <3>2, <3>3
    <3>. QED
      BY <1>1, <3>2, <3>4
  <2>3. f \in [late -> same] /\ DOMAIN f = late
    BY <2>1
  <2> HIDE DEF f, same
  <2>. QED
    BY <2>2, <2>3 DEF Injection, IsInjective
<1>14. IsFiniteSet(same)
  <2>1. same \in SUBSET (1 .. M) /\ 1 \in Int /\ M \in Int
    BY <1>3, <1>9
  <2>2. IsFiniteSet(1 .. M)
    BY <2>1, FS_Interval
  <2> HIDE DEF same
  <2>. QED
    BY <2>1, <2>2, FS_Subset
<1>15. Cardinality(late) = K /\ IsFiniteSet(late)
  <2>1. N - K + 1 \in Int /\ N \in Int
    BY <1>1
  <2>2. IsFiniteSet(late) /\ Cardinality(late) = IF N - K + 1 > N THEN 0 ELSE N - (N - K + 1) + 1
    BY <2>1, FS_Interval
  <2>. QED
    BY <1>1, <2>2
<1> HIDE DEF f, same, late
<1>16. Cardinality(late) <= Cardinality(same)
  BY <1>13, <1>14, FS_Injection
<1>17. Cardinality(same) = StaleRunOf(close)
  BY DEF same, StaleRunOf
<1>18. Cardinality(same) \in Nat
  BY <1>14, FS_CardinalityType
<1>. QED
  BY <1>1, <1>15, <1>16, <1>17, <1>18 DEF K, close

LEMMA PanelShowsCloses ==
  /\ DOMAIN Panel = {n \in Names : \A d \in Recent(StaleRun) : market[n][d] \in {"in", "halted"}}
  /\ \A n \in DOMAIN Panel : Panel[n].close = ClosesOf(n)
BY DEF Panel, Recent, ClosesOf, InMarketDays

(* What the stale-price screen keeps traded within the last sessions.      *)
LEMMA KeptNamesTraded ==
  ASSUME MarketMoves, Began, NEW n \in DOMAIN Panel, n \notin StalePriceRuns(Panel)
  PROVE  \E d \in Recent(StaleRun - 1) : market[n][d] = "in"
<1> SUFFICES ASSUME \A d \in Recent(StaleRun - 1) : market[n][d] # "in"
             PROVE  FALSE
  OBVIOUS
<1>1. /\ n \in Names /\ \A d \in Recent(StaleRun) : market[n][d] \in {"in", "halted"}
      /\ Panel[n].close = ClosesOf(n)
  BY PanelShowsCloses
<1>2. ~(StaleRunOf(ClosesOf(n)) >= StaleRun)
  BY <1>1 DEF StalePriceRuns
<1>3. /\ open \in SUBSET Nat /\ IsFiniteSet(open) /\ Cardinality(open) \in Nat
      /\ StaleRun \in Nat /\ StaleRun >= 2
  BY OpenIsFinite, UniverseAssumption
<1>4. ~(StaleRun <= Cardinality(open))
  BY <1>1, <1>2, SilentNamesAreStale
<1> DEFINE i == Cardinality(UpTo(open, 0))
<1>5. i \in 1 .. Cardinality(open) /\ InOrder(open)[i] = 0
  BY <1>3, OrderIsKept DEF Began
<1> HIDE DEF i
<1>6. 0 \in Recent(StaleRun)
  <2>1. i > Cardinality(open) - StaleRun
    BY <1>3, <1>4, <1>5
  <2>. QED
    BY <1>3, <1>5, <2>1, LastDays DEF Recent
<1>7. 0 \in Recent(StaleRun - 1)
  <2>1. i > Cardinality(open) - (StaleRun - 1) /\ StaleRun - 1 \in Nat
    BY <1>3, <1>4, <1>5
  <2>. QED
    BY <1>3, <1>5, <2>1, LastDays DEF Recent
<1>. QED
  BY <1>1, <1>6, <1>7 DEF Began

(* For any names, calendar, panel and runs: a name that may be ordered was *)
(* in the market the day the list was read, traded within the last         *)
(* sessions whatever the list knows of halts, and is not halted when a     *)
(* list that knows halts was read today (universe.py, tradable_set and     *)
(* stale_price_runs).                                                      *)
THEOREM HaltedNamesAreScreened == Spec => []NoHaltIsOrdered
<1>1. Whole => NoHaltIsOrdered
  <2> SUFFICES ASSUME Whole, Loaded, list.whole, source = "kind" => Paired,
                      NEW n \in TradableSet(LoadUniverse, Panel, TRUE, today, FALSE)
               PROVE  /\ Paired => market[n][sidecar.as_of] \in {"in", "halted"}
                      /\ \E d \in ToSet(LastOf(InOrder(open), StaleRun - 1)) : market[n][d] = "in"
                      /\ (source = "history" /\ Paired /\ sidecar.as_of = today)
                           => market[n][today] = "in"
    BY DEF NoHaltIsOrdered
  <2> DEFINE u == LoadUniverse
  <2>1. /\ sidecar # Refused /\ u.listings = list.rows /\ u.as_of = sidecar.as_of
        /\ u.point_in_time = sidecar.pit
    BY LoadedIsTheFiles
  <2>2. today \in Nat /\ u.as_of \in Nat /\ u.as_of <= today
        /\ None \notin Int /\ Refused \notin Int /\ None # Refused
    BY <2>1, UniverseAssumption DEF Whole, MarketMoves, FilesFollow, SidecarFollows
  <2> HIDE DEF u
  <2>3. n \in SymbolsOf(u) /\ Verdict(u, Panel, TRUE, today, FALSE, n) = "kept"
    BY DEF TradableSet, u
  <2>4. /\ n \in Tradable(u, today, FALSE) /\ u.listings[n].sector
        /\ n \in DOMAIN Panel /\ n \notin StalePriceRuns(Panel)
    BY <2>3 DEF Verdict
  <2>5. \E d \in ToSet(LastOf(InOrder(open), StaleRun - 1)) : market[n][d] = "in"
    BY <2>4, KeptNamesTraded DEF Whole, Recent
  <2>6. CASE source = "krx"
    BY <2>1, <2>3, <2>4, <2>6 DEF Whole, ReadersTell, ListTells, SymbolsOf
  <2>7. CASE source = "kind"
    <3>1. n \in {m \in Names : market[m][sidecar.as_of] \in {"in", "halted"}}
      BY <2>1, <2>3, <2>7 DEF Whole, ReadersTell, ListTells, Roster, SymbolsOf
    <3>. QED
      BY <2>5, <2>7, <3>1
  <2>8. CASE source = "history"
    <3>1. PICK last \in 0 .. today :
            DatedList(market, u.listings, last) /\ (Paired => u.as_of = last)
      BY <2>1, <2>8 DEF Whole, ReadersTell, ListTells
    <3>2. u.point_in_time = TRUE
      BY <2>1, <2>8 DEF Whole, ReadersTell, SidecarTells
    <3>3. /\ Members(u, today, FALSE) = InMarket(last)
          /\ today <= last => Tradable(u, today, FALSE) = Trading(today)
      <4>1. MarketMoves /\ last <= today
        BY <2>2 DEF Whole
      <4>. QED
        BY <2>2, <3>1, <3>2, <4>1, DatedAnswers
    <3>4. EffectiveDate(u, today, FALSE) = today
      BY <2>2, <3>2 DEF EffectiveDate
    <3>5. n \in Members(u, today, FALSE)
      BY <2>2, <2>4, <3>4 DEF Tradable, Members, WithStatus
    <3>6. market[n][last] \in {"in", "halted"}
      BY <3>3, <3>5 DEF InMarket
    <3>7. (Paired /\ sidecar.as_of = today) => market[n][today] = "in"
      <4>1. (Paired /\ sidecar.as_of = today) => today <= last
        BY <2>1, <2>2, <3>1
      <4>. QED
        BY <2>4, <3>3, <4>1 DEF Trading
    <3>. QED
      BY <2>1, <2>5, <3>1, <3>6, <3>7
  <2>. QED
    BY <2>6, <2>7, <2>8 DEF Whole, ReadersTell
<1>. QED
  BY <1>1, WholeHolds, PTL

-----------------------------------------------------------------------------
(* The US listings: ListingsBackfill                                       *)

(* What Keeping chooses, up to a position.                                 *)
KeepsUpTo(f, m, q, S) ==
    f = [n \in 0 .. m |->
           IF n = 0 THEN <<>> ELSE IF q[n] \in S THEN Append(f[n - 1], q[n]) ELSE f[n - 1]]

LEMMA KeepingIsChosen ==
  ASSUME NEW q, NEW S
  PROVE  Keeping(q, S) = (CHOOSE f : KeepsUpTo(f, Len(q), q, S))[Len(q)]
BY DEF Keeping, KeepsUpTo

(* There is such a function for every length: one for a position less goes *)
(* one position further.                                                   *)
LEMMA KeepsSomewhere ==
  ASSUME NEW q, NEW S, NEW m \in Nat
  PROVE  \E f : KeepsUpTo(f, m, q, S)
<1>. DEFINE missing == {k \in Nat : ~ \E f : KeepsUpTo(f, k, q, S)}
<1>1. SUFFICES ASSUME missing # {}
               PROVE  FALSE
  OBVIOUS
<1>2. PICK k \in missing : \A j \in missing : k <= j
  <2>1. missing \in SUBSET Nat
    OBVIOUS
  <2>. HIDE DEF missing
  <2>. QED  BY <1>1, <2>1, LeastNatural
<1>3. k # 0
  <2>. DEFINE f == [n \in 0 .. 0 |-> <<>>]
  <2>1. \A n \in 0 .. 0 : n = 0
    OBVIOUS
  <2>2. KeepsUpTo(f, 0, q, S)
    BY <2>1 DEF KeepsUpTo
  <2>. QED  BY <2>2
<1>4. k - 1 \in Nat /\ k \in Nat
  BY <1>3
<1>5. PICK f : KeepsUpTo(f, k - 1, q, S)
  <2>1. ~ (k <= k - 1)
    BY <1>4
  <2>2. k - 1 \notin missing
    <3>. HIDE DEF missing
    <3>. QED  BY <1>2, <2>1
  <2>. QED  BY <1>4, <2>2
<1>. DEFINE longer == [n \in 0 .. k |->
              IF n = 0 THEN <<>> ELSE IF q[n] \in S THEN Append(f[n - 1], q[n]) ELSE f[n - 1]]
<1>6. \A n \in 0 .. k - 1 : longer[n] = f[n]
  <2>1. \A n \in 0 .. k - 1 : n \in 0 .. k
    BY <1>4
  <2>2. ASSUME NEW n \in 0 .. k - 1
        PROVE  f[n] = IF n = 0 THEN <<>>
                      ELSE IF q[n] \in S THEN Append(f[n - 1], q[n]) ELSE f[n - 1]
    BY <1>5 DEF KeepsUpTo
  <2>. QED  BY <2>1, <2>2
<1>7. \A n \in 1 .. k : longer[n - 1] = f[n - 1]
  <2>. HIDE DEF longer
  <2>. QED  BY <1>4, <1>6
<1>8. KeepsUpTo(longer, k, q, S)
  <2>1. ASSUME NEW n \in 0 .. k, n # 0
        PROVE  longer[n - 1] = f[n - 1]
    <3>. HIDE DEF longer
    <3>. QED  BY <1>4, <1>7, <2>1
  <2>2. longer = [n \in 0 .. k |->
              IF n = 0 THEN <<>>
              ELSE IF q[n] \in S THEN Append(longer[n - 1], q[n]) ELSE longer[n - 1]]
    <3>. DEFINE old(n) == IF n = 0 THEN <<>>
                          ELSE IF q[n] \in S THEN Append(f[n - 1], q[n]) ELSE f[n - 1]
                new(n) == IF n = 0 THEN <<>>
                          ELSE IF q[n] \in S THEN Append(longer[n - 1], q[n])
                          ELSE longer[n - 1]
    <3>1. \A n \in 0 .. k : old(n) = new(n)
      <4>. HIDE DEF longer
      <4>. QED  BY <2>1
    <3>2. longer = [n \in 0 .. k |-> old(n)]
      OBVIOUS
    <3>3. [n \in 0 .. k |-> old(n)] = [n \in 0 .. k |-> new(n)]
      <4>. HIDE DEF old, new
      <4>. QED  BY <3>1
    <3>. QED  BY <3>2, <3>3, Zenon
  <2>. HIDE DEF longer
  <2>. QED  BY <2>2, Zenon DEF KeepsUpTo
<1>9. k \in missing
  BY <1>2
<1>. QED  BY <1>8, <1>9

(* What is kept are members of the sequence, and of the set.               *)
LEMMA KeepingKeeps ==
  ASSUME NEW R, NEW q \in Seq(R), NEW S
  PROVE  /\ Keeping(q, S) \in Seq(R \cap S)
         /\ Keeping(q, S) \in Seq(R)
<1>. DEFINE f == CHOOSE g : KeepsUpTo(g, Len(q), q, S)
            K == R \cap S
            bad == {k \in 0 .. Len(q) : f[k] \notin Seq(K)}
<1>1. Len(q) \in Nat /\ \A i \in 1 .. Len(q) : q[i] \in R
  OBVIOUS
<1>2. KeepsUpTo(f, Len(q), q, S)
  BY <1>1, KeepsSomewhere
<1>3. Keeping(q, S) = f[Len(q)]
  BY KeepingIsChosen
<1>. HIDE DEF f
<1>4. \A n \in 0 .. Len(q) :
         f[n] = IF n = 0 THEN <<>>
                ELSE IF q[n] \in S THEN Append(f[n - 1], q[n]) ELSE f[n - 1]
  BY <1>2 DEF KeepsUpTo
<1>. HIDE DEF K
<1>5. bad = {}
  <2>1. SUFFICES ASSUME bad # {}
                 PROVE  FALSE
    OBVIOUS
  <2>2. PICK k \in bad : \A j \in bad : k <= j
    <3>1. bad \in SUBSET Nat
      BY <1>1
    <3>. HIDE DEF bad
    <3>. QED  BY <2>1, <3>1, LeastNatural
  <2>3. k \in 0 .. Len(q) /\ f[k] \notin Seq(K)
    OBVIOUS
  <2>4. k # 0
    <3>1. 0 \in 0 .. Len(q)
      BY <1>1
    <3>2. f[0] = <<>>
      BY <1>4, <3>1
    <3>3. <<>> \in Seq(K)
      OBVIOUS
    <3>. HIDE DEF bad
    <3>. QED  BY <2>3, <3>2, <3>3
  <2>5. k \in 1 .. Len(q) /\ k - 1 \in 0 .. Len(q)
    BY <1>1, <2>3, <2>4
  <2>6. f[k - 1] \in Seq(K)
    <3>1. ~ (k <= k - 1)
      BY <2>5
    <3>2. k - 1 \notin bad
      <4>. HIDE DEF bad
      <4>. QED  BY <2>2, <3>1
    <3>. QED  BY <2>5, <3>2
  <2>7. q[k] \in S => q[k] \in K
    BY <1>1, <2>5 DEF K
  <2>8. f[k] = IF q[k] \in S THEN Append(f[k - 1], q[k]) ELSE f[k - 1]
    BY <1>4, <2>3, <2>4
  <2>. HIDE DEF bad
  <2>. QED  BY <2>3, <2>6, <2>7, <2>8
<1>6. f[Len(q)] \in Seq(K)
  BY <1>1, <1>5
<1>7. Seq(K) \subseteq Seq(R)
  <2>1. K \subseteq R
    BY DEF K
  <2>. QED  BY <2>1
<1>. QED  BY <1>3, <1>6, <1>7 DEF K

(* The pool and a run's list of the symbols without a sector name symbols  *)
(* Yahoo answered for with none.                                           *)
Told ==
    /\ pool \in Seq(told)
    /\ empty \in Seq(told)

LEMMA ToldStarts == BackfillInit => Told
BY DEF BackfillInit, Told

LEMMA ToldGoesOn == Told /\ [BackfillNext]_backfillVars => Told'
<1> SUFFICES ASSUME Told, [BackfillNext]_backfillVars
             PROVE  Told'
  OBVIOUS
<1>1. ASSUME NEW s, AnsweredWithoutSector(s)
      PROVE  Told'
  <2>1. /\ empty' = Append(empty, s) /\ told' = told \cup {s} /\ pool' = pool
    BY <1>1 DEF AnsweredWithoutSector, Answered, Asking, published
  <2>2. Seq(told) \subseteq Seq(told')
    BY <2>1
  <2>. QED  BY <2>1, <2>2 DEF Told
<1>2. CASE Publish
  <2>. DEFINE new == Keeping(empty, Symbols \ ToSet(pool))
              all == pool \o new
              touched == AskedOf(queue)
  <2>1. new \in Seq(told)
    BY KeepingKeeps DEF Told
  <2>2. all \in Seq(told)
    <3>. HIDE DEF new
    <3>. QED  BY <2>1 DEF Told
  <2>3. pool' = Keeping(all, Symbols \ touched) \o Keeping(all, touched)
    BY <1>2 DEF Publish, NextEmptyPool, Rotated, Merged
  <2>4. ASSUME NEW S
        PROVE  Keeping(all, S) \in Seq(told)
    <3>. HIDE DEF all
    <3>. QED  BY <2>2, KeepingKeeps
  <2>5. told' = told /\ empty' = <<>>
    BY <1>2 DEF Publish, EndRun
  <2>. HIDE DEF all, touched
  <2>. QED  BY <2>3, <2>4, <2>5 DEF Told
<1>3. CASE LoseRun
  BY <1>3 DEF LoseRun, EndRun, published, Told
<1>4. ASSUME NEW s, NEW p, \/ ListingMoves(s) \/ ProfileMoves(s, p)
      PROVE  Told'
  BY <1>4 DEF ListingMoves, ProfileMoves, published, backfillRun, Told
<1>5. CASE \/ StartRun \/ SecAnswers \/ SecRefuses \/ OpenSession
           \/ SessionDies \/ HarvestEnds
  BY <1>5 DEF StartRun, SecAnswers, SecRefuses, OpenSession, SessionDies,
              HarvestEnds, published, Told
<1>6. ASSUME NEW s, \/ AnsweredWithSector(s) \/ AnsweredUnmapped(s) \/ RequestFails(s)
      PROVE  Told'
  BY <1>6 DEF AnsweredWithSector, AnsweredUnmapped, RequestFails, Answered,
              Asking, published, Told
<1>7. CASE UNCHANGED backfillVars
  BY <1>7 DEF backfillVars, published, backfillRun, Told
<1>. QED
  BY <1>1, <1>2, <1>3, <1>4, <1>5, <1>6, <1>7 DEF BackfillNext, Step

(* A symbol on the published list of those Yahoo has no sector for is one  *)
(* Yahoo said so of (next_empty_pool), for any listings, budget, failure   *)
(* limit, lost runs and dying sessions.                                    *)
THEOREM PoolsWereAnswered == BackfillSpec => []PoolWasAnswered
<1>1. Told => PoolWasAnswered
  BY DEF Told, PoolWasAnswered, ToSet
<1>. QED
  BY <1>1, ToldStarts, ToldGoesOn, PTL DEF BackfillSpec

(* A sector once found stays while its symbol is listed (build's carried), *)
(* whatever the sources of any week cover.                                 *)
THEOREM SectorsAreCarried == BackfillSpec => SectorsOutliveOutages
<1>1. ASSUME [BackfillNext]_backfillVars, NEW s \in Symbols,
             sector[s] \in Buckets, sector'[s] # "unlisted"
      PROVE  sector'[s] \in Buckets
  <2>1. CASE Publish
    <3>1. sector'[s] = Built(s)
      BY <2>1 DEF Publish
    <3>2. Built(s) = IF ThisWeek(s) # "none" THEN ThisWeek(s) ELSE Carried(s)
      BY <1>1, <3>1 DEF Built
    <3>3. ThisWeek(s) # "none" => ThisWeek(s) \in Buckets
      BY DEF ThisWeek, Buckets
    <3>4. Carried(s) = sector[s]
      BY <1>1 DEF Carried
    <3>. QED  BY <1>1, <3>1, <3>2, <3>3, <3>4
  <2>2. CASE sector' = sector
    BY <1>1, <2>2
  <2>3. Publish \/ sector' = sector
    BY <1>1 DEF BackfillNext, Step, StartRun, SecAnswers, SecRefuses, OpenSession,
        SessionDies, HarvestEnds, LoseRun, ListingMoves, ProfileMoves,
        AnsweredWithSector, AnsweredWithoutSector, AnsweredUnmapped,
        RequestFails, Answered, Asking, backfillVars, published
  <2>. QED  BY <2>1, <2>2, <2>3
<1>2. [BackfillNext]_backfillVars =>
        [\A s \in Symbols : sector[s] \in Buckets /\ sector'[s] # "unlisted"
                              => sector'[s] \in Buckets]_backfillVars
  BY <1>1
<1>. QED
  BY <1>2, PTL DEF BackfillSpec, SectorsOutliveOutages
=============================================================================
