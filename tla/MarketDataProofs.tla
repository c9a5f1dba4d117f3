-------------------------- MODULE MarketDataProofs --------------------------
(***************************************************************************)
(* Theorems about the bar builder with its store, the strategy's resampler *)
(* and the bars that a backtest replays, on the specification that TLC     *)
(* checks.                                                                 *)
(*                                                                         *)
(* BuilderInv: what is neither buffered nor gone is in the archive, and    *)
(* older than all that is buffered, so that a flush of the buffer only     *)
(* puts later bars over earlier ones.  It rests on the types of what       *)
(* AddTick and FlushUntil leave and give, for every tick and every moment. *)
(*                                                                         *)
(* SourceInv: the bars given and those left are the bars loaded, and none  *)
(* of those left starts before one that was given.                         *)
(*                                                                         *)
(* StreamInv: what the strategy holds of a coarse bar is all it has been   *)
(* handed of it, in order, and what it no longer holds has been passed.    *)
(***************************************************************************)
EXTENDS MCMarketData, Lemmas

----------------------------------------------------------------------------
(* Days and intervals.                                                     *)

(* What division leaves: the multiple of n that is not above x.            *)
LEMMA Quotient ==
    ASSUME NEW x \in Nat, NEW n \in Nat \ {0}
    PROVE  /\ x \div n \in Nat /\ (x \div n) * n \in Nat
           /\ (x \div n) * n <= x /\ x < (x \div n) * n + n
  OBVIOUS

LEMMA QuotientIs ==
    ASSUME NEW x \in Nat, NEW n \in Nat \ {0}, NEW q \in Nat, q * n <= x, x < q * n + n
    PROVE  x \div n = q
<1> DEFINE p == x \div n
<1>1. p \in Nat /\ p * n \in Nat /\ p * n <= x /\ x < p * n + n
  BY Quotient
<1> HIDE DEF p
<1>2. CASE p < q
  <2>1. p + 1 \in Nat /\ p + 1 <= q
    BY <1>1, <1>2
  <2>2. (p + 1) * n <= q * n
    BY <2>1
  <2>3. (p + 1) * n = p * n + n
    BY <1>1
  <2> QED
    BY <1>1, <2>2, <2>3
<1>3. CASE q < p
  <2>1. q + 1 \in Nat /\ q + 1 <= p
    BY <1>1, <1>3
  <2>2. (q + 1) * n <= p * n
    BY <1>1, <2>1
  <2>3. (q + 1) * n = q * n + n
    OBVIOUS
  <2> QED
    BY <1>1, <2>2, <2>3
<1>4. p = q
  BY <1>1, <1>2, <1>3
<1> QED
  BY <1>4 DEF p

LEMMA DatesRise ==
    ASSUME NEW s \in Nat, NEW t \in Nat
    PROVE  /\ DateOf(s) \in Nat /\ TimeOf(s) \in Nat /\ s = DateOf(s) * DayLength + TimeOf(s)
           /\ TimeOf(s) < DayLength
           /\ DateOf(s) < DateOf(t) => s < t
           /\ s <= t => DateOf(s) <= DateOf(t)
<1>0. DayLength \in Nat \ {0}
  BY CalendarAssumption
<1> DEFINE d == DateOf(s)
           e == DateOf(t)
<1>1. /\ d \in Nat /\ d * DayLength \in Nat /\ d * DayLength <= s /\ s < d * DayLength + DayLength
      /\ e \in Nat /\ e * DayLength \in Nat /\ e * DayLength <= t /\ t < e * DayLength + DayLength
  BY <1>0, Quotient DEF DateOf
<1>2. TimeOf(s) \in Nat /\ s = d * DayLength + TimeOf(s) /\ TimeOf(s) < DayLength
  BY <1>0 DEF DateOf, TimeOf
<1> HIDE DEF d, e
<1>3. ASSUME d < e PROVE s < t
  <2>1. (d + 1) * DayLength <= e * DayLength
    BY <1>0, <1>1, <1>3
  <2>2. (d + 1) * DayLength = d * DayLength + DayLength
    BY <1>0, <1>1
  <2> QED
    BY <1>0, <1>1, <2>1, <2>2
<1>4. ASSUME e < d PROVE t < s
  <2>1. (e + 1) * DayLength <= d * DayLength
    BY <1>0, <1>1, <1>4
  <2>2. (e + 1) * DayLength = e * DayLength + DayLength
    BY <1>0, <1>1
  <2> QED
    BY <1>0, <1>1, <2>1, <2>2
<1> QED
  BY <1>1, <1>2, <1>3, <1>4 DEF d, e

(* Every moment from the open of a day's session to one of that day is of  *)
(* that day.                                                               *)
LEMMA SameDate ==
    ASSUME NEW s \in Nat, NEW t \in Nat, SessionWindow(DateOf(t)).open <= s, s <= t
    PROVE  DateOf(s) = DateOf(t)
<1> DEFINE d == DateOf(t)
<1>1. /\ d \in Nat /\ TimeOf(t) \in Nat /\ TimeOf(t) < DayLength
      /\ t = d * DayLength + TimeOf(t)
  BY DatesRise
<1>2. DayLength \in Nat \ {0} /\ SessionOpen \in Nat
  BY CalendarAssumption
<1>3. d * DayLength + SessionOpen <= s
  BY DEF SessionWindow, At
<1> HIDE DEF d
<1>4. d * DayLength \in Nat
  BY <1>1, <1>2
<1>5. s \div DayLength = d
  <2>1. d * DayLength <= s /\ s < d * DayLength + DayLength
    BY <1>1, <1>2, <1>3, <1>4
  <2> QED
    BY <1>1, <1>2, <2>1, QuotientIs
<1> QED
  BY <1>5 DEF DateOf, d

(* The bucket of a bar holds its start and is of its day; a bar of that    *)
(* day in the bucket's interval is in the bucket.                          *)
LEMMA Bucket ==
    ASSUME NEW b, b.start \in Nat, SessionOpen <= TimeOf(b.start), NEW n \in Nat \ {0}
    PROVE  LET s == BucketOf(b, n)
           IN  /\ s \in Nat /\ s <= b.start /\ b.start < s + n
               /\ SessionWindow(DateOf(b.start)).open <= s
               /\ DateOf(s) = DateOf(b.start)
<1> DEFINE t == b.start
           d == DateOf(t)
           open == SessionWindow(d).open
           s == BucketOf(b, n)
<1>1. /\ d \in Nat /\ TimeOf(t) \in Nat /\ TimeOf(t) < DayLength
      /\ t = d * DayLength + TimeOf(t)
  BY DatesRise
<1>2. DayLength \in Nat \ {0} /\ SessionOpen \in Nat
  BY CalendarAssumption
<1>3. open = d * DayLength + SessionOpen
  BY DEF SessionWindow, At
<1>4. s = open + ((t - open) \div n) * n
  BY DEF BucketOf
<1> HIDE DEF d, open, s
<1>5. t \in Nat /\ open \in Nat /\ t - open \in Nat
  <2>1. d * DayLength \in Nat
    BY <1>1, <1>2
  <2> QED
    BY <1>1, <1>2, <1>3, <2>1
<1>6. s \in Nat /\ s <= t /\ t < s + n /\ open <= s
  <2> DEFINE x == t - open
  <2>1. /\ (x \div n) * n \in Nat /\ (x \div n) * n <= x /\ x < (x \div n) * n + n
    BY <1>5, Quotient
  <2> DEFINE y == (x \div n) * n
  <2>2. s = open + y
    BY <1>4
  <2>3. y \in Nat /\ y <= x /\ x < y + n
    BY <2>1
  <2> HIDE DEF y
  <2> QED
    BY <1>5, <2>2, <2>3
<1>7. DateOf(s) = d
  <2>1. DateOf(s) = DateOf(t)
    BY <1>5, <1>6, SameDate DEF open, d
  <2> QED
    BY <2>1 DEF d
<1> QED
  BY <1>6, <1>7 DEF d, open, s

LEMMA BucketIs ==
    ASSUME NEW b, b.start \in Nat, SessionOpen <= TimeOf(b.start), NEW n \in Nat \ {0},
           NEW c, c.start \in Nat, DateOf(c.start) = DateOf(b.start),
           BucketOf(b, n) <= c.start, c.start < BucketOf(b, n) + n
    PROVE  BucketOf(c, n) = BucketOf(b, n)
<1> DEFINE open == SessionWindow(DateOf(b.start)).open
           s == BucketOf(b, n)
           q == (b.start - open) \div n
<1>1. s \in Nat /\ s <= b.start /\ open <= s
  BY Bucket
<1>2. open \in Nat
  <2>1. DateOf(b.start) \in Nat
    BY DatesRise
  <2>2. DayLength \in Nat /\ SessionOpen \in Nat
    BY CalendarAssumption
  <2> QED
    BY <2>1, <2>2 DEF SessionWindow, At
<1>3. s = open + q * n /\ BucketOf(c, n) = open + ((c.start - open) \div n) * n
  BY DEF BucketOf
<1>4. q \in Nat /\ q * n \in Nat
  <2> HIDE DEF open, s
  <2>1. b.start - open \in Nat
    BY <1>1, <1>2
  <2> QED
    BY <2>1, Quotient
<1> DEFINE x == c.start - open
           t == c.start
           y == q * n
<1>5. s <= t /\ t < s + n /\ t \in Nat
  OBVIOUS
<1> HIDE DEF open, s, q, t
<1>6. x \in Nat /\ y <= x /\ x < y + n
  <2>1. s = open + y /\ y \in Nat
    BY <1>3, <1>4
  <2> HIDE DEF y
  <2>2. x = t - open
    BY DEF t
  <2> QED
    BY <1>1, <1>2, <1>5, <2>1, <2>2
<1>7. x \div n = q
  <2> HIDE DEF x
  <2> QED
    BY <1>4, <1>6, QuotientIs
<1> QED
  BY <1>3, <1>7 DEF s

(* The first and the last of some bars.                                    *)
LEMMA FirstIs ==
    ASSUME NEW S, S # {}, \A b \in S : b.start \in Nat
    PROVE  First(S) \in S /\ \A c \in S : First(S).start <= c.start
<1> DEFINE N == {n \in Nat : ~ \E b \in S : b.start = n}
<1>1. SUFFICES ASSUME ~ \E b \in S : \A c \in S : b.start <= c.start PROVE FALSE
  BY DEF First
<1>2. ASSUME NEW n \in Nat, \A m \in Nat : m < n => m \in N PROVE n \in N
  <2> SUFFICES ASSUME NEW b \in S, b.start = n PROVE FALSE
    OBVIOUS
  <2>1. PICK c \in S : ~ (b.start <= c.start)
    BY <1>1
  <2>2. c.start \in Nat /\ c.start < n
    BY <2>1
  <2> QED
    BY <1>2, <2>2
<1>3. N = Nat
  <2>1. N \in SUBSET Nat
    OBVIOUS
  <2> HIDE DEF N
  <2> QED
    BY <1>2, <2>1, Ascent
<1> QED
  BY <1>3

LEMMA FinalIs ==
    ASSUME NEW S, S # {}, IsFiniteSet(S), \A b \in S : b.start \in Nat
    PROVE  Final(S) \in S /\ \A c \in S : c.start <= Final(S).start
<1> DEFINE P == {s \in SUBSET S : s = {} \/ \E b \in s : \A c \in s : c.start <= b.start}
<1>1. ASSUME NEW s \in SUBSET S, NEW x \in s, s \ {x} \in P
      PROVE  s \in P
  <2>1. CASE s \ {x} = {}
    BY <2>1
  <2>2. CASE s \ {x} # {}
    <3>1. PICK m \in s \ {x} : \A y \in s \ {x} : y.start <= m.start
      BY <1>1, <2>2
    <3>2. x.start \in Nat /\ m.start \in Nat /\ \A y \in s : y.start \in Nat
      OBVIOUS
    <3>3. CASE x.start <= m.start
      BY <3>1, <3>3
    <3>4. CASE ~ (x.start <= m.start)
      <4>1. \A y \in s : y.start <= x.start
        BY <3>1, <3>2, <3>4
      <4> QED
        BY <4>1
    <3> QED
      BY <3>3, <3>4
  <2> QED
    BY <2>1, <2>2
<1>2. S \in P
  <2> {} \in P
    OBVIOUS
  <2> HIDE DEF P
  <2>1. \A s \in SUBSET S : \A x \in s : s \ {x} \in P => s \in P
    BY <1>1
  <2>2. \A s \in SUBSET S : s \in P
    BY <2>1, Climb
  <2> QED
    BY <2>2
<1>3. \E b \in S : \A c \in S : c.start <= b.start
  BY <1>2
<1> QED
  BY <1>3 DEF Final

----------------------------------------------------------------------------
(* Frames, recorded and resampled.                                         *)

IsFrame(S, i) ==
    /\ IsFiniteSet(S)
    /\ \A b \in S : /\ b.inst = i /\ b.start \in Nat /\ {b.open, b.close} \subseteq Nat \ {0}
                    /\ \A c \in S : c.start = b.start => c = b

LEMMA RecordedIsFrame ==
    ASSUME NEW h \in Histories, NEW i \in DOMAIN h
    PROVE  IsFrame(h[i], i) /\ \A b \in h[i] : b.start \in Nat /\ SessionOpen <= TimeOf(b.start)
  BY BarSourceAssumption DEF IsFrame, IsRecorded

LEMMA PartOfFrame ==
    ASSUME NEW S, NEW i, IsFrame(S, i), NEW T \in SUBSET S
    PROVE  IsFrame(T, i)
<1>1. IsFiniteSet(T)
  BY FS_Subset DEF IsFrame
<1> QED
  BY <1>1 DEF IsFrame

LEMMA ReadIs ==
    ASSUME NEW frame, NEW start, NEW end
    PROVE  ReadRange(frame, start, end)
             = {b \in frame : start <= DateOf(b.start) /\ DateOf(b.start) <= end}
  BY DEF ReadRange, OnDay, Days

LEMMA ResampledIsFrame ==
    ASSUME NEW S, NEW i, IsFrame(S, i), \A b \in S : SessionOpen <= TimeOf(b.start),
           NEW n \in Nat \ {0}
    PROVE  LET held == {b \in S : IsTradingDay(DateOf(b.start))}
               in(s) == {c \in held : BucketOf(c, n) = s}
           IN  /\ IsFrame(ResampleFrame(S, n), i)
               /\ \A r \in ResampleFrame(S, n) :
                     /\ r = Resampled(in(r.start), n) /\ in(r.start) # {}
<1> DEFINE held == {b \in S : IsTradingDay(DateOf(b.start))}
           in(s) == {c \in held : BucketOf(c, n) = s}
           R == ResampleFrame(S, n)
           starts == {BucketOf(b, n) : b \in held}
<1>1. R = {Resampled(in(s), n) : s \in starts}
  BY DEF ResampleFrame
<1>2. ASSUME NEW s \in starts
      PROVE  LET r == Resampled(in(s), n)
             IN  /\ r.inst = i /\ r.start = s /\ s \in Nat /\ in(s) # {}
                 /\ {r.open, r.close} \subseteq Nat \ {0}
  <2> DEFINE T == in(s)
             f == First(T)
             g == Final(T)
  <2>1. T # {} /\ T \in SUBSET S
    OBVIOUS
  <2>2. IsFrame(T, i)
    <3> HIDE DEF T
    <3> QED
      BY <2>1, PartOfFrame
  <2>3. f \in T /\ g \in T
    <3> HIDE DEF T
    <3>1. IsFiniteSet(T) /\ \A b \in T : b.start \in Nat
      BY <2>2 DEF IsFrame
    <3> QED
      BY <2>1, <3>1, FirstIs, FinalIs
  <2>4. BucketOf(f, n) = s /\ f \in S
    BY <2>3
  <2>5. /\ f.inst = i /\ f.open \in Nat \ {0} /\ g.close \in Nat \ {0} /\ f.start \in Nat
    <3> HIDE DEF T, f, g
    <3> QED
      BY <2>2, <2>3 DEF IsFrame
  <2>6. s \in Nat
    BY <2>4, <2>5, Bucket
  <2>7. LET r == Resampled(T, n)
        IN  r.inst = f.inst /\ r.start = BucketOf(f, n) /\ r.open = f.open /\ r.close = g.close
    BY DEF Resampled
  <2> HIDE DEF T, f, g
  <2>8. LET r == Resampled(T, n)
        IN  r.inst = i /\ r.start = s /\ {r.open, r.close} \subseteq Nat \ {0}
    BY <2>4, <2>5, <2>7
  <2> QED
    BY <2>1, <2>6, <2>8 DEF T
<1>3. IsFiniteSet(R)
  <2> DEFINE f == [b \in held |-> Resampled(in(BucketOf(b, n)), n)]
  <2>1. IsFiniteSet(held)
    BY FS_Subset DEF IsFrame
  <2>2. f \in Surjection(held, R)
    <3>1. \A r \in R : \E b \in held : f[b] = r
      BY <1>1
    <3>2. \A b \in held : f[b] \in R
      BY <1>1
    <3> HIDE DEF R
    <3>3. f \in [held -> R]
      BY <3>2
    <3> HIDE DEF f
    <3> QED
      BY <3>1, <3>3 DEF Surjection
  <2> HIDE DEF f, R, held
  <2> QED
    BY <2>1, <2>2, FS_Surjection
<1> HIDE DEF starts
<1>4. ASSUME NEW r \in R
      PROVE  /\ r.inst = i /\ r.start \in Nat /\ {r.open, r.close} \subseteq Nat \ {0}
             /\ r = Resampled(in(r.start), n) /\ in(r.start) # {}
  <2>1. PICK s \in starts : r = Resampled(in(s), n)
    BY <1>1
  <2> HIDE DEF in, R
  <2>2. r.start = s
    BY <1>2, <2>1
  <2> QED
    BY <1>2, <2>1, <2>2
<1>5. \A r, q \in R : r.start = q.start => r = q
  <2> HIDE DEF in, R
  <2> QED
    BY <1>4
<1> QED
  BY <1>3, <1>4, <1>5 DEF IsFrame

(* A bar of a source that resamples is of a trading day, and its volume is *)
(* what was recorded in its interval.                                      *)
TradedIn(frame, b, n) ==
    {c \in frame : /\ DateOf(c.start) = DateOf(b.start)
                   /\ b.start <= c.start /\ c.start < b.start + n}

LEMMA BucketsAreIntervals ==
    ASSUME NEW S, NEW read \in SUBSET S, NEW i, IsFrame(S, i),
           \A b \in S : SessionOpen <= TimeOf(b.start),
           \A b, c \in S : (b \in read /\ DateOf(c.start) = DateOf(b.start)) => c \in read,
           NEW n \in Nat \ {0}, NEW r \in ResampleFrame(read, n)
    PROVE  /\ IsTradingDay(DateOf(r.start))
           /\ r.volume = Total(TradedIn(S, r, n), LAMBDA c : c.volume)
<1> DEFINE held == {b \in read : IsTradingDay(DateOf(b.start))}
           T == {c \in held : BucketOf(c, n) = r.start}
           U == TradedIn(S, r, n)
<1>1. IsFrame(read, i)
  BY PartOfFrame
<1>2. r = Resampled(T, n) /\ T # {}
  BY <1>1, ResampledIsFrame
<1>3. PICK f \in T : TRUE
  BY <1>2
<1>4. \A b \in S : b.start \in Nat /\ SessionOpen <= TimeOf(b.start)
  BY DEF IsFrame
<1>5. /\ f \in S /\ f \in read /\ BucketOf(f, n) = r.start
      /\ IsTradingDay(DateOf(f.start)) /\ f.start \in Nat /\ SessionOpen <= TimeOf(f.start)
  BY <1>3, <1>4
<1>6. DateOf(r.start) = DateOf(f.start)
  BY <1>5, Bucket
<1>7. ASSUME NEW c \in T PROVE c \in U
  <2>1. c \in S /\ c.start \in Nat /\ SessionOpen <= TimeOf(c.start) /\ BucketOf(c, n) = r.start
    BY <1>4
  <2>2. r.start <= c.start /\ c.start < r.start + n /\ DateOf(r.start) = DateOf(c.start)
    BY <2>1, Bucket
  <2> QED
    BY <2>1, <2>2 DEF TradedIn
<1>8. ASSUME NEW c \in U PROVE c \in T
  <2>1. c \in S /\ DateOf(c.start) = DateOf(r.start) /\ r.start <= c.start /\ c.start < r.start + n
    BY DEF TradedIn
  <2>2. c \in read /\ DateOf(c.start) = DateOf(f.start) /\ c.start \in Nat
    BY <1>4, <1>5, <1>6, <2>1
  <2>3. BucketOf(c, n) = BucketOf(f, n)
    BY <1>5, <2>1, <2>2, BucketIs
  <2> QED
    BY <1>5, <2>2, <2>3
<1>9. T = U
  <2> HIDE DEF T, U
  <2> QED
    BY <1>7, <1>8
<1>10. Resampled(T, n).volume = Total(T, LAMBDA c : c.volume)
  BY DEF Resampled
<1> HIDE DEF T, U
<1>11. r.volume = Total(T, LAMBDA c : c.volume)
  BY <1>2, <1>10
<1>12. Total(T, LAMBDA c : c.volume) = Total(U, LAMBDA c : c.volume)
  BY <1>9
<1> QED
  BY <1>5, <1>6, <1>11, <1>12 DEF U

(* What a source gives of each instrument.                                 *)
LEMMA LoadedIs ==
    ASSUME NEW h \in Histories, NEW n \in TestIntervals, NEW days \in TestDays,
           NEW i \in DOMAIN h
    PROVE  /\ IsFrame(Loaded(h, n, days)[i], i)
           /\ n # 0 => \A r \in Loaded(h, n, days)[i] :
                          /\ IsTradingDay(DateOf(r.start))
                          /\ r.volume = Total(TradedIn(h[i], r, n), LAMBDA c : c.volume)
<1> DEFINE S == h[i]
           read == {b \in S : days[1] <= DateOf(b.start) /\ DateOf(b.start) <= days[2]}
<1>1. IsFrame(S, i) /\ \A b \in S : b.start \in Nat /\ SessionOpen <= TimeOf(b.start)
  BY RecordedIsFrame
<1>2. Loaded(h, n, days)[i] = IF n = 0 THEN read ELSE ResampleFrame(read, n)
  BY ReadIs DEF Loaded, Load
<1>3. /\ read \in SUBSET S
      /\ \A b, c \in S : (b \in read /\ DateOf(c.start) = DateOf(b.start)) => c \in read
  OBVIOUS
<1>4. n \in Nat
  BY BarSourceAssumption
<1> HIDE DEF read, S
<1>5. IsFrame(read, i)
  BY <1>1, <1>3, PartOfFrame
<1>6. CASE n = 0
  BY <1>2, <1>5, <1>6
<1>7. CASE n # 0
  <2>1. n \in Nat \ {0} /\ Loaded(h, n, days)[i] = ResampleFrame(read, n)
    BY <1>2, <1>4, <1>7
  <2>2. \A b \in read : SessionOpen <= TimeOf(b.start)
    BY <1>1, <1>3
  <2>3. IsFrame(ResampleFrame(read, n), i)
    BY <1>5, <2>1, <2>2, ResampledIsFrame
  <2>4. \A r \in ResampleFrame(read, n) :
            /\ IsTradingDay(DateOf(r.start))
            /\ r.volume = Total(TradedIn(S, r, n), LAMBDA c : c.volume)
    BY <1>1, <1>3, <2>1, BucketsAreIntervals
  <2> QED
    BY <2>1, <2>3, <2>4 DEF S
<1> QED
  BY <1>6, <1>7

(* In a frame without an issue, no day leaves a jump behind the one before.*)
Apart(is, was) == IF is > was THEN is - was ELSE was - is

LEMMA NoJump ==
    ASSUME NEW frame, Issues(frame) = {}, NEW c \in Days(frame), NEW d \in Days(frame), c < d,
           {e \in Days(frame) : c < e /\ e < d} = {}
    PROVE  LET was == Final(OnDay(frame, c)).close
               is  == First(OnDay(frame, d)).open
           IN  ~ (was > 0 /\ is # 0 /\ Apart(is, was) * 100 > MaxGap * was)
<1> SUFFICES ASSUME LET was == Final(OnDay(frame, c)).close
                        is  == First(OnDay(frame, d)).open
                    IN  was > 0 /\ is # 0 /\ Apart(is, was) * 100 > MaxGap * was
             PROVE  "gap" \in Issues(frame)
  OBVIOUS
<1> QED
  BY DEF Issues, Apart

----------------------------------------------------------------------------
(* The replay.  The bars given and the bars left are those loaded, and     *)
(* none left is earlier than one given.                                    *)

SourceInv ==
    LET frames == Loaded(recorded, testInterval, testDays)
    IN  /\ recorded \in Histories /\ testInterval \in TestIntervals /\ testDays \in TestDays
        /\ left \in [DOMAIN recorded -> SUBSET UNION {frames[i] : i \in DOMAIN recorded}]
        /\ \A i \in DOMAIN recorded : left[i] \subseteq frames[i]
        /\ gate = "open" => left = frames
        /\ gate = "usable" => Usable(frames)
        /\ gate # "usable" => streamed = <<>>
        /\ streamed \in Seq(UNION {frames[i] : i \in DOMAIN recorded})
        /\ \A i \in DOMAIN recorded : \A b \in frames[i] :
              b \in left[i] \/ \E k \in 1..Len(streamed) : streamed[k] = b
        /\ \A k \in 1..Len(streamed) :
              /\ streamed[k].inst \in DOMAIN recorded
              /\ streamed[k] \in frames[streamed[k].inst] \ left[streamed[k].inst]
              /\ \A i \in DOMAIN recorded : \A c \in left[i] : streamed[k].start <= c.start
        /\ \A j, k \in 1..Len(streamed) :
              j < k => /\ streamed[j].start <= streamed[k].start
                       /\ streamed[j].inst = streamed[k].inst
                             => streamed[j].start < streamed[k].start

LEMMA InitSourceInv == ASSUME SourceInit PROVE SourceInv
<1>1. /\ recorded \in Histories /\ testInterval \in TestIntervals /\ testDays \in TestDays
      /\ gate = "open" /\ left = Loaded(recorded, testInterval, testDays) /\ streamed = <<>>
  BY DEF SourceInit
<1> DEFINE frames == Loaded(recorded, testInterval, testDays)
<1>2. left = frames /\ DOMAIN frames = DOMAIN recorded
      /\ frames = [i \in DOMAIN recorded |-> frames[i]]
  BY <1>1 DEF Loaded
<1>3. \A k \in 1..Len(streamed) : FALSE
  <2>1. Len(streamed) = 0
    BY <1>1
  <2> QED
    BY <2>1
<1>4. streamed \in Seq(UNION {frames[i] : i \in DOMAIN recorded})
  BY <1>1
<1> HIDE DEF frames
<1>5. left \in [DOMAIN recorded -> SUBSET UNION {frames[i] : i \in DOMAIN recorded}]
  <2> DEFINE U == UNION {frames[i] : i \in DOMAIN recorded}
  <2>1. \A i \in DOMAIN recorded : frames[i] \in SUBSET U
    OBVIOUS
  <2> HIDE DEF U
  <2>2. frames \in [DOMAIN recorded -> SUBSET U]
    BY <1>2, <2>1
  <2> QED
    BY <1>2, <2>2 DEF U
<1>6. \A i \in DOMAIN recorded : left[i] \subseteq frames[i] /\ \A b \in frames[i] : b \in left[i]
  BY <1>2
<1> QED
  BY <1>1, <1>2, <1>3, <1>4, <1>5, <1>6 DEF SourceInv, frames

LEMMA YieldSourceInv == ASSUME SourceInv, Yield PROVE SourceInv'
<1> DEFINE frames == Loaded(recorded, testInterval, testDays)
           D == DOMAIN recorded
           U == UNION {frames[i] : i \in D}
           ready == {First(left[i]) : i \in {j \in DOMAIN left : left[j] # {}}}
<1>1. PICK b \in ready :
          /\ gate = "usable"
          /\ \A c \in ready : ComesFirst(b, c)
          /\ left' = [left EXCEPT ![b.inst] = @ \ {b}]
          /\ streamed' = Append(streamed, b)
          /\ UNCHANGED <<recorded, testInterval, testDays, gate>>
  BY DEF Yield
<1>2. /\ recorded \in Histories /\ testInterval \in TestIntervals /\ testDays \in TestDays
      /\ left \in [D -> SUBSET U] /\ Usable(frames)
      /\ streamed \in Seq(U)
  BY <1>1 DEF SourceInv
<1>3. /\ \A i \in D : left[i] \subseteq frames[i]
      /\ \A i \in D : \A c \in frames[i] :
              c \in left[i] \/ \E k \in 1..Len(streamed) : streamed[k] = c
      /\ \A k \in 1..Len(streamed) :
              /\ streamed[k].inst \in D
              /\ streamed[k] \in frames[streamed[k].inst] \ left[streamed[k].inst]
              /\ \A i \in D : \A c \in left[i] : streamed[k].start <= c.start
      /\ \A j, k \in 1..Len(streamed) :
              j < k => /\ streamed[j].start <= streamed[k].start
                       /\ streamed[j].inst = streamed[k].inst
                             => streamed[j].start < streamed[k].start
  BY DEF SourceInv
<1>4. \A i \in D : IsFrame(frames[i], i)
  BY <1>2, LoadedIs
<1>5. DOMAIN left = D
  BY <1>2
<1>6. ASSUME NEW i \in D, left[i] # {}
      PROVE  First(left[i]) \in left[i] /\ \A c \in left[i] : First(left[i]).start <= c.start
  <2>1. \A c \in left[i] : c.start \in Nat
    <3> HIDE DEF frames
    <3> QED
      BY <1>3, <1>4 DEF IsFrame
  <2> QED
    BY <1>6, <2>1, FirstIs
<1>7. PICK i \in D : left[i] # {} /\ b = First(left[i])
  BY <1>5
<1> HIDE DEF frames, U, D
<1>8. /\ b \in left[i] /\ b \in frames[i] /\ b.inst = i /\ b.start \in Nat /\ b \in U
  <2>1. b \in left[i] /\ b \in frames[i]
    BY <1>3, <1>6, <1>7
  <2> QED
    BY <1>4, <2>1 DEF IsFrame, U
<1>9. ASSUME NEW j \in D, NEW c \in left[j] PROVE b.start <= c.start
  <2>1. First(left[j]) \in ready
    BY <1>5
  <2>2. First(left[j]) \in left[j] /\ First(left[j]).start <= c.start
    BY <1>6
  <2>3. First(left[j]).start \in Nat /\ c.start \in Nat
    BY <1>3, <1>4, <2>2 DEF IsFrame
  <2>4. ComesFirst(b, First(left[j]))
    BY <1>1, <2>1
  <2>5. b.start <= First(left[j]).start
    BY <1>8, <2>3, <2>4 DEF ComesFirst
  <2> QED
    BY <1>8, <2>2, <2>3, <2>5
<1> HIDE DEF ready
<1> DEFINE n == Len(streamed)
<1>10. /\ n \in Nat /\ Len(streamed') = n + 1 /\ streamed' \in Seq(U)
       /\ \A k \in 1..n : streamed'[k] = streamed[k]
       /\ streamed'[n + 1] = b
  BY <1>1, <1>2, <1>8
<1>11. /\ left' \in [D -> SUBSET U] /\ left'[i] = left[i] \ {b}
       /\ \A j \in D : left'[j] \subseteq left[j] /\ (j # i => left'[j] = left[j])
  BY <1>1, <1>2, <1>8
<1> HIDE DEF n
<1>12. ASSUME NEW j \in D, NEW c \in frames[j]
       PROVE  c \in left'[j] \/ \E k \in 1..n + 1 : streamed'[k] = c
  <2>1. CASE \E k \in 1..n : streamed[k] = c
    BY <1>10, <2>1
  <2>2. CASE c \in left[j]
    <3>1. CASE c = b
      BY <1>10, <3>1
    <3>2. CASE c # b
      BY <1>11, <2>2, <3>2
    <3> QED
      BY <3>1, <3>2
  <2> QED
    BY <1>3, <2>1, <2>2 DEF n
<1>13. ASSUME NEW k \in 1..n + 1
       PROVE  /\ streamed'[k].inst \in D
              /\ streamed'[k] \in frames[streamed'[k].inst] \ left'[streamed'[k].inst]
              /\ \A j \in D : \A c \in left'[j] : streamed'[k].start <= c.start
  <2>1. CASE k \in 1..n
    BY <1>3, <1>10, <1>11, <2>1 DEF n
  <2>2. CASE k = n + 1
    BY <1>8, <1>9, <1>10, <1>11, <2>2
  <2> QED
    BY <1>10, <2>1, <2>2
<1>14. ASSUME NEW j \in 1..n + 1, NEW k \in 1..n + 1, j < k
       PROVE  /\ streamed'[j].start <= streamed'[k].start
              /\ streamed'[j].inst = streamed'[k].inst
                             => streamed'[j].start < streamed'[k].start
  <2>0. j \in 1..n
    BY <1>10, <1>14
  <2>1. CASE k \in 1..n
    BY <1>3, <1>10, <1>14, <2>0, <2>1 DEF n
  <2>2. CASE k = n + 1
    <3>1. streamed[j].start <= b.start
      BY <1>3, <1>8, <2>0 DEF n
    <3>2. ASSUME streamed[j].inst = i PROVE streamed[j].start < b.start
      <4>1. streamed[j] \in frames[i] /\ streamed[j] \notin left[i]
        BY <1>3, <2>0, <3>2 DEF n
      <4>2. streamed[j] # b
        BY <1>8, <4>1
      <4>3. streamed[j].start # b.start /\ streamed[j].start \in Nat
        BY <1>4, <1>8, <4>1, <4>2 DEF IsFrame
      <4> QED
        BY <1>8, <3>1, <4>3
    <3> QED
      BY <1>8, <1>10, <2>0, <2>2, <3>1, <3>2
  <2> QED
    BY <1>10, <2>1, <2>2
<1>15. \A j \in D : left'[j] \subseteq frames[j]
  BY <1>3, <1>11
<1>16. recorded' = recorded /\ testInterval' = testInterval /\ testDays' = testDays
       /\ gate' = "usable"
  BY <1>1
<1> QED
  BY <1>2, <1>10, <1>11, <1>12, <1>13, <1>14, <1>15, <1>16 DEF SourceInv, frames, U, D

LEMMA NextSourceInv == ASSUME SourceInv, [SourceNext]_sourceVars PROVE SourceInv'
<1>1. CASE UNCHANGED sourceVars
  BY <1>1 DEF sourceVars, SourceInv
<1>2. CASE Assess
  BY <1>2 DEF Assess, SourceInv
<1>3. CASE Yield
  BY <1>3, YieldSourceInv
<1> QED
  BY <1>1, <1>2, <1>3 DEF SourceNext

(* The last bar given of a session and the first of the next are the last  *)
(* and the first of two days of the frame, with no day between.            *)
LEMMA NoJumpGiven ==
    ASSUME SourceInv, NEW j \in 1..Len(streamed), NEW k \in 1..Len(streamed), j < k,
           streamed[j].inst = streamed[k].inst,
           DateOf(streamed[j].start) # DateOf(streamed[k].start),
           \A m \in j + 1..k - 1 : streamed[m].inst # streamed[j].inst
    PROVE  Apart(streamed[k].open, streamed[j].close) * 100 <= MaxGap * streamed[j].close
<1> DEFINE frames == Loaded(recorded, testInterval, testDays)
           b == streamed[j]
           c == streamed[k]
           F == frames[b.inst]
           d == DateOf(b.start)
           e == DateOf(c.start)
<1>1. /\ recorded \in Histories /\ testInterval \in TestIntervals /\ testDays \in TestDays
      /\ b.inst \in DOMAIN recorded /\ b \in F /\ c \in F /\ b.start < c.start
      /\ c \in frames[c.inst]
  BY DEF SourceInv
<1>2. Usable(frames)
  <2>1. Len(streamed) # 0
    OBVIOUS
  <2>2. streamed # <<>>
    BY <2>1
  <2> QED
    BY <2>2 DEF SourceInv
<1>3. Issues(F) = {}
  <2>1. DOMAIN frames = DOMAIN recorded
    BY DEF Loaded
  <2> QED
    BY <1>1, <1>2, <2>1 DEF Usable
<1>4. IsFrame(F, b.inst)
  BY <1>1, LoadedIs
<1>5. \A x \in F : \/ x \in left[b.inst]
                   \/ \E m \in 1..Len(streamed) : streamed[m] = x
  BY <1>1 DEF SourceInv
<1>6. /\ \A x \in left[b.inst] : c.start <= x.start
      /\ \A l, m \in 1..Len(streamed) :
            (l < m /\ streamed[l].inst = streamed[m].inst)
               => streamed[l].start < streamed[m].start
  BY <1>1 DEF SourceInv
<1> HIDE DEF frames, F
<1>7. /\ b.start \in Nat /\ c.start \in Nat /\ b.close \in Nat \ {0} /\ c.open \in Nat \ {0}
      /\ \A x \in F : x.start \in Nat /\ x.inst = b.inst
  BY <1>1, <1>4 DEF IsFrame
<1>8. ASSUME NEW x \in F, b.start < x.start, x.start < c.start PROVE FALSE
  <2>1. x \notin left[b.inst]
    BY <1>6, <1>7, <1>8
  <2>2. PICK m \in 1..Len(streamed) : streamed[m] = x
    BY <1>5, <2>1
  <2>3. x.inst = b.inst /\ c.inst = b.inst /\ x.start \in Nat
    BY <1>7
  <2>4. Len(streamed) \in Nat
    BY DEF SourceInv
  <2>5. j < m
    <3>1. CASE m < j
      <4>1. x.start < b.start
        BY <1>6, <2>2, <2>3, <3>1
      <4> QED
        BY <1>7, <1>8, <2>3, <4>1
    <3>2. CASE m = j
      BY <1>7, <1>8, <2>2, <3>2
    <3> QED
      BY <2>4, <3>1, <3>2
  <2>6. m < k
    <3>1. CASE k < m
      <4>1. c.start < x.start
        BY <1>6, <2>2, <2>3, <3>1
      <4> QED
        BY <1>7, <1>8, <2>3, <4>1
    <3>2. CASE m = k
      BY <1>7, <1>8, <2>2, <3>2
    <3> QED
      BY <2>4, <3>1, <3>2
  <2>7. m \in j + 1..k - 1
    BY <2>4, <2>5, <2>6
  <2> QED
    BY <2>2, <2>3, <2>7
<1>9. d \in Nat /\ e \in Nat /\ d < e
  <2>1. d \in Nat /\ e \in Nat /\ d <= e
    BY <1>1, <1>7, DatesRise
  <2> QED
    BY <2>1
<1>10. \A x \in F : DateOf(x.start) = d => x.start <= b.start
  <2> SUFFICES ASSUME NEW x \in F, DateOf(x.start) = d, b.start < x.start PROVE FALSE
    BY <1>7
  <2>1. x.start < c.start
    BY <1>7, <1>9, DatesRise
  <2> QED
    BY <1>8, <2>1
<1>11. \A x \in F : DateOf(x.start) = e => c.start <= x.start
  <2> SUFFICES ASSUME NEW x \in F, DateOf(x.start) = e, x.start < c.start PROVE FALSE
    BY <1>7
  <2>1. b.start < x.start
    BY <1>7, <1>9, DatesRise
  <2> QED
    BY <1>8, <2>1
<1>12. {g \in Days(F) : d < g /\ g < e} = {}
  <2> SUFFICES ASSUME NEW x \in F, d < DateOf(x.start), DateOf(x.start) < e PROVE FALSE
    BY DEF Days
  <2>1. b.start < x.start /\ x.start < c.start
    BY <1>7, DatesRise
  <2> QED
    BY <1>8, <2>1
<1>13. d \in Days(F) /\ e \in Days(F)
  BY <1>1 DEF Days
<1>14. Final(OnDay(F, d)) = b
  <2> DEFINE T == OnDay(F, d)
  <2>1. b \in T /\ T \in SUBSET F /\ \A x \in T : x.start <= b.start
    BY <1>1, <1>10 DEF OnDay
  <2> HIDE DEF T, b
  <2>2. IsFiniteSet(T) /\ \A x \in T : x.start \in Nat
    BY <1>4, <1>7, <2>1, FS_Subset DEF IsFrame
  <2>3. Final(T) \in T /\ b.start <= Final(T).start
    BY <2>1, <2>2, FinalIs
  <2>4. Final(T).start = b.start /\ Final(T) \in F /\ b \in F
    BY <2>1, <2>2, <2>3
  <2> QED
    BY <1>4, <2>4 DEF IsFrame, T
<1>15. First(OnDay(F, e)) = c
  <2> DEFINE T == OnDay(F, e)
  <2>1. c \in T /\ T \in SUBSET F /\ \A x \in T : c.start <= x.start
    BY <1>1, <1>11 DEF OnDay
  <2> HIDE DEF T, c
  <2>2. \A x \in T : x.start \in Nat
    BY <1>7, <2>1
  <2>3. First(T) \in T /\ First(T).start <= c.start
    BY <2>1, <2>2, FirstIs
  <2>4. First(T).start = c.start /\ First(T) \in F /\ c \in F
    BY <2>1, <2>2, <2>3
  <2> QED
    BY <1>4, <2>4 DEF IsFrame, T
<1> DEFINE was == b.close
           is == c.open
<1>16. ~ (was > 0 /\ is # 0 /\ Apart(is, was) * 100 > MaxGap * was)
  <2> HIDE DEF b, c, d, e
  <2> QED
    BY <1>3, <1>9, <1>12, <1>13, <1>14, <1>15, NoJump
<1>17. was \in Nat \ {0} /\ is \in Nat \ {0} /\ MaxGap \in Nat
  BY <1>7, BarSourceAssumption
<1> HIDE DEF was, is
<1>18. Apart(is, was) \in Int /\ MaxGap * was \in Int
  BY <1>17 DEF Apart
<1>19. Apart(is, was) * 100 <= MaxGap * was
  BY <1>16, <1>17, <1>18
<1> QED
  BY <1>19 DEF was, is

LEMMA ReplayedRight == ASSUME SourceInv PROVE ReplaysAreInOrder
<1> DEFINE frames == Loaded(recorded, testInterval, testDays)
<1>1. /\ recorded \in Histories /\ testInterval \in TestIntervals /\ testDays \in TestDays
      /\ DOMAIN left = DOMAIN recorded /\ Len(streamed) \in Nat
  BY DEF SourceInv
<1>2. ASSUME NEW k \in 1..Len(streamed)
      PROVE  /\ \A i \in DOMAIN left : \A c \in left[i] : streamed[k].start <= c.start
             /\ k > 1 => streamed[k - 1].start <= streamed[k].start
             /\ testInterval # 0 => IsTradingDay(DateOf(streamed[k].start))
             /\ testInterval # 0 =>
                   streamed[k].volume
                     = Total(TradedIn(recorded[streamed[k].inst], streamed[k], testInterval),
                             LAMBDA c : c.volume)
  <2>1. \A i \in DOMAIN left : \A c \in left[i] : streamed[k].start <= c.start
    BY <1>1 DEF SourceInv
  <2>2. k > 1 => streamed[k - 1].start <= streamed[k].start
    <3> SUFFICES ASSUME k > 1 PROVE streamed[k - 1].start <= streamed[k].start
      OBVIOUS
    <3>1. k - 1 \in 1..Len(streamed) /\ k - 1 < k
      BY <1>1
    <3> QED
      BY <3>1 DEF SourceInv
  <2>3. streamed[k].inst \in DOMAIN recorded /\ streamed[k] \in frames[streamed[k].inst]
    BY DEF SourceInv
  <2>4. testInterval # 0 =>
            /\ IsTradingDay(DateOf(streamed[k].start))
            /\ streamed[k].volume
                 = Total(TradedIn(recorded[streamed[k].inst], streamed[k], testInterval),
                         LAMBDA c : c.volume)
    BY <1>1, <2>3, LoadedIs
  <2> QED
    BY <2>1, <2>2, <2>4
<1>3. ASSUME NEW j \in 1..Len(streamed), NEW k \in 1..Len(streamed), j < k,
             streamed[j].inst = streamed[k].inst,
             DateOf(streamed[j].start) # DateOf(streamed[k].start),
             \A m \in j + 1..k - 1 : streamed[m].inst # streamed[j].inst
      PROVE  Apart(streamed[k].open, streamed[j].close) * 100 <= MaxGap * streamed[j].close
  BY <1>3, NoJumpGiven
<1> QED
  BY <1>2, <1>3 DEF ReplaysAreInOrder, TradedIn, Apart

----------------------------------------------------------------------------
(* Of a finite set in a strict order, Ordered finds the element that k - 1 *)
(* others precede.                                                         *)

StrictOrder(S, R) ==
    /\ \A x, y \in S : x = y \/ <<x, y>> \in R \/ <<y, x>> \in R
    /\ \A x \in S : <<x, x>> \notin R
    /\ \A x, y, z \in S : <<x, y>> \in R /\ <<y, z>> \in R => <<x, z>> \in R

(* Each rank is that of an element, and ranks rise with the order.         *)
Ranks(S, R) ==
    LET rank(x) == Cardinality({y \in S : <<y, x>> \in R})
    IN  /\ Cardinality(S) \in Nat
        /\ \A k \in 1..Cardinality(S) : \E x \in S : rank(x) = k - 1
        /\ \A x \in S : rank(x) \in 0..(Cardinality(S) - 1)
        /\ \A x, z \in S : <<x, z>> \in R => rank(x) < rank(z)

LEMMA Ranked ==
    ASSUME NEW S, IsFiniteSet(S), NEW R, StrictOrder(S, R)
    PROVE  Ranks(S, R)
<1> DEFINE n == Cardinality(S)
           Below(x) == {y \in S : <<y, x>> \in R}
           T == 0..(n - 1)
           f == [x \in S |-> Cardinality(Below(x))]
<1>0. /\ \A x \in S : <<x, x>> \notin R
      /\ \A x, y \in S : x = y \/ <<x, y>> \in R \/ <<y, x>> \in R
      /\ \A x, y, z \in S : <<x, y>> \in R /\ <<y, z>> \in R => <<x, z>> \in R
  BY DEF StrictOrder
<1>1. n \in Nat
  BY FS_CardinalityType
<1>2. ASSUME NEW x \in S
      PROVE  /\ IsFiniteSet(Below(x)) /\ Cardinality(Below(x)) \in Nat
             /\ Cardinality(Below(x)) < n
  <2>1. Below(x) \in SUBSET S /\ x \notin Below(x)
    BY <1>0
  <2>2. /\ IsFiniteSet(Below(x)) /\ Cardinality(Below(x)) <= n
        /\ (Cardinality(S) = Cardinality(Below(x)) => S = Below(x))
    <3> HIDE DEF Below
    <3> QED
      BY <2>1, FS_Subset
  <2>3. Cardinality(Below(x)) \in Nat
    <3> HIDE DEF Below
    <3> QED
      BY <2>2, FS_CardinalityType
  <2>4. Cardinality(Below(x)) # n
    <3> HIDE DEF Below
    <3> QED
      BY <2>1, <2>2
  <2> HIDE DEF Below, n
  <2> QED
    BY <1>1, <2>2, <2>3, <2>4
<1>3. ASSUME NEW x \in S, NEW y \in S, <<x, y>> \in R
      PROVE  Cardinality(Below(x)) < Cardinality(Below(y))
  <2>1. Below(x) \in SUBSET Below(y) /\ x \in Below(y) /\ x \notin Below(x)
    BY <1>0, <1>3
  <2> HIDE DEF Below
  <2>2. /\ Cardinality(Below(x)) <= Cardinality(Below(y))
        /\ (Cardinality(Below(y)) = Cardinality(Below(x)) => Below(y) = Below(x))
    BY <1>2, <2>1, FS_Subset
  <2> QED
    BY <1>2, <2>1, <2>2
<1>4. IsFiniteSet(T) /\ Cardinality(T) = n
  <2> HIDE DEF n
  <2>1. 0 \in Int /\ n - 1 \in Int
    BY <1>1
  <2>2. IsFiniteSet(0..(n - 1)) /\ Cardinality(0..(n - 1)) = IF 0 > n - 1 THEN 0 ELSE (n - 1) - 0 + 1
    BY <2>1, FS_Interval
  <2> QED
    BY <1>1, <2>2
<1>5. f \in Injection(S, T)
  <2>1. f \in [S -> T]
    <3> HIDE DEF Below, n
    <3>1. \A x \in S : Cardinality(Below(x)) \in 0..(n - 1)
      BY <1>1, <1>2
    <3> QED
      BY <3>1
  <2>2. ASSUME NEW x \in S, NEW y \in S, f[x] = f[y] PROVE x = y
    <3> HIDE DEF Below
    <3>1. f[x] = Cardinality(Below(x)) /\ f[y] = Cardinality(Below(y))
      OBVIOUS
    <3>2. <<x, y>> \notin R /\ <<y, x>> \notin R
      BY <1>2, <1>3, <2>2, <3>1
    <3> QED
      BY <1>0, <3>2
  <2> HIDE DEF f
  <2> QED
    BY <2>1, <2>2 DEF Injection, IsInjective
<1>6. f \in Surjection(S, T)
  <2> HIDE DEF f, T
  <2> QED
    BY <1>4, <1>5, FS_Injection
<1>7. ASSUME NEW k \in 1..n
      PROVE  \E x \in S : Cardinality(Below(x)) = k - 1
  <2>1. k - 1 \in T
    <3> HIDE DEF n
    <3> QED
      BY <1>1
  <2>2. \E x \in S : f[x] = k - 1
    <3> HIDE DEF f, T
    <3> QED
      BY <1>6, <2>1 DEF Surjection
  <2> HIDE DEF Below
  <2> QED
    BY <2>2
<1>8. \A x \in S : Cardinality(Below(x)) \in 0..(n - 1)
  <2> HIDE DEF Below, n
  <2> QED
    BY <1>1, <1>2
<1>9. \A x, z \in S : <<x, z>> \in R => Cardinality(Below(x)) < Cardinality(Below(z))
  BY <1>3
<1> QED
  BY <1>1, <1>7, <1>8, <1>9 DEF Ranks

----------------------------------------------------------------------------
(* The bars of one aggregator.                                             *)

(* The bars of instrument i that follow moment `from' without a gap.       *)
Following(bs, i, from0) ==
    /\ bs \in Seq(Bar)
    /\ \A k \in 1..Len(bs) : bs[k].inst = i /\ bs[k].start = from0 + k * Interval

Hours(w) == w.open \in Nat /\ w.close \in Nat

LEMMA WindowHours == ASSUME NEW d \in Nat PROVE Hours(SessionWindow(d))
  BY CalendarAssumption DEF Hours, SessionWindow, At

LEMMA AlignIs ==
    ASSUME NEW t \in Int, NEW w, Hours(w)
    PROVE  Align(t, w) \in Nat
<1>1. Interval \in Nat \ {0} /\ w.open \in Nat
  BY BarsAssumption DEF Hours
<1>2. CASE t < w.open
  BY <1>1, <1>2 DEF Align
<1>3. CASE ~ (t < w.open)
  <2> DEFINE x == t - w.open
  <2>1. x \in Nat
    BY <1>1, <1>3
  <2> HIDE DEF x
  <2>2. (x \div Interval) * Interval \in Nat
    BY <1>1, <2>1
  <2> QED
    BY <1>1, <1>3, <2>2 DEF Align, x
<1> QED
  BY <1>2, <1>3

LEMMA SyntheticIs ==
    ASSUME NEW a \in Aggregator, NEW i \in Instruments, NEW s \in Nat, a.lastClose # None
    PROVE  /\ SyntheticBar(a, i, s) \in Bar
           /\ SyntheticBar(a, i, s).inst = i /\ SyntheticBar(a, i, s).start = s
<1>1. a.lastClose \in Nat
  BY DEF Aggregator
<1> QED
  BY <1>1 DEF SyntheticBar, Bar

LEMMA GapsFollow ==
    ASSUME NEW a \in Aggregator, NEW i \in Instruments, NEW s \in Nat, NEW to \in Nat,
           NEW w, Hours(w)
    PROVE  Following(GapBars(a, i, s, to, w), i, s)
<1> DEFINE end == IF to < w.close THEN to ELSE w.close
           x == end - s - 1
           n == IF end > s THEN x \div Interval ELSE 0
           bs == [k \in 1..n |-> SyntheticBar(a, i, s + k * Interval)]
<1>0. Interval \in Nat \ {0} /\ end \in Nat
  BY BarsAssumption DEF Hours
<1>1. n \in Nat
  <2> HIDE DEF end
  <2>1. CASE end > s
    <3>1. x \in Nat
      BY <1>0, <2>1
    <3> HIDE DEF x
    <3> QED
      BY <1>0, <2>1, <3>1
  <2>2. CASE ~ (end > s)
    BY <2>2
  <2> QED
    BY <2>1, <2>2
<1>2. GapBars(a, i, s, to, w) = IF FillGaps /\ a.lastClose # None THEN bs ELSE <<>>
  BY DEF GapBars
<1> HIDE DEF n
<1>3. ASSUME a.lastClose # None PROVE Following(bs, i, s)
  <2>1. ASSUME NEW k \in 1..n
        PROVE  /\ SyntheticBar(a, i, s + k * Interval) \in Bar
               /\ SyntheticBar(a, i, s + k * Interval).inst = i
               /\ SyntheticBar(a, i, s + k * Interval).start = s + k * Interval
    <3>1. k \in Nat
      BY <1>1
    <3>2. s + k * Interval \in Nat
      BY <1>0, <3>1
    <3> QED
      BY <1>3, <3>2, SyntheticIs
  <2>2. bs \in Seq(Bar) /\ Len(bs) = n
    BY <1>1, <2>1
  <2> QED
    BY <1>1, <2>1, <2>2 DEF Following
<1>4. Following(<<>>, i, s)
  BY DEF Following
<1> QED
  BY <1>2, <1>3, <1>4

(* The bar that was forming, and those that follow it.                     *)
Closed(bs, i, s) ==
    /\ bs \in Seq(Bar)
    /\ \A k \in 1..Len(bs) : bs[k].inst = i /\ bs[k].start = s + (k - 1) * Interval

LEMMA FinishIs ==
    ASSUME NEW a \in Aggregator, NEW i \in Instruments, a.start # None
    PROVE  /\ FinishBar(a) \in Aggregator
           /\ FinishedBar(a, i) \in Bar
           /\ FinishedBar(a, i).inst = i /\ FinishedBar(a, i).start = a.start
           /\ a.start \in Nat
  BY DEF Aggregator, FinishBar, FinishedBar, Bar

LEMMA ClosedIs ==
    ASSUME NEW a \in Aggregator, NEW i \in Instruments, a.start # None, NEW to \in Nat,
           NEW w, Hours(w)
    PROVE  Closed(ClosedBars(a, i, to, w), i, a.start)
<1> DEFINE b == FinishedBar(a, i)
           gaps == GapBars(FinishBar(a), i, a.start, to, w)
<1>1. /\ FinishBar(a) \in Aggregator /\ b \in Bar /\ b.inst = i
      /\ b.start = a.start /\ a.start \in Nat
  BY FinishIs
<1>2. Following(gaps, i, a.start)
  BY <1>1, GapsFollow
<1>3. ClosedBars(a, i, to, w) = <<b>> \o gaps
  BY DEF ClosedBars
<1>4. Interval \in Nat \ {0}
  BY BarsAssumption
<1> HIDE DEF b, gaps
<1>5. gaps \in Seq(Bar) /\ Len(gaps) \in Nat
  BY <1>2 DEF Following
<1>6. <<b>> \o gaps \in Seq(Bar) /\ Len(<<b>> \o gaps) = 1 + Len(gaps)
  BY <1>1, <1>5
<1>7. ASSUME NEW k \in 1..(1 + Len(gaps))
      PROVE  /\ (<<b>> \o gaps)[k].inst = i
             /\ (<<b>> \o gaps)[k].start = a.start + (k - 1) * Interval
  <2>1. CASE k = 1
    <3>1. (<<b>> \o gaps)[k] = b
      BY <1>1, <1>5, <2>1
    <3> QED
      BY <1>1, <1>4, <2>1, <3>1
  <2>2. CASE k # 1
    <3>1. k - 1 \in 1..Len(gaps) /\ (<<b>> \o gaps)[k] = gaps[k - 1]
      BY <1>1, <1>5, <2>2
    <3> QED
      BY <1>2, <3>1 DEF Following
  <2> QED
    BY <2>1, <2>2
<1> QED
  BY <1>3, <1>6, <1>7 DEF Closed

LEMMA FollowingHasStarts ==
    ASSUME NEW bs, NEW i, NEW s \in Nat, Following(bs, i, s)
    PROVE  /\ bs \in Seq(Bar)
           /\ \A k \in 1..Len(bs) : bs[k].inst = i
           /\ \A j, k \in 1..Len(bs) : j < k => bs[j].start < bs[k].start
<1>1. bs \in Seq(Bar) /\ Len(bs) \in Nat /\ Interval \in Nat \ {0}
  BY BarsAssumption DEF Following
<1>2. ASSUME NEW j \in 1..Len(bs), NEW k \in 1..Len(bs), j < k
      PROVE  bs[j].start < bs[k].start
  <2>1. j \in Nat /\ k \in Nat /\ j + 1 <= k
    BY <1>1, <1>2
  <2>2. (j + 1) * Interval <= k * Interval /\ (j + 1) * Interval = j * Interval + Interval
    BY <1>1, <2>1
  <2>3. bs[j].start = s + j * Interval /\ bs[k].start = s + k * Interval
    BY DEF Following
  <2>4. j * Interval \in Nat /\ k * Interval \in Nat
    BY <1>1, <2>1
  <2> QED
    BY <1>1, <2>2, <2>3, <2>4
<1> QED
  BY <1>1, <1>2 DEF Following

LEMMA ClosedHasStarts ==
    ASSUME NEW bs, NEW i, NEW s \in Nat, Closed(bs, i, s)
    PROVE  /\ bs \in Seq(Bar)
           /\ \A k \in 1..Len(bs) : bs[k].inst = i
           /\ \A j, k \in 1..Len(bs) : j < k => bs[j].start < bs[k].start
<1>1. bs \in Seq(Bar) /\ Len(bs) \in Nat /\ Interval \in Nat \ {0}
  BY BarsAssumption DEF Closed
<1>2. ASSUME NEW j \in 1..Len(bs), NEW k \in 1..Len(bs), j < k
      PROVE  bs[j].start < bs[k].start
  <2>1. j \in Nat /\ k \in Nat /\ j <= k - 1
    BY <1>1, <1>2
  <2>2. j * Interval <= (k - 1) * Interval /\ (j - 1) * Interval = j * Interval - Interval
    BY <1>1, <2>1
  <2>3. bs[j].start = s + (j - 1) * Interval /\ bs[k].start = s + (k - 1) * Interval
    BY DEF Closed
  <2>4. j * Interval \in Nat /\ (k - 1) * Interval \in Int
    BY <1>1, <2>1
  <2> QED
    BY <1>1, <2>2, <2>3, <2>4
<1> QED
  BY <1>1, <1>2 DEF Closed

(* The bars of one instrument, in the order of their intervals.            *)
Rising(bs, i) ==
    /\ bs \in Seq(Bar)
    /\ \A k \in 1..Len(bs) : bs[k].inst = i
    /\ \A j, k \in 1..Len(bs) : j < k => bs[j].start < bs[k].start

LEMMA EmitIs ==
    ASSUME NEW a \in Aggregator, NEW i, NEW bs, Rising(bs, i)
    PROVE  Emit(a, bs).agg \in Aggregator /\ Emit(a, bs).bars = bs
<1>1. bs \in Seq(Bar)
  BY DEF Rising
<1>2. CASE bs = <<>>
  BY <1>2 DEF Emit
<1>3. CASE bs # <<>>
  <2>1. bs[Len(bs)] \in Bar
    BY <1>1, <1>3
  <2>2. bs[Len(bs)].start \in Nat
    BY <2>1 DEF Bar
  <2> QED
    BY <1>3, <2>2 DEF Emit, Aggregator
<1> QED
  BY <1>2, <1>3

LEMMA FlushUntilIs ==
    ASSUME NEW a \in Aggregator, NEW i \in Instruments, NEW moment \in Nat,
           NEW w, Hours(w)
    PROVE  FlushUntil(a, i, moment, w).agg \in Aggregator /\ Rising(FlushUntil(a, i, moment, w).bars, i)
<1> DEFINE m == IF moment < w.close THEN moment ELSE w.close
           target == Align(m, w)
<1>1. target \in Nat
  <2>1. m \in Int
    BY DEF Hours
  <2> HIDE DEF m
  <2> QED
    BY <2>1, AlignIs
<1> HIDE DEF target
<1>2. CASE a.start # None /\ target > a.start
  <2>1. FlushUntil(a, i, moment, w) = Emit(FinishBar(a), ClosedBars(a, i, target, w))
    BY <1>2 DEF FlushUntil, target
  <2>2. a.start \in Nat /\ FinishBar(a) \in Aggregator
    BY <1>2, FinishIs
  <2>3. Rising(ClosedBars(a, i, target, w), i)
    BY <1>1, <1>2, <2>2, ClosedIs, ClosedHasStarts DEF Rising
  <2> QED
    BY <2>1, <2>2, <2>3, EmitIs
<1>3. CASE a.start = None /\ a.lastEmitted # None
  <2>1. FlushUntil(a, i, moment, w) = Emit(a, GapBars(a, i, a.lastEmitted, target, w))
    BY <1>3 DEF FlushUntil, target
  <2>2. a.lastEmitted \in Nat
    BY <1>3 DEF Aggregator
  <2>3. Rising(GapBars(a, i, a.lastEmitted, target, w), i)
    BY <1>1, <2>2, GapsFollow, FollowingHasStarts DEF Rising
  <2> QED
    BY <2>1, <2>3, EmitIs
<1>4. CASE ~ (a.start # None /\ target > a.start) /\ ~ (a.start = None /\ a.lastEmitted # None)
  <2>1. FlushUntil(a, i, moment, w) = [agg |-> a, bars |-> <<>>]
    BY <1>4 DEF FlushUntil, target
  <2> QED
    BY <2>1 DEF Rising
<1> QED
  BY <1>2, <1>3, <1>4

LEMMA DeltaVolumeIs ==
    ASSUME NEW a \in Aggregator, NEW raw \in Nat
    PROVE  DeltaVolume(a, raw) \in Nat
<1>1. VolumeMode \in {"cumulative", "incremental", "none"}
  BY BarsAssumption
<1>2. CASE VolumeMode = "none"
  BY <1>2 DEF DeltaVolume
<1>3. CASE VolumeMode = "incremental"
  BY <1>3 DEF DeltaVolume
<1>4. CASE VolumeMode = "cumulative"
  <2>1. DeltaVolume(a, raw) = IF a.lastCum = None \/ raw < a.lastCum THEN 0 ELSE raw - a.lastCum
    BY <1>4 DEF DeltaVolume
  <2>2. a.lastCum \in Nat \cup {None}
    BY DEF Aggregator
  <2> QED
    BY <2>1, <2>2 DEF None
<1> QED
  BY <1>1, <1>2, <1>3, <1>4

LEMMA StartBarIs ==
    ASSUME NEW a \in Aggregator, NEW s \in Nat, NEW p \in Nat
    PROVE  StartBar(a, s, p) \in Aggregator
  BY DEF StartBar, Aggregator

LEMMA AccumulateIs ==
    ASSUME NEW a \in Aggregator, NEW p \in Nat, NEW q \in Nat
    PROVE  Accumulate(a, p, q) \in Aggregator
<1>1. p * q \in Nat
  OBVIOUS
<1>2. a.notional + p * q \in Nat /\ a.volume + q \in Nat /\ a.ticks + 1 \in Nat
  BY <1>1 DEF Aggregator
<1>3. (IF p > a.high THEN p ELSE a.high) \in Nat /\ (IF p < a.low THEN p ELSE a.low) \in Nat
  BY DEF Aggregator
<1> DEFINE n == a.notional + p * q
<1> HIDE DEF n
<1>4. Accumulate(a, p, q) = [a EXCEPT !.high = IF p > @ THEN p ELSE @,
              !.low = IF p < @ THEN p ELSE @,
              !.close = p, !.ticks = @ + 1,
              !.notional = n, !.volume = @ + q]
  BY DEF Accumulate, n
<1> QED
  BY <1>2, <1>3, <1>4 DEF Aggregator, n

(* What add_tick leaves and gives, whatever was before and the tick.       *)
LEMMA AddTickIs ==
    ASSUME NEW a \in Aggregator, NEW t \in Tick, NEW w, Hours(w)
    PROVE  AddTick(a, t, w).agg \in Aggregator /\ Rising(AddTick(a, t, w).bars, t.inst)
<1> DEFINE target == Align(t.ts, w)
           qty    == DeltaVolume(a, t.volume)
           heard  == [a EXCEPT !.lastTick = t.ts,
                               !.lastCum = IF VolumeMode = "cumulative"
                                           THEN t.volume ELSE @]
           closed == IF a.start = None
                     THEN IF a.lastEmitted = None THEN <<>>
                          ELSE GapBars(a, t.inst, a.lastEmitted, target, w)
                     ELSE IF target > a.start
                          THEN ClosedBars(heard, t.inst, target, w)
                          ELSE <<>>
           ready  == IF a.start = None THEN StartBar(heard, target, t.price)
                     ELSE IF target > a.start
                          THEN StartBar(FinishBar(heard), target, t.price)
                          ELSE heard
<1>1. AddTick(a, t, w) = IF Accepts(a, t, w) THEN Emit(Accumulate(ready, t.price, qty), closed)
                         ELSE [agg |-> a, bars |-> <<>>]
  BY DEF AddTick
<1>2. t.inst \in Instruments /\ t.ts \in Nat /\ t.price \in Int /\ t.volume \in Nat
  BY DEF Tick
<1>3. CASE ~ Accepts(a, t, w)
  BY <1>1, <1>3 DEF Rising
<1>4. CASE Accepts(a, t, w)
  <2>1. t.price \in Nat
    BY <1>2, <1>4 DEF Accepts
  <2>2. target \in Nat
    BY <1>2, AlignIs
  <2>3. qty \in Nat
    BY <1>2, DeltaVolumeIs
  <2>4. heard \in Aggregator /\ heard.start = a.start
    BY <1>2 DEF Aggregator
  <2> HIDE DEF target, qty, heard
  <2>5. Rising(closed, t.inst)
    <3>1. Rising(<<>>, t.inst)
      BY DEF Rising
    <3>2. ASSUME a.lastEmitted # None
          PROVE  Rising(GapBars(a, t.inst, a.lastEmitted, target, w), t.inst)
      <4>1. a.lastEmitted \in Nat
        BY <3>2 DEF Aggregator
      <4> QED
        BY <1>2, <2>2, <4>1, GapsFollow, FollowingHasStarts DEF Rising
    <3>3. ASSUME a.start # None
          PROVE  Rising(ClosedBars(heard, t.inst, target, w), t.inst)
      <4>1. heard.start \in Nat
        BY <2>4, <3>3 DEF Aggregator
      <4> QED
        BY <1>2, <2>2, <2>4, <3>3, <4>1, ClosedIs, ClosedHasStarts DEF Rising
    <3> QED
      BY <3>1, <3>2, <3>3
  <2>6. ready \in Aggregator
    <3>1. a.start # None => FinishBar(heard) \in Aggregator
      BY <1>2, <2>4, FinishIs
    <3> QED
      BY <2>1, <2>2, <2>4, <3>1, StartBarIs
  <2> HIDE DEF ready, closed
  <2>7. Accumulate(ready, t.price, qty) \in Aggregator
    BY <2>1, <2>3, <2>6, AccumulateIs
  <2> QED
    BY <1>1, <1>4, <2>5, <2>7, EmitIs
<1> QED
  BY <1>3, <1>4

----------------------------------------------------------------------------
(* The bars of all.                                                        *)

Aggregators == [Instruments -> Aggregator]

(* What ticks and flushes leave and give.                                  *)
Made == [aggs : Aggregators, bars : Seq(Bar)]

(* One tick of TakeTicks.                                                  *)
OneTick(acc, t, w) ==
    LET r == AddTick(acc.aggs[t.inst], t, w)
    IN  [aggs |-> [acc.aggs EXCEPT ![t.inst] = r.agg], bars |-> acc.bars \o r.bars]

LEMMA OneTickIs ==
    ASSUME NEW acc \in Made, NEW t \in Tick, NEW w, Hours(w)
    PROVE  OneTick(acc, t, w) \in Made
<1>1. acc.aggs \in Aggregators /\ acc.bars \in Seq(Bar) /\ t.inst \in Instruments
  BY DEF Made, Tick
<1>2. acc.aggs[t.inst] \in Aggregator
  BY <1>1 DEF Aggregators
<1> DEFINE r == AddTick(acc.aggs[t.inst], t, w)
<1>3. r.agg \in Aggregator /\ r.bars \in Seq(Bar)
  BY <1>2, AddTickIs DEF Rising
<1> HIDE DEF r
<1>4. OneTick(acc, t, w) = [aggs |-> [acc.aggs EXCEPT ![t.inst] = r.agg], bars |-> acc.bars \o r.bars]
  BY DEF OneTick, r
<1>5. acc.bars \o r.bars \in Seq(Bar)
  BY <1>1, <1>3
<1>6. [acc.aggs EXCEPT ![t.inst] = r.agg] \in Aggregators
  BY <1>1, <1>3 DEF Aggregators
<1> QED
  BY <1>4, <1>5, <1>6 DEF Made

(* What one tick keeps, the ticks of a read keep.                           *)
LEMMA TakeTicksIn ==
    ASSUME NEW as, NEW ts \in Seq(Tick), NEW w, NEW V,
           [aggs |-> as, bars |-> <<>>] \in V,
           \A v \in V, t \in Tick : OneTick(v, t, w) \in V
    PROVE  TakeTicks(as, ts, w) \in V
<1> DEFINE n == Len(ts)
           base == [aggs |-> as, bars |-> <<>>]
           F == [u \in (1..n) \X V |-> OneTick(u[2], ts[u[1]], w)]
           Asked(h) == h = [s \in SUBSET (1..n) |->
                               IF s = {} THEN base ELSE OneTick(h[s \ {Max(s)}], ts[Max(s)], w)]
<1>1. n \in Nat /\ DOMAIN ts = 1..n
  OBVIOUS
<1>2. TakeTicks(as, ts, w) = (CHOOSE h : Asked(h))[1..n]
  BY <1>1 DEF TakeTicks, FoldLeft, MapThenFoldSet, OneTick
<1>3. \A k \in 1..n, v \in V : F[<<k, v>>] \in V
  <2> SUFFICES ASSUME NEW k \in 1..n, NEW v \in V PROVE F[<<k, v>>] \in V
    OBVIOUS
  <2>1. ts[k] \in Tick
    OBVIOUS
  <2>2. F[<<k, v>>] = OneTick(v, ts[k], w)
    OBVIOUS
  <2> QED
    BY <2>1, <2>2
<1>4. IsFiniteSet(1..n) /\ 1..n \in SUBSET Int
  BY <1>1, FS_Interval
<1> HIDE DEF n
<1>5. ASSUME NEW s \in SUBSET (1..n), s # {} PROVE Max(s) \in s /\ s \ {Max(s)} \in SUBSET (1..n)
  <2>1. IsFiniteSet(s) /\ s \in SUBSET Int
    BY <1>4, FS_Subset
  <2> QED
    BY <1>5, <2>1, GreatestIn
<1>6. base \in V
  OBVIOUS
<1>7. \E h : Asked(h) /\ \A s \in SUBSET (1..n) : h[s] \in V
  <2> HIDE DEF F, base
  <2>1. HasLeftTable(n, V, base, F)
    BY <1>1, <1>3, <1>6, LeftTable
  <2>2. PICK h : /\ h = [s \in SUBSET (1..n) |->
                           IF s = {} THEN base ELSE F[<<Max(s), h[s \ {Max(s)}]>>]]
                 /\ \A s \in SUBSET (1..n) : h[s] \in V
    BY <2>1 DEF HasLeftTable
  <2>3. ASSUME NEW s \in SUBSET (1..n), s # {}
        PROVE  F[<<Max(s), h[s \ {Max(s)}]>>] = OneTick(h[s \ {Max(s)}], ts[Max(s)], w)
    <3>1. Max(s) \in 1..n /\ h[s \ {Max(s)}] \in V
      BY <1>5, <2>2, <2>3
    <3> QED
      BY <3>1 DEF F
  <2>4. Asked(h)
    BY <2>2, <2>3
  <2> QED
    BY <2>2, <2>4
<1> DEFINE g == CHOOSE h : Asked(h)
<1>8. Asked(g)
  BY <1>7
<1> DEFINE K == {k \in Nat : k <= n => g[1..k] \in V}
<1> HIDE DEF g, base
<1>9. ASSUME NEW k \in Nat, \A m \in Nat : m < k => m \in K
       PROVE  k \in K
  <2> SUFFICES ASSUME k <= n PROVE g[1..k] \in V
    OBVIOUS
  <2>1. CASE k = 0
    <3>1. 1..k = {} /\ g[{}] = base
      BY <1>8, <2>1
    <3> QED
      BY <1>6, <3>1
  <2>2. CASE k # 0
    <3>1. k - 1 \in Nat /\ k - 1 < k /\ k - 1 <= n /\ k \in 1..n
      BY <1>1, <2>2
    <3>2. g[1..(k - 1)] \in V
      BY <1>9, <3>1
    <3>3. Max(1..k) = k /\ (1..k) \ {k} = 1..(k - 1)
      BY <2>2, LastPlace
    <3>4. 1..k \in SUBSET (1..n) /\ 1..k # {}
      <4>1. n \in Nat /\ k \in Nat /\ k <= n /\ k # 0
        BY <1>1, <2>2
      <4>2. 1 \in 1..k /\ \A x \in 1..k : x \in 1..n
        BY <4>1
      <4> QED
        BY <4>2
    <3>5. g[1..k] = OneTick(g[1..(k - 1)], ts[k], w)
      BY <1>8, <3>3, <3>4
    <3>6. ts[k] \in Tick
      BY <3>1 DEF n
    <3> QED
      BY <3>2, <3>5, <3>6
  <2> QED
    BY <2>1, <2>2
<1>10. K = Nat
  <2> HIDE DEF K
  <2>1. K \in SUBSET Nat
    BY DEF K
  <2> QED
    BY <1>9, <2>1, Ascent
<1>11. g[1..n] \in V
  BY <1>1, <1>10
<1> QED
  BY <1>2, <1>11 DEF g

LEMMA TakeTicksIs ==
    ASSUME NEW as \in Aggregators, NEW ts \in Seq(Tick), NEW w, Hours(w)
    PROVE  TakeTicks(as, ts, w) \in Made
<1>1. <<>> \in Seq(Bar)
  OBVIOUS
<1>2. [aggs |-> as, bars |-> <<>>] \in Made
  BY <1>1 DEF Made
<1> QED
  BY <1>2, OneTickIs, TakeTicksIn

(* A flush of several instruments gives the bars of each, once, in the     *)
(* order of start and instrument.                                          *)
LEMMA SameStartSameBar ==
    ASSUME NEW bs, NEW i, Rising(bs, i), NEW b \in ToSet(bs), NEW c \in ToSet(bs),
           b.start = c.start
    PROVE  b = c
<1>1. bs \in Seq(Bar) /\ DOMAIN bs = 1..Len(bs) /\ Len(bs) \in Nat
  BY DEF Rising
<1>2. PICK j \in 1..Len(bs) : b = bs[j]
  BY <1>1 DEF ToSet
<1>3. PICK k \in 1..Len(bs) : c = bs[k]
  BY <1>1 DEF ToSet
<1>4. bs[j].start \in Nat /\ bs[k].start \in Nat
  <2>1. bs[j] \in Bar /\ bs[k] \in Bar
    BY <1>1
  <2> QED
    BY <2>1 DEF Bar
<1>5. j = k
  <2>1. ~ (j < k) /\ ~ (k < j)
    BY <1>2, <1>3, <1>4 DEF Rising
  <2>2. j \in Nat /\ k \in Nat
    BY <1>1
  <2> QED
    BY <2>1, <2>2
<1> QED
  BY <1>2, <1>3, <1>5

LEMMA OrderedIs ==
    ASSUME NEW S \in SUBSET Bar, IsFiniteSet(S),
           \A b, c \in S : b.inst = c.inst /\ b.start = c.start => b = c
    PROVE  LET o == Ordered(S, Earlier)
           IN  /\ o \in Seq(S)
               /\ \A x \in S : \E k \in 1..Len(o) : o[k] = x
               /\ \A k, l \in 1..Len(o) : k < l => Earlier(o[k], o[l])
<1> DEFINE R == {p \in S \X S : Earlier(p[1], p[2])}
<1>0. \A b \in S : b.inst \in Nat /\ b.start \in Nat
  BY BarBuilderAssumption DEF Bar
<1>1. \A b, c \in S : <<b, c>> \in R <=> Earlier(b, c)
  OBVIOUS
<1> HIDE DEF R
<1>2. ASSUME NEW x \in S, NEW y \in S
      PROVE  x = y \/ <<x, y>> \in R \/ <<y, x>> \in R
  <2>1. /\ x.inst \in Nat /\ x.start \in Nat /\ y.inst \in Nat /\ y.start \in Nat
        /\ (x.inst = y.inst /\ x.start = y.start => x = y)
    BY <1>0
  <2>2. x = y \/ Earlier(x, y) \/ Earlier(y, x)
    BY <2>1 DEF Earlier
  <2> QED
    BY <1>1, <2>2
<1>3. \A x \in S : <<x, x>> \notin R
  BY <1>0, <1>1 DEF Earlier
<1>4. \A x, y, z \in S : <<x, y>> \in R /\ <<y, z>> \in R => <<x, z>> \in R
  BY <1>0, <1>1 DEF Earlier
<1> DEFINE n == Cardinality(S)
           rank(x) == Cardinality({y \in S : Earlier(y, x)})
           E(k) == CHOOSE x \in S : rank(x) = k - 1
           o == Ordered(S, Earlier)
<1> HIDE DEF n, E, o
<1>5. \A x \in S : {y \in S : <<y, x>> \in R} = {y \in S : Earlier(y, x)}
  BY <1>1
<1>6. /\ n \in Nat
      /\ \A k \in 1..n : \E x \in S : rank(x) = k - 1
      /\ \A x \in S : rank(x) \in 0..(n - 1)
      /\ \A x, z \in S : Earlier(x, z) => rank(x) < rank(z)
  <2>1. StrictOrder(S, R)
    <3>1. \A x, y \in S : x = y \/ <<x, y>> \in R \/ <<y, x>> \in R
      BY <1>2
    <3> QED
      BY <1>3, <1>4, <3>1 DEF StrictOrder
  <2>2. Ranks(S, R)
    BY <2>1, Ranked
  <2> QED
    BY <1>1, <1>5, <2>2 DEF n, Ranks
<1>7. o = [k \in 1..n |-> E(k)]
  BY DEF Ordered, o, E, n
<1> HIDE DEF rank
<1>8. ASSUME NEW k \in 1..n PROVE E(k) \in S /\ rank(E(k)) = k - 1
  BY <1>6 DEF E
<1>9. o \in Seq(S) /\ Len(o) = n /\ \A k \in 1..n : o[k] \in S /\ rank(o[k]) = k - 1
  <2> HIDE DEF E
  <2> QED
    BY <1>6, <1>7, <1>8
<1>10. ASSUME NEW x \in S PROVE \E k \in 1..Len(o) : o[k] = x
  <2> DEFINE k == rank(x) + 1
  <2>1. k \in 1..n /\ rank(x) \in Nat /\ k - 1 = rank(x)
    BY <1>6
  <2> HIDE DEF k
  <2>2. o[k] \in S /\ rank(o[k]) = rank(x)
    BY <1>9, <2>1
  <2>3. ~ Earlier(o[k], x) /\ ~ Earlier(x, o[k])
    BY <1>6, <2>1, <2>2
  <2>4. o[k] = x
    BY <1>1, <1>2, <2>2, <2>3
  <2> QED
    BY <1>9, <2>1, <2>4
<1>11. ASSUME NEW k \in 1..Len(o), NEW l \in 1..Len(o), k < l PROVE Earlier(o[k], o[l])
  <2>1. /\ o[k] \in S /\ o[l] \in S /\ rank(o[k]) = k - 1 /\ rank(o[l]) = l - 1
        /\ k \in Nat /\ l \in Nat
    BY <1>6, <1>9
  <2>2. ~ Earlier(o[l], o[k]) /\ o[k] # o[l]
    BY <1>6, <1>11, <2>1
  <2> QED
    BY <1>1, <1>2, <2>1, <2>2
<1> QED
  BY <1>9, <1>10, <1>11 DEF o

LEMMA FlushAllIs ==
    ASSUME NEW as \in Aggregators, NEW t \in Nat, NEW w, Hours(w)
    PROVE  LET all == FlushAll(as, t, w)
           IN  /\ all \in Made
               /\ \A i \in Instruments :
                     LET own == FlushUntil(as[i], i, t, w)
                     IN  /\ all.aggs[i] = own.agg
                         /\ \A k \in 1..Len(own.bars) :
                               \E l \in 1..Len(all.bars) : all.bars[l] = own.bars[k]
<1> DEFINE done == [i \in Instruments |-> FlushUntil(as[i], i, t, w)]
           S == UNION {ToSet(done[i].bars) : i \in Instruments}
<1>1. ASSUME NEW i \in Instruments
      PROVE  done[i].agg \in Aggregator /\ Rising(done[i].bars, i)
  <2>1. as[i] \in Aggregator
    BY DEF Aggregators
  <2>2. done[i] = FlushUntil(as[i], i, t, w)
    OBVIOUS
  <2> HIDE DEF done
  <2> QED
    BY <2>1, <2>2, FlushUntilIs
<1>2. FlushAll(as, t, w) = [aggs |-> [i \in Instruments |-> done[i].agg],
                            bars |-> Ordered(S, Earlier)]
  BY DEF FlushAll
<1> HIDE DEF done
<1>3. ASSUME NEW i \in Instruments
      PROVE  /\ ToSet(done[i].bars) \in SUBSET Bar /\ IsFiniteSet(ToSet(done[i].bars))
             /\ \A b \in ToSet(done[i].bars) : b.inst = i
  <2> DEFINE bs == done[i].bars
             f == [k \in 1..Len(bs) |-> bs[k]]
  <2>1. bs \in Seq(Bar) /\ Len(bs) \in Nat /\ DOMAIN bs = 1..Len(bs)
    BY <1>1 DEF Rising
  <2>2. ToSet(bs) = {bs[k] : k \in 1..Len(bs)}
    BY <2>1 DEF ToSet
  <2>3. ToSet(bs) \in SUBSET Bar /\ \A b \in ToSet(bs) : b.inst = i
    BY <1>1, <2>1, <2>2 DEF Rising
  <2>4. f \in Surjection(1..Len(bs), ToSet(bs))
    <3> HIDE DEF bs
    <3>1. f \in [1..Len(bs) -> ToSet(bs)] /\ \A b \in ToSet(bs) : \E k \in 1..Len(bs) : f[k] = b
      BY <2>2
    <3> QED
      BY <3>1 DEF Surjection
  <2>5. IsFiniteSet(1..Len(bs))
    <3> HIDE DEF bs
    <3> QED
      BY <2>1, FS_Interval
  <2>6. IsFiniteSet(ToSet(bs))
    <3> HIDE DEF bs, f
    <3> QED
      BY <2>4, <2>5, FS_Surjection
  <2> QED
    BY <2>3, <2>6
<1>4. IsFiniteSet(S)
  <2> DEFINE T == {ToSet(done[i].bars) : i \in Instruments}
             f == [i \in Instruments |-> ToSet(done[i].bars)]
  <2>1. f \in Surjection(Instruments, T)
    <3>1. f \in [Instruments -> T] /\ \A s \in T : \E i \in Instruments : f[i] = s
      OBVIOUS
    <3> HIDE DEF f, T
    <3> QED
      BY <3>1 DEF Surjection
  <2>2. IsFiniteSet(Instruments)
    BY BarsAssumption
  <2>3. \A s \in T : IsFiniteSet(s)
    BY <1>3
  <2> HIDE DEF f, T
  <2>4. IsFiniteSet(T)
    BY <2>1, <2>2, FS_Surjection
  <2>5. IsFiniteSet(UNION T)
    BY <2>3, <2>4, FS_UNION
  <2> QED
    BY <2>5 DEF T
<1>5. S \in SUBSET Bar
  BY <1>3
<1>6. ASSUME NEW b \in S, NEW c \in S, b.inst = c.inst, b.start = c.start
      PROVE  b = c
  <2>1. PICK i \in Instruments : b \in ToSet(done[i].bars)
    OBVIOUS
  <2>2. PICK j \in Instruments : c \in ToSet(done[j].bars)
    OBVIOUS
  <2>3. i = j
    BY <1>3, <1>6, <2>1, <2>2
  <2> QED
    BY <1>1, <1>6, <2>1, <2>2, <2>3, SameStartSameBar
<1> HIDE DEF S
<1>7. /\ Ordered(S, Earlier) \in Seq(S)
      /\ \A b \in S : \E l \in 1..Len(Ordered(S, Earlier)) : Ordered(S, Earlier)[l] = b
  BY <1>4, <1>5, <1>6, OrderedIs
<1>8. Ordered(S, Earlier) \in Seq(Bar)
  <2> DEFINE o == Ordered(S, Earlier)
  <2>1. o \in Seq(S)
    BY <1>7
  <2> HIDE DEF o
  <2>2. o \in Seq(Bar)
    BY <1>5, <2>1
  <2> QED
    BY <2>2 DEF o
<1>9. [i \in Instruments |-> done[i].agg] \in Aggregators
  BY <1>1 DEF Aggregators
<1>10. ASSUME NEW i \in Instruments
       PROVE  /\ done[i] = FlushUntil(as[i], i, t, w)
              /\ \A k \in 1..Len(done[i].bars) : done[i].bars[k] \in S
  <2>1. done[i] = FlushUntil(as[i], i, t, w)
    BY DEF done
  <2>2. DOMAIN done[i].bars = 1..Len(done[i].bars)
    BY <1>1 DEF Rising
  <2>3. \A k \in 1..Len(done[i].bars) : done[i].bars[k] \in ToSet(done[i].bars)
    BY <2>2 DEF ToSet
  <2> QED
    BY <2>1, <2>3 DEF S
<1>11. /\ FlushAll(as, t, w).bars = Ordered(S, Earlier)
       /\ \A i \in Instruments : FlushAll(as, t, w).aggs[i] = done[i].agg
  BY <1>2
<1>12. FlushAll(as, t, w) \in Made
  BY <1>2, <1>8, <1>9 DEF Made
<1> DEFINE all == FlushAll(as, t, w)
<1> HIDE DEF all
<1>13. ASSUME NEW i \in Instruments
       PROVE  LET own == FlushUntil(as[i], i, t, w)
              IN  /\ all.aggs[i] = own.agg
                  /\ \A k \in 1..Len(own.bars) :
                        \E l \in 1..Len(all.bars) : all.bars[l] = own.bars[k]
  <2> DEFINE own == FlushUntil(as[i], i, t, w)
  <2>1. done[i] = own /\ all.aggs[i] = done[i].agg /\ all.bars = Ordered(S, Earlier)
    BY <1>10, <1>11 DEF all
  <2>2. \A k \in 1..Len(own.bars) : own.bars[k] \in S
    BY <1>10, <2>1
  <2> HIDE DEF own
  <2>3. \A k \in 1..Len(own.bars) : \E l \in 1..Len(all.bars) : all.bars[l] = own.bars[k]
    BY <1>7, <2>1, <2>2
  <2> QED
    BY <2>1, <2>3 DEF own
<1> QED
  BY <1>12, <1>13 DEF all

LEMMA FlushToLastTickIs ==
    ASSUME NEW as \in Aggregators, NEW d \in Nat \cup {None}
    PROVE  FlushToLastTick(as, d) \in Made
<1> DEFINE seen == {as[i].lastTick : i \in Instruments} \ {None}
<1>1. CASE d = None \/ seen = {}
  <2>1. <<>> \in Seq(Bar)
    OBVIOUS
  <2>2. FlushToLastTick(as, d) = [aggs |-> as, bars |-> <<>>]
    BY <1>1 DEF FlushToLastTick
  <2>3. [aggs |-> as, bars |-> <<>>] \in Made
    BY <2>1 DEF Made
  <2> QED
    BY <2>2, <2>3
<1>2. CASE d # None /\ seen # {}
  <2>1. \A i \in Instruments : as[i].lastTick \in Nat \cup {None}
    BY DEF Aggregators, Aggregator
  <2>2. seen \in SUBSET Nat
    BY <2>1
  <2>3. IsFiniteSet(seen)
    <3> DEFINE T == {as[i].lastTick : i \in Instruments}
               f == [i \in Instruments |-> as[i].lastTick]
    <3>1. f \in [Instruments -> T] /\ \A x \in T : \E i \in Instruments : f[i] = x
      OBVIOUS
    <3>2. seen \in SUBSET T /\ IsFiniteSet(Instruments)
      BY BarsAssumption
    <3> HIDE DEF f, T, seen
    <3>3. IsFiniteSet(T)
      BY <3>1, <3>2, FS_Surjection DEF Surjection
    <3> QED
      BY <3>2, <3>3, FS_Subset
  <2>4. FlushToLastTick(as, d) = FlushAll(as, Max(seen), SessionWindow(d))
    BY <1>2 DEF FlushToLastTick
  <2> HIDE DEF seen
  <2>5. Max(seen) \in seen
    <3>1. seen \in SUBSET Int
      BY <2>2
    <3> QED
      BY <1>2, <2>3, <3>1, GreatestIn
  <2> QED
    BY <1>2, <2>2, <2>4, <2>5, FlushAllIs, WindowHours
<1> QED
  BY <1>1, <1>2

----------------------------------------------------------------------------
(* The builder.                                                            *)

BuilderTypes ==
    /\ BarTypeOK
    /\ loop \in {"wait", "close"} => session # None

(* What is neither buffered nor gone is in the archive, and older than     *)
(* what is buffered.                                                       *)
Saved ==
    /\ NothingUnsaved
    /\ \A n \in 1..Len(bars.log) \ (gone \cup buffer), m \in buffer : n < m

BuilderInv == BuilderTypes /\ Saved

LEMMA BarsIsGroup ==
    ASSUME BarTypeOK
    PROVE  bars \in Group(Published) /\ Len(bars.log) \in Nat
<1>1. bars \in Group(Published)
  BY DEF BarTypeOK, Group
<1> QED
  BY <1>1, GroupTimes

LEMMA PublishedIs ==
    ASSUME BarTypeOK, NEW bs \in Seq(Bar)
    PROVE  /\ WithBarsOf(bars, bs) \in Group(Published)
           /\ Len(WithBarsOf(bars, bs).log) = Len(bars.log) + Len(bs)
           /\ \A i \in 1..Len(bars.log) : WithBarsOf(bars, bs).log[i] = bars.log[i]
<1> DEFINE es == [k \in 1..Len(bs) |-> [bar |-> bs[k], since |-> since]]
<1>1. Len(bs) \in Nat /\ since \in Nat /\ \A k \in 1..Len(bs) : bs[k] \in Bar
  BY DEF BarTypeOK
<1>2. \A k \in 1..Len(bs) : [bar |-> bs[k], since |-> since] \in Published
  BY <1>1 DEF Published
<1>3. es \in Seq(Published) /\ Len(es) = Len(bs)
  BY <1>1, <1>2
<1>4. WithBarsOf(bars, bs) = XAddAll(bars, es)
  BY DEF WithBarsOf
<1> HIDE DEF es
<1> QED
  BY <1>3, <1>4, BarsIsGroup, XAddAllGroup

(* What is written to a partition.                                         *)
LEMMA MergedIs ==
    ASSUME NEW log, NEW S \in SUBSET Nat, IsFiniteSet(S)
    PROVE  LET key(n) == <<log[n].bar.inst, log[n].bar.start>>
               written == Merged(log, S)
           IN  /\ \A n \in S : /\ key(n) \in DOMAIN written
                               /\ written[key(n)] \in S /\ written[key(n)] >= n
               /\ \A k \in DOMAIN archive :
                     /\ k \in DOMAIN written
                     /\ written[k] = archive[k] \/ written[k] \in S
<1> DEFINE key(n) == <<log[n].bar.inst, log[n].bar.start>>
           keys == {key(n) : n \in S}
           Of(k) == {n \in S : key(n) = k}
           written == [k \in keys \cup DOMAIN archive |-> IF k \in keys THEN Max(Of(k)) ELSE archive[k]]
<1>1. Merged(log, S) = written
  BY DEF Merged
<1>2. ASSUME NEW k \in keys
      PROVE  Max(Of(k)) \in S /\ \A n \in Of(k) : Max(Of(k)) >= n
  <2>1. Of(k) \in SUBSET S /\ Of(k) # {}
    OBVIOUS
  <2> HIDE DEF Of
  <2>2. IsFiniteSet(Of(k)) /\ Of(k) \in SUBSET Int
    <3>1. S \in SUBSET Int
      OBVIOUS
    <3>2. Of(k) \in SUBSET Int
      BY <2>1, <3>1
    <3> QED
      BY <2>1, <3>2, FS_Subset
  <2>3. Max(Of(k)) \in Of(k) /\ \A n \in Of(k) : n <= Max(Of(k))
    BY <2>1, <2>2, GreatestIn
  <2>4. \A n \in Of(k) : n \in Nat
    BY <2>1
  <2> QED
    BY <2>1, <2>3, <2>4
<1>3. \A k \in keys \cup DOMAIN archive :
          written[k] = IF k \in keys THEN Max(Of(k)) ELSE archive[k]
  OBVIOUS
<1>4. DOMAIN written = keys \cup DOMAIN archive
  OBVIOUS
<1>5. ASSUME NEW n \in S
      PROVE  key(n) \in keys /\ n \in Of(key(n))
  OBVIOUS
<1> HIDE DEF written, Of
<1>6. ASSUME NEW n \in S
      PROVE  /\ key(n) \in DOMAIN written
             /\ written[key(n)] \in S /\ written[key(n)] >= n
  <2>1. key(n) \in keys /\ n \in Of(key(n))
    BY <1>5
  <2> HIDE DEF keys, key
  <2> QED
    BY <1>2, <1>3, <1>4, <2>1
<1>7. ASSUME NEW k \in DOMAIN archive
      PROVE  /\ k \in DOMAIN written
             /\ written[k] = archive[k] \/ written[k] \in S
  <2> HIDE DEF keys
  <2> QED
    BY <1>2, <1>3, <1>4
<1> QED
  BY <1>1, <1>6, <1>7

(* Bars that are published are buffered, and saved when the buffer is.     *)
LEMMA HandleBarsSaves ==
    ASSUME BarTypeOK, Saved, NEW bs \in Seq(Bar), NEW persist \in BOOLEAN,
           HandleBars(bs, persist)
    PROVE  /\ bars' \in Group(Published) /\ buffer' \subseteq 1..Len(bars'.log)
           /\ gone' \subseteq 1..Len(bars'.log) /\ Saved'
<1> DEFINE old == Len(bars.log)
           new == Len(bars'.log)
           buffered == buffer \cup old + 1 .. old + Len(bs)
<1>1. /\ bars' = WithBarsOf(bars, bs) /\ gone' = gone
      /\ buffer' = IF persist THEN {} ELSE buffered
      /\ archive' = IF persist THEN Merged(bars'.log, buffered) ELSE archive
  BY DEF HandleBars
<1>2. /\ bars' \in Group(Published) /\ new = old + Len(bs)
      /\ \A i \in 1..old : bars'.log[i] = bars.log[i]
  BY <1>1, PublishedIs
<1>3. /\ old \in Nat /\ Len(bs) \in Nat /\ new \in Nat
      /\ buffer \subseteq 1..old /\ gone \subseteq 1..old
  BY <1>2, BarsIsGroup DEF BarTypeOK
<1> HIDE DEF old, new
<1>4. buffered \subseteq 1..new
  <2> SUFFICES ASSUME NEW m \in buffered PROVE m \in 1..new
    OBVIOUS
  <2>1. new = old + Len(bs) /\ old \in Nat /\ Len(bs) \in Nat
    BY <1>2, <1>3
  <2>2. CASE m \in buffer
    <3>1. m \in 1..old
      BY <1>3, <2>2
    <3> QED
      BY <2>1, <3>1
  <2>3. CASE m \in old + 1 .. old + Len(bs)
    BY <2>1, <2>3
  <2> QED
    BY <2>2, <2>3
<1>5. IsFiniteSet(buffered) /\ buffered \in SUBSET Nat
  <2>1. IsFiniteSet(1..new)
    BY <1>3, FS_Interval
  <2>2. buffered \in SUBSET (1..new)
    BY <1>4
  <2> HIDE DEF buffered
  <2>3. \A x \in 1..new : x \in Nat
    BY <1>3
  <2> QED
    BY <2>1, <2>2, <2>3, FS_Subset
<1>6. ASSUME NEW n \in 1..new, n \notin gone, n \notin buffered
      PROVE  /\ n \in 1..old /\ n \notin buffer
             /\ KeyOf(n)' = KeyOf(n)
             /\ KeyOf(n) \in DOMAIN archive /\ archive[KeyOf(n)] >= n
             /\ \A m \in buffered : n < m
  <2>1. n \in 1..old /\ n \notin buffer
    BY <1>2, <1>3, <1>6
  <2>2. n \in 1..Len(bars.log) \ (gone \cup buffer)
    BY <1>6, <2>1 DEF old
  <2>3. KeyOf(n)' = KeyOf(n)
    BY <1>2, <2>1 DEF KeyOf
  <2>4. KeyOf(n) \in DOMAIN archive /\ archive[KeyOf(n)] >= n
    BY <2>2 DEF Saved, NothingUnsaved
  <2>5. \A m \in buffer : n < m
    BY <2>2 DEF Saved
  <2>6. \A m \in old + 1 .. old + Len(bs) : n < m
    BY <1>3, <2>1
  <2> QED
    BY <2>1, <2>3, <2>4, <2>5, <2>6
<1>7. \A n \in 1..new : KeyOf(n)' = <<bars'.log[n].bar.inst, bars'.log[n].bar.start>>
  BY DEF KeyOf
<1> HIDE DEF buffered
<1>8. ASSUME ~ persist
      PROVE  buffer' \subseteq 1..new /\ Saved'
  <2>1. buffer' = buffered /\ archive' = archive
    BY <1>1, <1>8
  <2>2. NothingUnsaved'
    <3> SUFFICES ASSUME NEW n \in 1..new, n \notin gone, n \notin buffered
                 PROVE  KeyOf(n)' \in DOMAIN archive /\ archive[KeyOf(n)'] >= n
      BY <1>1, <2>1 DEF NothingUnsaved, new
    <3> QED
      BY <1>6
  <2>3. ASSUME NEW n \in 1..new, n \notin gone, n \notin buffered, NEW m \in buffered
        PROVE  n < m
    BY <1>6, <2>3
  <2>4. Saved'
    BY <1>1, <2>1, <2>2, <2>3 DEF Saved, new
  <2> QED
    BY <1>4, <2>1, <2>4
<1>9. ASSUME persist
      PROVE  buffer' \subseteq 1..new /\ Saved'
  <2> DEFINE written == Merged(bars'.log, buffered)
  <2>1. buffer' = {} /\ archive' = written
    BY <1>1, <1>9
  <2>2. /\ \A n \in buffered : /\ KeyOf(n)' \in DOMAIN written
                               /\ written[KeyOf(n)'] \in buffered /\ written[KeyOf(n)'] >= n
        /\ \A k \in DOMAIN archive :
              /\ k \in DOMAIN written
              /\ written[k] = archive[k] \/ written[k] \in buffered
    <3>1. \A n \in buffered :
              KeyOf(n)' = <<bars'.log[n].bar.inst, bars'.log[n].bar.start>>
      BY DEF KeyOf
    <3> QED
      BY <1>5, <3>1, MergedIs
  <2> HIDE DEF written
  <2>3. ASSUME NEW n \in 1..new, n \notin gone
        PROVE  KeyOf(n)' \in DOMAIN written /\ written[KeyOf(n)'] >= n
    <3>1. CASE n \in buffered
      BY <2>2, <3>1
    <3>2. CASE n \notin buffered
      <4>1. /\ KeyOf(n)' = KeyOf(n) /\ KeyOf(n) \in DOMAIN archive
            /\ archive[KeyOf(n)] >= n /\ \A m \in buffered : n < m
        BY <1>6, <2>3, <3>2
      <4>2. \A m \in buffered : m >= n
        BY <1>3, <1>5, <4>1
      <4> QED
        BY <2>2, <4>1, <4>2
    <3> QED
      BY <3>1, <3>2
  <2>4. NothingUnsaved'
    <3> SUFFICES ASSUME NEW n \in 1..new, n \notin gone
                 PROVE  KeyOf(n)' \in DOMAIN written /\ written[KeyOf(n)'] >= n
      BY <1>1, <2>1 DEF NothingUnsaved, new
    <3> QED
      BY <2>3
  <2>5. Saved'
    BY <2>1, <2>4 DEF Saved
  <2> QED
    BY <2>1, <2>5
<1> QED
  BY <1>1, <1>2, <1>3, <1>8, <1>9 DEF new

LEMMA TimeIs ==
    ASSUME BarTypeOK
    PROVE  now \in Nat /\ DateOf(now) \in Nat /\ Len(ticks) \in Nat
<1>1. now \in Nat /\ Len(ticks) \in Nat
  BY BarBuilderAssumption DEF BarTypeOK
<1>2. DayLength \in Nat \ {0}
  BY CalendarAssumption
<1> QED
  BY <1>1, <1>2 DEF DateOf

LEMMA NewTicksAre ==
    ASSUME BarTypeOK
    PROVE  /\ NewTicks \in Seq(Tick) /\ Len(NewTicks) \in Nat
           /\ from + Len(NewTicks) \in 0..Len(ticks)
<1> DEFINE to == IF from + ReadCount < Len(ticks) THEN from + ReadCount ELSE Len(ticks)
<1>1. /\ Len(ticks) \in Nat /\ from \in Nat /\ from <= Len(ticks) /\ ReadCount \in Nat
      /\ ticks \in Seq(Tick)
  BY TimeIs, BarBuilderAssumption DEF BarTypeOK
<1>2. to \in Nat /\ from <= to /\ to <= Len(ticks)
  BY <1>1
<1>3. NewTicks = SubSeq(ticks, from + 1, to)
  BY DEF NewTicks
<1> HIDE DEF to
<1>4. \A k \in from + 1 .. to : k \in 1..Len(ticks)
  BY <1>1, <1>2
<1>5. SubSeq(ticks, from + 1, to) \in Seq(Tick) /\ Len(SubSeq(ticks, from + 1, to)) = to - from
  BY <1>1, <1>2, <1>4
<1> QED
  BY <1>1, <1>2, <1>3, <1>5

LEMMA MadeBars ==
    ASSUME BuilderTypes
    PROVE  /\ FlushToLastTick(aggs, session) \in Made
           /\ loop = "wait" => Taken \in Made
           /\ loop = "close" => Elapsed \in Made
<1>1. /\ aggs \in Aggregators /\ session \in Nat \cup {None}
      /\ loop \in {"wait", "close"} => session \in Nat
  BY DEF BuilderTypes, BarTypeOK, Aggregators
<1>2. BarTypeOK
  BY DEF BuilderTypes
<1>3. FlushToLastTick(aggs, session) \in Made
  BY <1>1, FlushToLastTickIs
<1>4. loop = "wait" => Taken \in Made
  BY <1>1, <1>2, NewTicksAre, WindowHours, TakeTicksIs DEF Taken
<1>5. loop = "close" => Elapsed \in Made
  BY <1>1, <1>2, TimeIs, WindowHours, FlushAllIs DEF Elapsed
<1> QED
  BY <1>3, <1>4, <1>5

LEMMA SavedStays ==
    ASSUME Saved, UNCHANGED <<bars, buffer, archive, gone>>
    PROVE  Saved'
  BY DEF Saved, NothingUnsaved, KeyOf

LEMMA FirstAggregators == NoAggregators \in Aggregators
  BY DEF NoAggregators, NewAggregator, Aggregators, Aggregator, None

LEMMA InitBuilderInv == ASSUME BarInit PROVE BuilderInv
<1>1. bars \in Group(Published) /\ Len(bars.log) = 0
  BY EmptyGroupIsGroup DEF BarInit, EmptyGroup
<1>2. BarTypeOK
  <2>1. bars \in GroupOf(Published) /\ WellFormed(bars)
    BY <1>1 DEF Group
  <2>2. aggs \in [Instruments -> Aggregator]
    BY FirstAggregators DEF BarInit, Aggregators
  <2>3. ticks \in Seq(Tick) /\ Len(ticks) = 0
    BY DEF BarInit
  <2>4. 1 \in 1..MaxLives /\ 0 \in 0..MaxTime
    BY BarBuilderAssumption
  <2> QED
    BY <2>1, <2>2, <2>3, <2>4 DEF BarInit, BarTypeOK
<1>3. 1..Len(bars.log) = {}
  BY <1>1
<1> QED
  BY <1>2, <1>3 DEF BarInit, BuilderInv, BuilderTypes, Saved, NothingUnsaved

LEMMA SessionKeeps == ASSUME BuilderInv, Session PROVE BuilderInv'
<1>0. BarTypeOK /\ Saved /\ BuilderTypes
  BY DEF BuilderInv, BuilderTypes
<1> DEFINE made == FlushToLastTick(aggs, session)
<1>1. /\ bars' \in Group(Published) /\ buffer' \subseteq 1..Len(bars'.log)
      /\ gone' \subseteq 1..Len(bars'.log) /\ Saved'
      /\ aggs' \in Aggregators /\ session' \in Nat
  <2>1. CASE RollsOver
    <3>1. HandleBars(made.bars, session # None) /\ aggs' = NoAggregators /\ session' = DateOf(now)
      BY <2>1 DEF Session
    <3>2. made.bars \in Seq(Bar) /\ (session # None) \in BOOLEAN
      BY <1>0, MadeBars DEF Made
    <3> HIDE DEF made
    <3> QED
      BY <1>0, <3>1, <3>2, HandleBarsSaves, FirstAggregators, TimeIs
  <2>2. CASE ~ RollsOver
    <3>1. UNCHANGED <<bars, storeVars, gone, aggs, session>>
      BY <2>2 DEF Session
    <3>2. session = DateOf(now)
      BY <2>2 DEF RollsOver
    <3>3. /\ bars \in Group(Published) /\ buffer \subseteq 1..Len(bars.log)
          /\ gone \subseteq 1..Len(bars.log) /\ aggs \in Aggregators
      BY <1>0, BarsIsGroup DEF BarTypeOK, Aggregators
    <3> QED
      BY <1>0, <3>1, <3>2, <3>3, SavedStays, TimeIs DEF storeVars
  <2> QED
    BY <2>1, <2>2
<1>2. /\ from' = IF cursor = None THEN Len(ticks) ELSE cursor
      /\ since' = IF cursor = None THEN Len(ticks) ELSE since
      /\ loop' = "wait"
      /\ UNCHANGED <<feedVars, cursor, lives, late>>
  BY DEF Session
<1>3. from' \in 0..Len(ticks) /\ since' \in Nat
  BY <1>0, <1>2, TimeIs DEF BarTypeOK
<1>4. BarTypeOK'
  <2>1. bars' \in GroupOf(Published) /\ WellFormed(bars')
    BY <1>1 DEF Group
  <2> QED
    BY <1>0, <1>1, <1>2, <1>3, <2>1 DEF BarTypeOK, feedVars, Aggregators
<1>5. session' # None
  BY <1>1 DEF None
<1> QED
  BY <1>1, <1>4, <1>5 DEF BuilderInv, BuilderTypes

LEMMA ReadKeeps == ASSUME BuilderInv, Read PROVE BuilderInv'
<1>0. BarTypeOK /\ Saved /\ BuilderTypes /\ loop = "wait"
  BY DEF BuilderInv, BuilderTypes, Read
<1>1. Taken.bars \in Seq(Bar) /\ Taken.aggs \in Aggregators
  BY <1>0, MadeBars DEF Made
<1>2. /\ HandleBars(Taken.bars, FALSE)
      /\ aggs' = Taken.aggs
      /\ cursor' = IF NewTicks = <<>> THEN cursor ELSE from + Len(NewTicks)
      /\ loop' = "close"
      /\ UNCHANGED <<feedVars, from, session, since, lives, late>>
  BY DEF Read
<1>3. /\ bars' \in Group(Published) /\ buffer' \subseteq 1..Len(bars'.log)
      /\ gone' \subseteq 1..Len(bars'.log) /\ Saved'
  BY <1>0, <1>1, <1>2, HandleBarsSaves
<1>4. cursor' \in 0..Len(ticks) \cup {None}
  BY <1>0, <1>2, NewTicksAre DEF BarTypeOK
<1>5. BarTypeOK'
  <2>1. bars' \in GroupOf(Published) /\ WellFormed(bars')
    BY <1>3 DEF Group
  <2> QED
    BY <1>0, <1>1, <1>2, <1>3, <1>4, <2>1 DEF BarTypeOK, feedVars, Aggregators
<1>6. session' # None
  BY <1>0, <1>2 DEF BuilderTypes
<1> QED
  BY <1>3, <1>5, <1>6 DEF BuilderInv, BuilderTypes

LEMMA CloseKeeps == ASSUME BuilderInv, Close PROVE BuilderInv'
<1>0. BarTypeOK /\ Saved /\ BuilderTypes /\ loop = "close"
  BY DEF BuilderInv, BuilderTypes, Close
<1>1. Elapsed.bars \in Seq(Bar) /\ Elapsed.aggs \in Aggregators
  BY <1>0, MadeBars DEF Made
<1>2. PICK due \in BOOLEAN : HandleBars(Elapsed.bars, due)
  BY DEF Close
<1>3. /\ aggs' = Elapsed.aggs /\ loop' = "top"
      /\ UNCHANGED <<feedVars, cursor, from, session, since, lives>>
  BY DEF Close
<1>4. /\ bars' \in Group(Published) /\ buffer' \subseteq 1..Len(bars'.log)
      /\ gone' \subseteq 1..Len(bars'.log) /\ Saved'
  BY <1>0, <1>1, <1>2, HandleBarsSaves
<1>5. BarTypeOK'
  <2>1. bars' \in GroupOf(Published) /\ WellFormed(bars')
    BY <1>4 DEF Group
  <2> QED
    BY <1>0, <1>1, <1>3, <1>4, <2>1 DEF BarTypeOK, feedVars, Aggregators
<1> QED
  BY <1>3, <1>4, <1>5 DEF BuilderInv, BuilderTypes

LEMMA ShutdownKeeps == ASSUME BuilderInv, Shutdown PROVE BuilderInv'
<1>0. BarTypeOK /\ Saved /\ BuilderTypes
  BY DEF BuilderInv, BuilderTypes
<1>1. FlushToLastTick(aggs, session).bars \in Seq(Bar)
  BY <1>0, MadeBars DEF Made
<1>2. /\ HandleBars(FlushToLastTick(aggs, session).bars, TRUE) /\ loop' = "down"
      /\ UNCHANGED <<feedVars, cursor, from, session, aggs, since, lives, late>>
  BY DEF Shutdown
<1>3. /\ bars' \in Group(Published) /\ buffer' \subseteq 1..Len(bars'.log)
      /\ gone' \subseteq 1..Len(bars'.log) /\ Saved'
  BY <1>0, <1>1, <1>2, HandleBarsSaves
<1>4. BarTypeOK'
  <2>1. bars' \in GroupOf(Published) /\ WellFormed(bars')
    BY <1>3 DEF Group
  <2> QED
    BY <1>0, <1>2, <1>3, <2>1 DEF BarTypeOK, feedVars
<1> QED
  BY <1>2, <1>3, <1>4 DEF BuilderInv, BuilderTypes

(* What a crash takes with it is gone; what was saved before is not.       *)
(* What was being published when the process died, and a part of it.       *)
LEMMA PublishingIs ==
    ASSUME BuilderTypes
    PROVE  /\ Publishing \in Seq(Bar)
           /\ \A n \in 0..Len(Publishing) :
                 LET bs == SubSeq(Publishing, 1, n)
                 IN  bs \in Seq(Bar) /\ Len(bs) = n /\ n \in Nat
<1>1. Publishing \in Seq(Bar)
  <2>1. FlushToLastTick(aggs, session).bars \in Seq(Bar)
    BY MadeBars DEF Made
  <2>2. loop = "wait" => Taken.bars \in Seq(Bar)
    BY MadeBars DEF Made
  <2>3. loop = "close" => Elapsed.bars \in Seq(Bar)
    BY MadeBars DEF Made
  <2>4. <<>> \in Seq(Bar)
    OBVIOUS
  <2> QED
    BY <2>1, <2>2, <2>3, <2>4 DEF Publishing
<1>2. ASSUME NEW n \in 0..Len(Publishing)
      PROVE  /\ SubSeq(Publishing, 1, n) \in Seq(Bar)
             /\ Len(SubSeq(Publishing, 1, n)) = n /\ n \in Nat
  <2>1. n \in Nat /\ n <= Len(Publishing) /\ Len(Publishing) \in Nat
    BY <1>1
  <2>2. \A k \in 1..n : k \in 1..Len(Publishing)
    BY <2>1
  <2> QED
    BY <1>1, <2>1, <2>2
<1> QED
  BY <1>1, <1>2

LEMMA DiesKeeps == ASSUME BuilderInv, BuilderDies PROVE BuilderInv'
<1>0. BarTypeOK /\ Saved /\ BuilderTypes
  BY DEF BuilderInv, BuilderTypes
<1>1. Publishing \in Seq(Bar)
  BY <1>0, PublishingIs
<1>2. PICK n \in 0..Len(Publishing) :
          /\ bars' = WithBarsOf(bars, SubSeq(Publishing, 1, n))
          /\ gone' = gone \cup buffer \cup Len(bars.log) + 1 .. Len(bars.log) + n
  BY DEF BuilderDies
<1>3. /\ buffer' = {} /\ loop' = "down"
      /\ UNCHANGED <<feedVars, cursor, from, session, aggs, archive, since, lives>>
  BY DEF BuilderDies
<1> DEFINE bs == SubSeq(Publishing, 1, n)
<1>4. bs \in Seq(Bar) /\ Len(bs) = n /\ n \in Nat
  BY <1>0, PublishingIs
<1> HIDE DEF bs
<1>5. /\ bars' \in Group(Published) /\ Len(bars'.log) = Len(bars.log) + n
      /\ \A i \in 1..Len(bars.log) : bars'.log[i] = bars.log[i]
  BY <1>0, <1>2, <1>4, PublishedIs DEF bs
<1>6. /\ Len(bars.log) \in Nat /\ Len(bars'.log) \in Nat
      /\ buffer \subseteq 1..Len(bars.log) /\ gone \subseteq 1..Len(bars.log)
  BY <1>0, <1>4, <1>5, BarsIsGroup DEF BarTypeOK
<1> DEFINE old == Len(bars.log)
           new == Len(bars'.log)
<1>7. new = old + n /\ old \in Nat /\ new \in Nat
  BY <1>5, <1>6
<1>8. gone' \subseteq 1..new
  <2> HIDE DEF old, new
  <2> SUFFICES ASSUME NEW m \in gone' PROVE m \in 1..new
    OBVIOUS
  <2>1. m \in 1..old \/ m \in old + 1 .. old + n
    BY <1>2, <1>6 DEF old
  <2> QED
    BY <1>4, <1>7, <2>1
<1>9. ASSUME NEW m \in 1..new, m \notin gone'
      PROVE  KeyOf(m)' \in DOMAIN archive /\ archive[KeyOf(m)'] >= m
  <2> HIDE DEF old, new
  <2>1. m \notin gone /\ m \notin buffer /\ m \notin old + 1 .. old + n
    BY <1>2, <1>9 DEF old
  <2>2. m \in 1..old
    BY <1>4, <1>7, <2>1
  <2>3. KeyOf(m)' = KeyOf(m)
    BY <1>5, <2>2 DEF KeyOf, old
  <2>4. KeyOf(m) \in DOMAIN archive /\ archive[KeyOf(m)] >= m
    BY <1>0, <2>1, <2>2 DEF Saved, NothingUnsaved, old
  <2> QED
    BY <2>3, <2>4
<1>10. Saved'
  <2>1. NothingUnsaved'
    BY <1>3, <1>9 DEF NothingUnsaved
  <2> QED
    BY <1>3, <2>1 DEF Saved
<1>11. BarTypeOK'
  <2>1. bars' \in GroupOf(Published) /\ WellFormed(bars')
    BY <1>5 DEF Group
  <2> QED
    BY <1>0, <1>3, <1>8, <2>1 DEF BarTypeOK, feedVars
<1> QED
  BY <1>3, <1>10, <1>11 DEF BuilderInv, BuilderTypes

LEMMA StartsKeeps == ASSUME BuilderInv, BuilderStarts PROVE BuilderInv'
<1>0. BarTypeOK /\ Saved
  BY DEF BuilderInv, BuilderTypes
<1>1. /\ lives < MaxLives
      /\ loop' = "top" /\ cursor' = None /\ from' = 0 /\ session' = None
      /\ aggs' = NoAggregators
      /\ since' = Len(ticks) /\ lives' = lives + 1
      /\ UNCHANGED <<feedVars, bars, storeVars, gone, late>>
  BY DEF BuilderStarts
<1>2. Saved'
  BY <1>0, <1>1, SavedStays DEF storeVars
<1>3. aggs' \in [Instruments -> Aggregator]
  BY <1>1, FirstAggregators DEF Aggregators
<1>4. from' \in 0..Len(ticks) /\ since' \in Nat
  BY <1>0, <1>1, TimeIs
<1>5. lives' \in 1..MaxLives
  BY <1>0, <1>1, BarBuilderAssumption DEF BarTypeOK
<1>6. BarTypeOK'
  BY <1>0, <1>1, <1>3, <1>4, <1>5 DEF BarTypeOK, feedVars, storeVars
<1> QED
  BY <1>1, <1>2, <1>6 DEF BuilderInv, BuilderTypes

LEMMA CorruptKeeps ==
    ASSUME BuilderInv, NEW p \in {Partition(k) : k \in DOMAIN archive}, Corrupt(p)
    PROVE  BuilderInv'
<1>0. BarTypeOK /\ Saved /\ BuilderTypes
  BY DEF BuilderInv, BuilderTypes
<1> DEFINE lost == {n \in 1..Len(bars.log) \ buffer : Partition(KeyOf(n)) = p}
<1>1. /\ lives < MaxLives
      /\ archive' = [k \in {l \in DOMAIN archive : Partition(l) # p} |-> archive[k]]
      /\ gone' = gone \cup lost
      /\ lives' = lives + 1
      /\ UNCHANGED <<feedVars, bars, builderVars, buffer, since, late>>
  BY DEF Corrupt
<1>2. ASSUME NEW n \in 1..Len(bars.log), n \notin gone', n \notin buffer
      PROVE  /\ n \in 1..Len(bars.log) \ (gone \cup buffer)
             /\ KeyOf(n) \in DOMAIN archive' /\ archive'[KeyOf(n)] >= n
  <2>1. n \in 1..Len(bars.log) \ (gone \cup buffer) /\ Partition(KeyOf(n)) # p
    BY <1>1, <1>2
  <2>2. KeyOf(n) \in DOMAIN archive /\ archive[KeyOf(n)] >= n
    BY <1>0, <2>1 DEF Saved, NothingUnsaved
  <2> HIDE DEF lost
  <2>3. KeyOf(n) \in DOMAIN archive' /\ archive'[KeyOf(n)] = archive[KeyOf(n)]
    BY <1>1, <2>1, <2>2
  <2> QED
    BY <2>1, <2>2, <2>3
<1>3. \A n \in 1..Len(bars.log) : KeyOf(n)' = KeyOf(n)
  BY <1>1 DEF KeyOf
<1>4. Saved'
  <2>1. NothingUnsaved'
    <3> SUFFICES ASSUME NEW n \in 1..Len(bars.log), n \notin gone', n \notin buffer
                 PROVE  KeyOf(n)' \in DOMAIN archive' /\ archive'[KeyOf(n)'] >= n
      BY <1>1 DEF NothingUnsaved
    <3> QED
      BY <1>2, <1>3
  <2>2. ASSUME NEW n \in 1..Len(bars.log), n \notin gone', n \notin buffer, NEW m \in buffer
        PROVE  n < m
    BY <1>0, <1>2, <2>2 DEF Saved
  <2> QED
    BY <1>1, <2>1, <2>2 DEF Saved
<1>5. lives' \in 1..MaxLives
  BY <1>0, <1>1, BarBuilderAssumption DEF BarTypeOK
<1>6. BarTypeOK'
  BY <1>0, <1>1, <1>5 DEF BarTypeOK, feedVars, builderVars
<1>7. loop' \in {"wait", "close"} => session' # None
  BY <1>0, <1>1 DEF BuilderTypes, builderVars
<1> QED
  BY <1>4, <1>6, <1>7 DEF BuilderInv, BuilderTypes

LEMMA TickOfIs == \A n \in 1..Len(TickOf) : TickOf[n] \in [price : Int, volume : Nat]
<1> DEFINE X == [price : Int, volume : Nat]
<1>1. TickOf \in Seq(X)
  BY BarBuilderAssumption
<1> HIDE DEF X
<1>2. \A n \in 1..Len(TickOf) : TickOf[n] \in X
  BY <1>1
<1> QED
  BY <1>2 DEF X

LEMMA ArriveKeeps ==
    ASSUME BuilderInv, NEW i \in Instruments, Arrive(i)
    PROVE  BuilderInv'
<1>0. BarTypeOK /\ Saved /\ BuilderTypes
  BY DEF BuilderInv, BuilderTypes
<1> DEFINE t == TickOf[Len(ticks) + 1]
           e == [inst |-> i, ts |-> now, price |-> t.price, volume |-> t.volume]
<1>1. /\ Len(ticks) < Len(TickOf) /\ ticks' = Append(ticks, e)
      /\ UNCHANGED <<now, bars, builderVars, storeVars, since, lives, gone, late>>
  BY DEF Arrive
<1>2. t \in [price : Int, volume : Nat]
  <2>1. Len(ticks) \in Nat /\ TickOf \in Seq([price : Int, volume : Nat])
    BY <1>0, TimeIs, BarBuilderAssumption
  <2>2. Len(ticks) + 1 \in 1..Len(TickOf)
    BY <1>1, <2>1
  <2> QED
    BY <2>2, TickOfIs
<1> HIDE DEF t
<1>3. e \in Tick
  BY <1>0, <1>2, TimeIs DEF Tick
<1> HIDE DEF e
<1>4. ticks' \in Seq(Tick) /\ Len(ticks') = Len(ticks) + 1
  BY <1>0, <1>1, <1>3 DEF BarTypeOK
<1>5. cursor' \in 0..Len(ticks') \cup {None} /\ from' \in 0..Len(ticks')
  BY <1>0, <1>1, <1>4, TimeIs DEF BarTypeOK, builderVars
<1>6. BarTypeOK'
  BY <1>0, <1>1, <1>4, <1>5 DEF BarTypeOK, builderVars, storeVars
<1>7. Saved'
  BY <1>0, <1>1, SavedStays DEF storeVars
<1>8. loop' \in {"wait", "close"} => session' # None
  BY <1>0, <1>1 DEF BuilderTypes, builderVars
<1> QED
  BY <1>6, <1>7, <1>8 DEF BuilderInv, BuilderTypes

LEMMA ClockKeeps == ASSUME BuilderInv, Clock PROVE BuilderInv'
<1>0. BarTypeOK /\ Saved /\ BuilderTypes
  BY DEF BuilderInv, BuilderTypes
<1>1. /\ now < MaxTime /\ now' = now + 1
      /\ UNCHANGED <<ticks, bars, builderVars, storeVars, since, lives, gone, late>>
  BY DEF Clock
<1>2. now' \in 0..MaxTime
  BY <1>0, <1>1, BarBuilderAssumption DEF BarTypeOK
<1>3. BarTypeOK'
  BY <1>0, <1>1, <1>2 DEF BarTypeOK, builderVars, storeVars
<1>4. Saved'
  BY <1>0, <1>1, SavedStays DEF storeVars
<1>5. loop' \in {"wait", "close"} => session' # None
  BY <1>0, <1>1 DEF BuilderTypes, builderVars
<1> QED
  BY <1>3, <1>4, <1>5 DEF BuilderInv, BuilderTypes

LEMMA NextBuilderInv == ASSUME BuilderInv, [BarNext]_barVars PROVE BuilderInv'
<1>1. CASE BarNext
  BY <1>1, ClockKeeps, SessionKeeps, ReadKeeps, CloseKeeps, ShutdownKeeps, DiesKeeps,
     StartsKeeps, ArriveKeeps, CorruptKeeps DEF BarNext, BuilderLoop, BuilderLife
<1>2. CASE UNCHANGED barVars
  <2>1. BarTypeOK'
    BY <1>2 DEF BuilderInv, BuilderTypes, BarTypeOK, barVars, feedVars, builderVars, storeVars
  <2>2. Saved'
    BY <1>2, SavedStays DEF BuilderInv, barVars, storeVars
  <2>3. loop' \in {"wait", "close"} => session' # None
    BY <1>2 DEF BuilderInv, BuilderTypes, barVars, builderVars
  <2> QED
    BY <2>1, <2>2, <2>3 DEF BuilderInv, BuilderTypes
<1> QED
  BY <1>1, <1>2

----------------------------------------------------------------------------
(* The grid of a session's intervals.                                      *)

Grid(s, w) == \E q \in Nat : s = w.open + q * Interval

LEMMA GridIs ==
    ASSUME NEW w, Hours(w), NEW s, Grid(s, w)
    PROVE  s \in Nat /\ w.open <= s /\ Interval \in Nat \ {0} /\ w.open \in Nat
<1>1. Interval \in Nat \ {0} /\ w.open \in Nat
  BY BarsAssumption DEF Hours
<1>2. PICK q \in Nat : s = w.open + q * Interval
  BY DEF Grid
<1>3. q * Interval \in Nat
  BY <1>1
<1> QED
  BY <1>1, <1>2, <1>3

LEMMA OpenIsGrid == ASSUME NEW w, Hours(w) PROVE Grid(w.open, w)
<1>1. Interval \in Nat /\ w.open \in Nat
  BY BarsAssumption DEF Hours
<1>2. w.open = w.open + 0 * Interval
  BY <1>1
<1> QED
  BY <1>2 DEF Grid

LEMMA AlignGrid ==
    ASSUME NEW w, Hours(w), NEW t \in Nat
    PROVE  /\ Grid(Align(t, w), w) /\ Align(t, w) \in Nat
           /\ w.open <= t => Align(t, w) <= t /\ t < Align(t, w) + Interval
           /\ t < w.open => Align(t, w) = w.open
<1>1. Interval \in Nat \ {0} /\ w.open \in Nat
  BY BarsAssumption DEF Hours
<1>2. CASE t < w.open
  BY <1>1, <1>2, OpenIsGrid DEF Align
<1>3. CASE ~ (t < w.open)
  <2> DEFINE x == t - w.open
             q == x \div Interval
  <2>1. x \in Nat
    BY <1>1, <1>3
  <2>2. q \in Nat /\ q * Interval \in Nat /\ q * Interval <= x /\ x < q * Interval + Interval
    <3> HIDE DEF x
    <3> QED
      BY <1>1, <2>1, Quotient
  <2>3. Align(t, w) = w.open + q * Interval
    BY <1>3 DEF Align
  <2> HIDE DEF q
  <2>4. Grid(Align(t, w), w)
    BY <2>2, <2>3 DEF Grid
  <2> DEFINE y == q * Interval
  <2> HIDE DEF y
  <2>5. y \in Nat /\ y <= t - w.open /\ t - w.open < y + Interval /\ Align(t, w) = w.open + y
    BY <2>2, <2>3 DEF y
  <2> QED
    BY <1>1, <1>3, <2>4, <2>5
<1> QED
  BY <1>2, <1>3

LEMMA GridStep ==
    ASSUME NEW w, Hours(w), NEW s, NEW t, Grid(s, w), Grid(t, w), s < t
    PROVE  \E m \in Nat : t = s + (m + 1) * Interval
<1>1. Interval \in Nat \ {0} /\ w.open \in Nat
  BY BarsAssumption DEF Hours
<1>2. PICK p \in Nat : s = w.open + p * Interval
  BY DEF Grid
<1>3. PICK q \in Nat : t = w.open + q * Interval
  BY DEF Grid
<1>4. p < q
  <2> SUFFICES ASSUME q <= p PROVE FALSE
    OBVIOUS
  <2>1. q * Interval <= p * Interval
    BY <1>1
  <2>2. q * Interval \in Nat /\ p * Interval \in Nat
    BY <1>1
  <2> QED
    BY <1>1, <1>2, <1>3, <2>1, <2>2
<1> DEFINE m == q - p - 1
<1>5. m \in Nat /\ q = p + (m + 1)
  BY <1>4
<1> HIDE DEF m
<1>6. q * Interval = p * Interval + (m + 1) * Interval
  BY <1>1, <1>5
<1>7. p * Interval \in Nat /\ (m + 1) * Interval \in Nat
  BY <1>1, <1>5
<1>8. t = s + (m + 1) * Interval
  BY <1>1, <1>2, <1>3, <1>6, <1>7
<1> QED
  BY <1>5, <1>8

LEMMA GridNext ==
    ASSUME NEW w, Hours(w), NEW s, NEW t, Grid(s, w), Grid(t, w), s < t
    PROVE  s + Interval <= t
<1>1. PICK m \in Nat : t = s + (m + 1) * Interval
  BY GridStep
<1>2. Interval \in Nat \ {0} /\ s \in Nat
  BY GridIs
<1>3. (m + 1) * Interval = m * Interval + Interval /\ m * Interval \in Nat
  BY <1>2
<1> QED
  BY <1>1, <1>2, <1>3

LEMMA GridPlus ==
    ASSUME NEW w, Hours(w), NEW s, Grid(s, w), NEW m \in Nat
    PROVE  Grid(s + m * Interval, w)
<1>1. Interval \in Nat \ {0} /\ w.open \in Nat
  BY BarsAssumption DEF Hours
<1>2. PICK q \in Nat : s = w.open + q * Interval
  BY DEF Grid
<1>3. (q + m) * Interval = q * Interval + m * Interval /\ q + m \in Nat
  BY <1>1
<1>4. q * Interval \in Nat /\ m * Interval \in Nat
  BY <1>1
<1>5. s + m * Interval = w.open + (q + m) * Interval
  BY <1>1, <1>2, <1>3, <1>4
<1> QED
  BY <1>3, <1>5 DEF Grid

LEMMA AlignRises ==
    ASSUME NEW w, Hours(w), NEW s \in Nat, NEW t \in Nat, s <= t
    PROVE  Align(s, w) <= Align(t, w)
<1>1. Interval \in Nat \ {0} /\ w.open \in Nat
  BY BarsAssumption DEF Hours
<1>2. /\ Grid(Align(s, w), w) /\ Align(s, w) \in Nat
      /\ w.open <= s => Align(s, w) <= s
      /\ s < w.open => Align(s, w) = w.open
  BY AlignGrid
<1>3. /\ Grid(Align(t, w), w) /\ Align(t, w) \in Nat /\ w.open <= Align(t, w)
      /\ w.open <= t => t < Align(t, w) + Interval
  BY AlignGrid, GridIs
<1>4. ASSUME Align(t, w) < Align(s, w) PROVE FALSE
  <2>1. Align(t, w) + Interval <= Align(s, w)
    BY <1>2, <1>3, <1>4, GridNext
  <2> QED
    BY <1>1, <1>2, <1>3, <1>4, <2>1
<1> QED
  BY <1>2, <1>3, <1>4

LEMMA AlignOfGrid ==
    ASSUME NEW w, Hours(w), NEW s, Grid(s, w)
    PROVE  Align(s, w) = s
<1>1. s \in Nat /\ w.open <= s /\ Interval \in Nat \ {0} /\ w.open \in Nat
  BY GridIs
<1>2. Grid(Align(s, w), w) /\ Align(s, w) \in Nat /\ Align(s, w) <= s /\ s < Align(s, w) + Interval
  BY <1>1, AlignGrid
<1>3. ASSUME Align(s, w) < s PROVE FALSE
  <2>1. Align(s, w) + Interval <= s
    BY <1>2, <1>3, GridNext
  <2> QED
    BY <1>1, <1>2, <2>1
<1> QED
  BY <1>1, <1>2, <1>3

(* The gaps between two points of the grid are all of its points between.  *)
LEMMA GapsAre ==
    ASSUME FillGaps, NEW a \in Aggregator, NEW i, a.lastClose # None,
           NEW w, Hours(w), NEW s, NEW to, Grid(s, w), Grid(to, w), to <= w.close
    PROVE  \E m \in Nat :
              /\ GapBars(a, i, s, to, w) = [k \in 1..m |-> SyntheticBar(a, i, s + k * Interval)]
              /\ s < to => to = s + (m + 1) * Interval
              /\ ~ (s < to) => m = 0
<1>1. s \in Nat /\ to \in Nat /\ Interval \in Nat \ {0} /\ w.close \in Nat
  BY GridIs DEF Hours
<1> DEFINE end == IF to < w.close THEN to ELSE w.close
           n == IF end > s THEN (end - s - 1) \div Interval ELSE 0
<1>2. end = to
  BY <1>1
<1>3. GapBars(a, i, s, to, w) = [k \in 1..n |-> SyntheticBar(a, i, s + k * Interval)]
  BY DEF GapBars
<1>4. CASE s < to
  <2>1. PICK m \in Nat : to = s + (m + 1) * Interval
    BY <1>4, GridStep
  <2> DEFINE x == to - s - 1
  <2>2. m * Interval \in Nat /\ (m + 1) * Interval = m * Interval + Interval
    BY <1>1
  <2> DEFINE y == m * Interval
  <2>3. to = s + y + Interval /\ y \in Nat
    BY <1>1, <2>1, <2>2
  <2>4. x \in Nat /\ m * Interval <= x /\ x < m * Interval + Interval
    <3>1. y <= x /\ x < y + Interval /\ x \in Nat
      <4> HIDE DEF y
      <4> QED
        BY <1>1, <2>3
    <3> QED
      BY <3>1
  <2>5. x \div Interval = m
    <3> HIDE DEF x
    <3> QED
      BY <1>1, <2>4, QuotientIs
  <2>6. n = m
    BY <1>1, <1>2, <1>4, <2>5
  <2> QED
    BY <1>3, <1>4, <2>1, <2>6
<1>5. CASE ~ (s < to)
  <2>1. n = 0
    BY <1>1, <1>2, <1>5
  <2> QED
    BY <1>3, <1>5, <2>1
<1> QED
  BY <1>4, <1>5

----------------------------------------------------------------------------
(* A silent instrument.                                                    *)

Key(b) == <<b.inst, b.start>>

(* Of what traded last, the bar is forming; or with K published, every bar *)
(* from there to the last one emitted is among them.                       *)
Accounted(a, i, K, w) ==
    /\ a.start # None => a.lastTick # None /\ a.start = Align(a.lastTick, w)
    /\ a.start = None /\ a.lastTick # None =>
          /\ a.lastEmitted # None /\ a.lastClose # None /\ Grid(a.lastEmitted, w)
          /\ \A s \in Nat : Grid(s, w) /\ Align(a.lastTick, w) <= s /\ s <= a.lastEmitted
                               => <<i, s>> \in K

LEMMA NewIsAccounted ==
    ASSUME NEW i, NEW K, NEW w
    PROVE  Accounted(NewAggregator, i, K, w)
  BY DEF Accounted, NewAggregator

LEMMA MoreAccounted ==
    ASSUME NEW a, NEW i, NEW K, NEW L, NEW w, Accounted(a, i, K, w), K \subseteq L
    PROVE  Accounted(a, i, L, w)
  BY DEF Accounted

(* A tick leaves its bar forming.                                          *)
LEMMA TickAccounted ==
    ASSUME NEW a \in Aggregator, NEW t \in Tick, NEW w, Hours(w), NEW K,
           Accounted(a, t.inst, K, w)
    PROVE  Accounted(AddTick(a, t, w).agg, t.inst, K, w)
<1> DEFINE target == Align(t.ts, w)
           qty    == DeltaVolume(a, t.volume)
           heard  == [a EXCEPT !.lastTick = t.ts,
                               !.lastCum = IF VolumeMode = "cumulative"
                                           THEN t.volume ELSE @]
           closed == IF a.start = None
                     THEN IF a.lastEmitted = None THEN <<>>
                          ELSE GapBars(a, t.inst, a.lastEmitted, target, w)
                     ELSE IF target > a.start
                          THEN ClosedBars(heard, t.inst, target, w)
                          ELSE <<>>
           ready  == IF a.start = None THEN StartBar(heard, target, t.price)
                     ELSE IF target > a.start
                          THEN StartBar(FinishBar(heard), target, t.price)
                          ELSE heard
           full   == Accumulate(ready, t.price, qty)
<1>1. AddTick(a, t, w) = IF Accepts(a, t, w) THEN Emit(full, closed)
                         ELSE [agg |-> a, bars |-> <<>>]
  BY DEF AddTick
<1>2. t.ts \in Nat /\ t.volume \in Nat /\ target \in Nat
  BY AlignIs DEF Tick
<1>3. CASE ~ Accepts(a, t, w)
  BY <1>1, <1>3
<1>4. CASE Accepts(a, t, w)
  <2>1. heard.lastTick = t.ts /\ heard.start = a.start
    BY DEF Aggregator
  <2>2. ASSUME a.start # None, ~ (target > a.start) PROVE a.start = target
    <3>1. a.lastTick \in Nat /\ a.start = Align(a.lastTick, w) /\ a.start \in Nat
      BY <2>2 DEF Accounted, Aggregator
    <3>2. a.lastTick <= t.ts
      BY <1>4, <3>1 DEF Accepts, None
    <3>3. a.start <= target
      BY <1>2, <3>1, <3>2, AlignRises
    <3> QED
      BY <1>2, <2>2, <3>1, <3>3
  <2> HIDE DEF target, qty
  <2>3. ready.start = target /\ ready.lastTick = t.ts
    <3>1. heard \in Aggregator
      BY <1>2 DEF Aggregator, Tick
    <3> HIDE DEF heard
    <3>2. FinishBar(heard) \in Aggregator /\ FinishBar(heard).lastTick = t.ts
      BY <2>1, <3>1 DEF FinishBar, Aggregator
    <3>3. /\ StartBar(heard, target, t.price).start = target
          /\ StartBar(heard, target, t.price).lastTick = t.ts
      BY <2>1, <3>1 DEF StartBar, Aggregator
    <3>4. /\ StartBar(FinishBar(heard), target, t.price).start = target
          /\ StartBar(FinishBar(heard), target, t.price).lastTick = t.ts
      BY <3>2 DEF StartBar, Aggregator
    <3>5. CASE a.start = None
      BY <3>3, <3>5
    <3>6. CASE a.start # None /\ target > a.start
      BY <3>4, <3>6
    <3>7. CASE a.start # None /\ ~ (target > a.start)
      BY <2>1, <2>2, <3>7
    <3> QED
      BY <3>5, <3>6, <3>7
  <2> HIDE DEF ready, closed, heard
  <2>4. full.start = target /\ full.lastTick = t.ts
    BY <2>3 DEF Accumulate
  <2> HIDE DEF full
  <2>5. Emit(full, closed).agg.start = target /\ Emit(full, closed).agg.lastTick = t.ts
    BY <2>4 DEF Emit
  <2>6. target # None /\ t.ts # None /\ target = Align(t.ts, w)
    BY <1>2 DEF None, target
  <2> QED
    BY <1>1, <1>4, <2>5, <2>6 DEF Accounted
<1> QED
  BY <1>3, <1>4

(* A point of the grid between two others is a number of intervals on.     *)
LEMMA Between ==
    ASSUME NEW w, Hours(w), NEW f, NEW s, Grid(f, w), Grid(s, w), f < s,
           NEW m \in Nat, s < f + (m + 1) * Interval
    PROVE  \E k \in 1..m : s = f + k * Interval
<1>1. f \in Nat /\ s \in Nat /\ Interval \in Nat \ {0}
  BY GridIs
<1>2. PICK p \in Nat : s = f + (p + 1) * Interval
  BY GridStep
<1>3. (p + 1) * Interval \in Nat /\ (m + 1) * Interval \in Nat
  BY <1>1
<1>4. (p + 1) * Interval < (m + 1) * Interval
  BY <1>1, <1>2, <1>3
<1>5. p < m
  <2> SUFFICES ASSUME m <= p PROVE FALSE
    OBVIOUS
  <2>1. (m + 1) * Interval <= (p + 1) * Interval
    BY <1>1
  <2> QED
    BY <1>3, <1>4, <2>1
<1>6. p + 1 \in 1..m
  BY <1>5
<1> QED
  BY <1>2, <1>6

(* What a flush accounts for by its bars, those of L.                      *)
Covers(a, i, agg, L, target, w) ==
    /\ Accounted(agg, i, L, w) /\ agg.lastTick = a.lastTick
    /\ a.lastTick # None =>
          \A s \in Nat : Grid(s, w) /\ Align(a.lastTick, w) <= s /\ s < target => <<i, s>> \in L

(* A flush of the forming bar.                                             *)
LEMMA ClosedAccounted ==
    ASSUME FillGaps, NEW a \in Aggregator, NEW i \in Instruments, NEW w, Hours(w),
           NEW target, Grid(target, w), target <= w.close, NEW L,
           a.start # None, target > a.start, a.lastTick # None,
           a.start = Align(a.lastTick, w),
           \A k \in 1..Len(ClosedBars(a, i, target, w)) : Key(ClosedBars(a, i, target, w)[k]) \in L
    PROVE  Covers(a, i, Emit(FinishBar(a), ClosedBars(a, i, target, w)).agg, L, target, w)
<1>1. /\ a.start \in Nat /\ a.lastTick \in Nat /\ a.close \in Nat /\ target \in Nat
      /\ Grid(a.start, w) /\ Interval \in Nat \ {0}
  BY AlignGrid, GridIs DEF Aggregator
<1>0. Grid(a.start, w)
  BY <1>1
<1> DEFINE f == FinishBar(a)
           gaps == GapBars(f, i, a.start, target, w)
           closed == ClosedBars(a, i, target, w)
<1>2. /\ f \in Aggregator /\ f.start = None /\ f.lastTick = a.lastTick
      /\ f.lastClose # None
  <2>1. f \in Aggregator
    BY <1>1, FinishIs
  <2>2. f.start = None /\ f.lastTick = a.lastTick /\ f.lastClose = a.close
    BY DEF FinishBar, Aggregator
  <2> QED
    BY <1>1, <2>1, <2>2 DEF None
<1>3. PICK m \in Nat :
         /\ gaps = [k \in 1..m |-> SyntheticBar(f, i, a.start + k * Interval)]
         /\ target = a.start + (m + 1) * Interval
  <2> HIDE DEF f
  <2>1. PICK m \in Nat :
           /\ GapBars(f, i, a.start, target, w)
                 = [k \in 1..m |-> SyntheticBar(f, i, a.start + k * Interval)]
           /\ a.start < target => target = a.start + (m + 1) * Interval
    <3>1. f \in Aggregator /\ f.lastClose # None
      BY <1>2
    <3> QED
      BY <1>0, <3>1, GapsAre
  <2> QED
    BY <1>1, <2>1
<1>4. closed = <<FinishedBar(a, i)>> \o gaps
  BY DEF ClosedBars
<1> HIDE DEF gaps, closed, f
<1>5. /\ Len(closed) = m + 1 /\ closed[1] = FinishedBar(a, i)
      /\ \A k \in 1..m : closed[k + 1] = gaps[k]
  <2>1. gaps \in Seq({gaps[k] : k \in 1..m}) /\ Len(gaps) = m
    BY <1>3
  <2> QED
    BY <1>4, <2>1
<1>6. Key(closed[1]) = <<i, a.start>>
  BY <1>5 DEF Key, FinishedBar
<1>7. ASSUME NEW k \in 1..m
      PROVE  /\ closed[k + 1].start = a.start + k * Interval
             /\ Key(closed[k + 1]) = <<i, a.start + k * Interval>>
  <2>1. closed[k + 1] = SyntheticBar(f, i, a.start + k * Interval)
    BY <1>3, <1>5
  <2> QED
    BY <2>1 DEF Key, SyntheticBar
<1>8. ASSUME NEW s \in Nat, Grid(s, w), a.start <= s, s < target
      PROVE  <<i, s>> \in L
  <2>1. CASE s = a.start
    <3>1. 1 \in 1..Len(closed)
      BY <1>5
    <3> QED
      BY <1>6, <2>1, <3>1 DEF closed
  <2>2. CASE a.start < s
    <3>0. s < a.start + (m + 1) * Interval
      BY <1>3, <1>8
    <3>1. PICK k \in 1..m : s = a.start + k * Interval
      BY <1>0, <1>8, <2>2, <3>0, Between
    <3>2. k + 1 \in 1..Len(closed)
      BY <1>5
    <3> QED
      BY <1>7, <3>1, <3>2 DEF closed
  <2> QED
    BY <1>1, <1>8, <2>1, <2>2
<1> DEFINE last == closed[Len(closed)].start
<1>9. /\ last = a.start + m * Interval /\ last \in Nat /\ Grid(last, w) /\ last < target
  <2>1. last = a.start + m * Interval
    <3>1. CASE m = 0
      BY <1>1, <1>5, <3>1 DEF FinishedBar
    <3>2. CASE m # 0
      BY <1>5, <1>7, <3>2
    <3> QED
      BY <3>1, <3>2
  <2>2. Grid(a.start + m * Interval, w)
    BY <1>1, GridPlus
  <2>3. m * Interval \in Nat /\ (m + 1) * Interval = m * Interval + Interval
    BY <1>1
  <2> HIDE DEF last
  <2> QED
    BY <1>1, <1>3, <2>1, <2>2, <2>3
<1> DEFINE g == Emit(f, closed).agg
<1>10. g.start = None /\ g.lastTick = a.lastTick /\ g.lastClose # None /\ g.lastEmitted = last
  <2>1. closed # <<>>
    BY <1>5
  <2>2. g = [f EXCEPT !.lastEmitted = last]
    BY <2>1 DEF Emit
  <2> HIDE DEF g, last
  <2> QED
    BY <1>2, <2>2 DEF Aggregator
<1> HIDE DEF g, last
<1>11. last # None
  BY <1>9 DEF None
<1>12. \A s \in Nat : Grid(s, w) /\ Align(a.lastTick, w) <= s /\ s <= last => <<i, s>> \in L
  BY <1>1, <1>8, <1>9
<1>13. Accounted(g, i, L, w)
  BY <1>9, <1>10, <1>11, <1>12 DEF Accounted
<1>14. Covers(a, i, g, L, target, w)
  BY <1>8, <1>10, <1>13 DEF Covers
<1> QED
  BY <1>14 DEF g, f, closed

(* A flush of the intervals after the last one emitted.                    *)
LEMMA GapsAccounted ==
    ASSUME FillGaps, NEW a \in Aggregator, NEW i \in Instruments, NEW w, Hours(w),
           NEW target, Grid(target, w), target <= w.close, NEW K, NEW L, K \subseteq L,
           a.start = None, a.lastEmitted # None, Accounted(a, i, K, w),
           \A k \in 1..Len(GapBars(a, i, a.lastEmitted, target, w)) :
              Key(GapBars(a, i, a.lastEmitted, target, w)[k]) \in L
    PROVE  Covers(a, i, Emit(a, GapBars(a, i, a.lastEmitted, target, w)).agg, L, target, w)
<1> DEFINE from0 == a.lastEmitted
           gaps == GapBars(a, i, from0, target, w)
           g == Emit(a, gaps).agg
<1>1. g.lastTick = a.lastTick /\ g.start = None /\ g.lastClose = a.lastClose
  <2> HIDE DEF gaps
  <2> QED
    BY DEF Emit, Aggregator
<1>2. CASE a.lastTick = None
  <2> HIDE DEF g
  <2>1. Accounted(g, i, L, w)
    BY <1>1, <1>2 DEF Accounted
  <2>2. Covers(a, i, g, L, target, w)
    BY <1>1, <1>2, <2>1 DEF Covers
  <2> QED
    BY <2>2 DEF g
<1>3. CASE a.lastTick # None
  <2>1. /\ a.lastClose # None /\ Grid(from0, w)
        /\ \A s \in Nat : Grid(s, w) /\ Align(a.lastTick, w) <= s /\ s <= from0 => <<i, s>> \in L
    BY <1>3 DEF Accounted
  <2>2. PICK m \in Nat :
           /\ gaps = [k \in 1..m |-> SyntheticBar(a, i, from0 + k * Interval)]
           /\ from0 < target => target = from0 + (m + 1) * Interval
           /\ ~ (from0 < target) => m = 0
    <3> HIDE DEF from0
    <3>1. a.lastClose # None /\ Grid(from0, w)
      BY <2>1
    <3> QED
      BY <3>1, GapsAre
  <2>3. from0 \in Nat /\ target \in Nat /\ Interval \in Nat \ {0}
    BY <2>1, GridIs
  <2> HIDE DEF gaps, g, from0
  <2>4. Len(gaps) = m /\ gaps \in Seq({gaps[k] : k \in 1..m})
    BY <2>2
  <2>5. ASSUME NEW k \in 1..m
        PROVE  /\ gaps[k].start = from0 + k * Interval
               /\ <<i, from0 + k * Interval>> \in L
    <3>1. gaps[k] = SyntheticBar(a, i, from0 + k * Interval)
      BY <2>2
    <3>2. Key(gaps[k]) \in L
      BY <2>4 DEF gaps, from0
    <3> QED
      BY <3>1, <3>2 DEF Key, SyntheticBar
  <2>6. ASSUME NEW s \in Nat, Grid(s, w), Align(a.lastTick, w) <= s, s < target
        PROVE  <<i, s>> \in L
    <3>1. CASE s <= from0
      BY <2>1, <2>6, <3>1
    <3>2. CASE from0 < s
      <4>1. s < from0 + (m + 1) * Interval
        BY <2>2, <2>3, <2>6, <3>2
      <4>2. Grid(from0, w)
        BY <2>1
      <4>3. PICK k \in 1..m : s = from0 + k * Interval
        BY <2>6, <3>2, <4>1, <4>2, Between
      <4> QED
        BY <2>5, <4>3
    <3> QED
      BY <2>3, <3>1, <3>2
  <2>7. CASE m = 0
    <3>1. gaps = <<>>
      BY <2>4, <2>7
    <3>2. g = a
      BY <3>1 DEF g, Emit
    <3>3. Accounted(a, i, L, w)
      BY MoreAccounted
    <3>4. Covers(a, i, g, L, target, w)
      BY <2>6, <3>2, <3>3 DEF Covers
    <3> QED
      BY <3>4 DEF g, gaps, from0
  <2>8. CASE m # 0
    <3> DEFINE last == from0 + m * Interval
    <3>1. gaps # <<>> /\ Len(gaps) \in 1..m
      BY <2>4, <2>8
    <3>2. g.lastEmitted = last
      <4>1. g = [a EXCEPT !.lastEmitted = gaps[Len(gaps)].start]
        BY <3>1 DEF g, Emit
      <4>2. gaps[Len(gaps)].start = last
        BY <2>4, <2>5, <3>1
      <4> QED
        BY <4>1, <4>2 DEF Aggregator
    <3>3. from0 < target /\ target = from0 + (m + 1) * Interval
      BY <2>2, <2>3, <2>8
    <3>4. Grid(last, w)
      <4>1. Grid(from0, w)
        BY <2>1
      <4> QED
        BY <4>1, GridPlus
    <3>5. last \in Nat /\ last < target
      <4>1. m * Interval \in Nat /\ (m + 1) * Interval = m * Interval + Interval
        BY <2>3
      <4> QED
        BY <2>3, <3>3, <4>1
    <3> HIDE DEF last
    <3>6. last # None
      BY <3>5 DEF None
    <3>7. \A s \in Nat : Grid(s, w) /\ Align(a.lastTick, w) <= s /\ s <= last => <<i, s>> \in L
      BY <2>3, <2>6, <3>5
    <3>8. Accounted(g, i, L, w)
      BY <1>1, <2>1, <3>2, <3>4, <3>6, <3>7 DEF Accounted
    <3>9. Covers(a, i, g, L, target, w)
      BY <1>1, <2>6, <3>8 DEF Covers
    <3> QED
      BY <3>9 DEF g, gaps, from0
  <2> QED
    BY <2>7, <2>8
<1> QED
  BY <1>2, <1>3

(* Where a flush at a moment ends.                                         *)
Target(moment, w) == Align(IF moment < w.close THEN moment ELSE w.close, w)

LEMMA TargetIs ==
    ASSUME NEW moment \in Nat, NEW w, Hours(w), Grid(w.close, w)
    PROVE  /\ Grid(Target(moment, w), w) /\ Target(moment, w) \in Nat
           /\ Target(moment, w) <= w.close
<1> DEFINE m == IF moment < w.close THEN moment ELSE w.close
<1>1. m \in Nat /\ m <= w.close /\ w.close \in Nat /\ w.open \in Nat /\ w.open <= w.close
  BY GridIs DEF Hours
<1>2. Target(moment, w) = Align(m, w)
  BY DEF Target
<1> HIDE DEF m
<1>3. Grid(Align(m, w), w) /\ Align(m, w) \in Nat
  BY <1>1, AlignGrid
<1>4. Align(m, w) <= Align(w.close, w) /\ Align(w.close, w) = w.close
  BY <1>1, AlignRises, AlignOfGrid
<1> QED
  BY <1>2, <1>3, <1>4

LEMMA FlushAccounted ==
    ASSUME FillGaps, NEW a \in Aggregator, NEW i \in Instruments, NEW moment \in Nat,
           NEW w, Hours(w), Grid(w.close, w), NEW K, NEW L, K \subseteq L,
           Accounted(a, i, K, w),
           \A k \in 1..Len(FlushUntil(a, i, moment, w).bars) :
              Key(FlushUntil(a, i, moment, w).bars[k]) \in L
    PROVE  Covers(a, i, FlushUntil(a, i, moment, w).agg, L, Target(moment, w), w)
<1> DEFINE target == Target(moment, w)
           own == FlushUntil(a, i, moment, w)
<1>1. Grid(target, w) /\ target \in Nat /\ target <= w.close
  BY TargetIs
<1>2. own = CASE a.start # None /\ target > a.start ->
                   Emit(FinishBar(a), ClosedBars(a, i, target, w))
              [] a.start = None /\ a.lastEmitted # None ->
                   Emit(a, GapBars(a, i, a.lastEmitted, target, w))
              [] OTHER -> [agg |-> a, bars |-> <<>>]
  BY DEF FlushUntil, Target
<1>3. \A k \in 1..Len(own.bars) : Key(own.bars[k]) \in L
  OBVIOUS
<1> HIDE DEF own, target
<1>4. CASE a.start # None /\ target > a.start
  <2>1. own = Emit(FinishBar(a), ClosedBars(a, i, target, w))
    BY <1>2, <1>4
  <2>2. own.bars = ClosedBars(a, i, target, w)
    BY <2>1 DEF Emit
  <2>3. a.lastTick # None /\ a.start = Align(a.lastTick, w)
    BY <1>4 DEF Accounted
  <2>4. \A k \in 1..Len(ClosedBars(a, i, target, w)) : Key(ClosedBars(a, i, target, w)[k]) \in L
    BY <1>3, <2>2
  <2>5. Covers(a, i, own.agg, L, target, w)
    BY <1>1, <1>4, <2>1, <2>3, <2>4, ClosedAccounted
  <2> QED
    BY <2>5 DEF own, target
<1>5. CASE a.start = None /\ a.lastEmitted # None
  <2>1. own = Emit(a, GapBars(a, i, a.lastEmitted, target, w))
    BY <1>2, <1>5
  <2>2. own.bars = GapBars(a, i, a.lastEmitted, target, w)
    BY <2>1 DEF Emit
  <2>3. \A k \in 1..Len(GapBars(a, i, a.lastEmitted, target, w)) :
           Key(GapBars(a, i, a.lastEmitted, target, w)[k]) \in L
    BY <1>3, <2>2
  <2>4. Covers(a, i, own.agg, L, target, w)
    BY <1>1, <1>5, <2>1, <2>3, GapsAccounted
  <2> QED
    BY <2>4 DEF own, target
<1>6. CASE ~ (a.start # None /\ target > a.start) /\ ~ (a.start = None /\ a.lastEmitted # None)
  <2>1. own.agg = a
    BY <1>2, <1>6
  <2>2. Accounted(a, i, L, w)
    BY MoreAccounted
  <2>3. ASSUME a.lastTick # None
        PROVE  \A s \in Nat : ~ (Align(a.lastTick, w) <= s /\ s < target)
    <3>1. a.start # None /\ a.start = Align(a.lastTick, w)
      BY <1>6, <2>3 DEF Accounted
    <3>2. a.start \in Nat /\ target <= a.start
      BY <1>1, <1>6, <3>1 DEF Aggregator
    <3> QED
      BY <1>1, <3>1, <3>2
  <2>4. Covers(a, i, own.agg, L, target, w)
    BY <2>1, <2>2, <2>3 DEF Covers
  <2> QED
    BY <2>4 DEF own, target
<1> QED
  BY <1>4, <1>5, <1>6

----------------------------------------------------------------------------
(* The builder accounts for what has traded.                               *)

KeysOf(log) == {Key(log[n].bar) : n \in 1..Len(log)}

AllAccounted(as, K, w) == \A i \in Instruments : Accounted(as[i], i, K, w)

NothingForgotten == AllAccounted(aggs, KeysOf(bars.log), SessionWindow(session))

(* config.BAR_FILL_GAPS, and a session is a number of intervals.           *)
WholeIntervals == FillGaps /\ \E q \in Nat : SessionClose - SessionOpen = q * Interval

LEMMA CloseIsGrid ==
    ASSUME WholeIntervals, NEW d \in Nat
    PROVE  Hours(SessionWindow(d)) /\ Grid(SessionWindow(d).close, SessionWindow(d))
<1>1. PICK q \in Nat : SessionClose - SessionOpen = q * Interval
  BY DEF WholeIntervals
<1>2. /\ SessionOpen \in Nat /\ SessionClose \in Nat /\ DayLength \in Nat /\ Interval \in Nat
      /\ d * DayLength \in Nat /\ q * Interval \in Nat
  BY CalendarAssumption, BarsAssumption
<1>3. /\ SessionWindow(d).open = d * DayLength + SessionOpen
      /\ SessionWindow(d).close = d * DayLength + SessionClose
  BY DEF SessionWindow, At
<1>4. SessionWindow(d).close = SessionWindow(d).open + q * Interval
  BY <1>1, <1>2, <1>3
<1> QED
  BY <1>4, WindowHours DEF Grid

LEMMA KeysGrow ==
    ASSUME BarTypeOK, NEW bs \in Seq(Bar)
    PROVE  LET L == KeysOf(WithBarsOf(bars, bs).log)
           IN  KeysOf(bars.log) \subseteq L /\ \A k \in 1..Len(bs) : Key(bs[k]) \in L
<1> DEFINE es == [k \in 1..Len(bs) |-> [bar |-> bs[k], since |-> since]]
           log == WithBarsOf(bars, bs).log
           n == Len(bars.log)
<1>1. Len(bs) \in Nat /\ since \in Nat /\ \A k \in 1..Len(bs) : bs[k] \in Bar
  BY DEF BarTypeOK
<1>2. \A k \in 1..Len(bs) : [bar |-> bs[k], since |-> since] \in Published
  BY <1>1 DEF Published
<1>3. es \in Seq(Published) /\ Len(es) = Len(bs) /\ \A k \in 1..Len(bs) : es[k].bar = bs[k]
  BY <1>1, <1>2
<1>4. log = XAddAll(bars, es).log
  BY DEF WithBarsOf
<1> HIDE DEF es, log
<1>5. /\ Len(log) = n + Len(bs) /\ n \in Nat
      /\ \A k \in 1..Len(bs) : log[n + k] = es[k]
      /\ \A k \in 1..n : log[k] = bars.log[k]
  <2>1. bars.log \in Seq(Published) /\ n \in Nat
    BY BarsIsGroup DEF Group, GroupOf
  <2>2. log = bars.log \o es
    BY <1>4 DEF XAddAll
  <2> HIDE DEF n
  <2>3. Len(bars.log) = n /\ Len(es) \in Nat
    BY <1>1, <1>3 DEF n
  <2>4. Len(log) = n + Len(es)
    <3>1. es \in Seq(Published) /\ bars.log \in Seq(Published)
      BY <1>3, <2>1
    <3>2. Len(bars.log \o es) = Len(bars.log) + Len(es)
      BY <3>1
    <3> QED
      BY <2>2, <2>3, <3>2
  <2>5. ASSUME NEW k \in 1..Len(es) PROVE log[n + k] = es[k]
    <3> DEFINE j == n + k
    <3>1. j \in 1..(n + Len(es)) /\ j > n /\ j - n = k
      BY <2>1, <2>3
    <3>2. es \in Seq(Published) /\ bars.log \in Seq(Published)
      BY <1>3, <2>1
    <3> HIDE DEF j
    <3>3. (bars.log \o es)[j] = es[j - n]
      BY <2>3, <3>1, <3>2
    <3> QED
      BY <2>2, <3>1, <3>3 DEF j
  <2>6. \A k \in 1..n : log[k] = bars.log[k]
    BY <1>3, <2>1, <2>2, <2>3
  <2> QED
    BY <1>3, <2>1, <2>4, <2>5, <2>6
<1> HIDE DEF n
<1>6. \A k \in 1..n : k \in 1..Len(log)
  BY <1>1, <1>5
<1>7. ASSUME NEW k \in 1..Len(bs)
      PROVE  n + k \in 1..Len(log) /\ log[n + k].bar = bs[k]
  <2>1. log[n + k] = es[k] /\ es[k].bar = bs[k]
    BY <1>3, <1>5
  <2>2. n + k \in 1..Len(log)
    BY <1>1, <1>5
  <2> QED
    BY <2>1, <2>2
<1>8. KeysOf(bars.log) \subseteq KeysOf(log)
  BY <1>5, <1>6 DEF KeysOf, n
<1>9. \A k \in 1..Len(bs) : Key(bs[k]) \in KeysOf(log)
  BY <1>7 DEF KeysOf
<1> QED
  BY <1>8, <1>9 DEF log

LEMMA NewAllAccounted ==
    ASSUME NEW K, NEW w
    PROVE  AllAccounted(NoAggregators, K, w)
  BY NewIsAccounted DEF AllAccounted, NoAggregators

LEMMA MoreAllAccounted ==
    ASSUME NEW as, NEW K, NEW L, NEW w, AllAccounted(as, K, w), K \subseteq L
    PROVE  AllAccounted(as, L, w)
  BY MoreAccounted DEF AllAccounted

LEMMA TicksAccounted ==
    ASSUME NEW as \in Aggregators, NEW ts \in Seq(Tick), NEW w, Hours(w), NEW K,
           AllAccounted(as, K, w)
    PROVE  AllAccounted(TakeTicks(as, ts, w).aggs, K, w)
<1> DEFINE V == {m \in Made : AllAccounted(m.aggs, K, w)}
<1>1. [aggs |-> as, bars |-> <<>>] \in V
  <2>1. <<>> \in Seq(Bar)
    OBVIOUS
  <2> QED
    BY <2>1 DEF Made
<1>2. ASSUME NEW v \in V, NEW t \in Tick PROVE OneTick(v, t, w) \in V
  <2>1. v \in Made /\ AllAccounted(v.aggs, K, w) /\ v.aggs \in Aggregators
    BY DEF Made
  <2>2. OneTick(v, t, w) \in Made
    BY <2>1, OneTickIs
  <2>3. t.inst \in Instruments /\ v.aggs[t.inst] \in Aggregator
    BY <2>1 DEF Tick, Aggregators
  <2>4. Accounted(AddTick(v.aggs[t.inst], t, w).agg, t.inst, K, w)
    BY <2>1, <2>3, TickAccounted DEF AllAccounted
  <2> DEFINE g == AddTick(v.aggs[t.inst], t, w).agg
  <2>5. OneTick(v, t, w).aggs = [v.aggs EXCEPT ![t.inst] = g]
    BY DEF OneTick
  <2> HIDE DEF g
  <2>6. \A i \in Instruments : OneTick(v, t, w).aggs[i] = IF i = t.inst THEN g ELSE v.aggs[i]
    BY <2>1, <2>5 DEF Aggregators
  <2>7. AllAccounted(OneTick(v, t, w).aggs, K, w)
    BY <2>1, <2>4, <2>6 DEF AllAccounted, g
  <2> QED
    BY <2>2, <2>7
<1> HIDE DEF V
<1>3. TakeTicks(as, ts, w) \in V
  BY <1>1, <1>2, TakeTicksIn
<1> QED
  BY <1>3 DEF V

(* An iteration of the loop accounts for all that has elapsed.             *)
LEMMA CloseAccounts ==
    ASSUME WholeIntervals, BuilderInv, NothingForgotten, Close
    PROVE  /\ session' = session /\ session \in Nat
           /\ \A i \in Instruments :
                 Covers(aggs[i], i, aggs'[i], KeysOf(bars'.log),
                         Target(now, SessionWindow(session)), SessionWindow(session))
<1>1. /\ BarTypeOK /\ BuilderTypes /\ loop = "close" /\ now \in Nat /\ session \in Nat
      /\ aggs \in Aggregators
  BY TimeIs DEF BuilderInv, BuilderTypes, BarTypeOK, Close, Aggregators
<1>2. PICK due \in BOOLEAN : HandleBars(Elapsed.bars, due)
  BY DEF Close
<1>3. aggs' = Elapsed.aggs /\ session' = session /\ bars' = WithBarsOf(bars, Elapsed.bars)
  BY <1>2 DEF Close, HandleBars
<1> DEFINE w == SessionWindow(session)
           K == KeysOf(bars.log)
           L == KeysOf(bars'.log)
<1>4. Hours(w) /\ Grid(w.close, w) /\ FillGaps
  BY <1>1, CloseIsGrid DEF WholeIntervals
<1>5. Elapsed.bars \in Seq(Bar)
  BY <1>1, MadeBars DEF Made
<1>6. K \subseteq L /\ \A l \in 1..Len(Elapsed.bars) : Key(Elapsed.bars[l]) \in L
  BY <1>1, <1>3, <1>5, KeysGrow
<1>7. Elapsed = FlushAll(aggs, now, w)
  BY DEF Elapsed
<1>8. \A i \in Instruments : Accounted(aggs[i], i, K, w)
  BY DEF NothingForgotten, AllAccounted
<1> HIDE DEF w, K, L
<1>9. ASSUME NEW i \in Instruments
      PROVE  Covers(aggs[i], i, aggs'[i], L, Target(now, w), w)
  <2> DEFINE own == FlushUntil(aggs[i], i, now, w)
  <2>1. /\ Elapsed.aggs[i] = own.agg
        /\ \A k \in 1..Len(own.bars) : \E l \in 1..Len(Elapsed.bars) : Elapsed.bars[l] = own.bars[k]
    BY <1>1, <1>4, <1>7, FlushAllIs
  <2> HIDE DEF own
  <2>2. \A k \in 1..Len(own.bars) : Key(own.bars[k]) \in L
    BY <1>6, <2>1
  <2>3. aggs[i] \in Aggregator /\ Accounted(aggs[i], i, K, w)
    BY <1>1, <1>8 DEF Aggregators
  <2>4. Covers(aggs[i], i, own.agg, L, Target(now, w), w)
    BY <1>1, <1>4, <1>6, <2>2, <2>3, FlushAccounted DEF own
  <2> QED
    BY <1>3, <2>1, <2>4
<1> QED
  BY <1>1, <1>3, <1>9 DEF w, L

LEMMA NextForgetsNothing ==
    ASSUME WholeIntervals, BuilderInv, NothingForgotten, [BarNext]_barVars
    PROVE  NothingForgotten'
<1> DEFINE K == KeysOf(bars.log)
           L == KeysOf(bars'.log)
           w == SessionWindow(session)
<1>1. BarTypeOK /\ BuilderTypes /\ AllAccounted(aggs, K, w)
  BY DEF BuilderInv, BuilderTypes, NothingForgotten
<1>2. ASSUME aggs' = aggs, session' = session, K \subseteq L PROVE NothingForgotten'
  <2>1. AllAccounted(aggs, L, w)
    <3> HIDE DEF K, L, w
    <3> QED
      BY <1>1, <1>2, MoreAllAccounted
  <2> QED
    BY <1>2, <2>1 DEF NothingForgotten
<1>3. ASSUME aggs' = NoAggregators PROVE NothingForgotten'
  BY <1>3, NewAllAccounted DEF NothingForgotten
<1>4. ASSUME bars' = bars, aggs' = aggs, session' = session PROVE NothingForgotten'
  BY <1>2, <1>4
<1>5. CASE Clock \/ UNCHANGED barVars \/ (\E i \in Instruments : Arrive(i))
           \/ (\E p : Corrupt(p))
  BY <1>4, <1>5 DEF Clock, barVars, Arrive, Corrupt, builderVars
<1>6. CASE Session
  <2>1. CASE RollsOver
    BY <1>3, <1>6, <2>1 DEF Session
  <2>2. CASE ~ RollsOver
    BY <1>4, <1>6, <2>2 DEF Session
  <2> QED
    BY <2>1, <2>2
<1>7. CASE Read
  <2>1. Taken.bars \in Seq(Bar) /\ loop = "wait" /\ session \in Nat /\ aggs \in Aggregators
    BY <1>1, <1>7, MadeBars DEF Read, Made, BuilderTypes, BarTypeOK, Aggregators
  <2>2. bars' = WithBarsOf(bars, Taken.bars) /\ aggs' = Taken.aggs /\ session' = session
    BY <1>7 DEF Read, HandleBars
  <2>3. K \subseteq L
    BY <1>1, <2>1, <2>2, KeysGrow
  <2>4. AllAccounted(aggs', K, w)
    <3> HIDE DEF K
    <3> QED
      BY <1>1, <2>1, <2>2, NewTicksAre, WindowHours, TicksAccounted DEF Taken
  <2>5. AllAccounted(aggs', L, w)
    <3> HIDE DEF K, L, w
    <3> QED
      BY <2>3, <2>4, MoreAllAccounted
  <2> QED
    BY <2>2, <2>5 DEF NothingForgotten
<1>8. CASE Close
  BY <1>8, CloseAccounts DEF Covers, NothingForgotten, AllAccounted
<1>9. CASE Shutdown
  <2>1. FlushToLastTick(aggs, session).bars \in Seq(Bar)
    BY <1>1, MadeBars DEF Made
  <2>2. /\ bars' = WithBarsOf(bars, FlushToLastTick(aggs, session).bars)
        /\ aggs' = aggs /\ session' = session
    BY <1>9 DEF Shutdown, HandleBars
  <2>3. K \subseteq L
    BY <1>1, <2>1, <2>2, KeysGrow
  <2> QED
    BY <1>2, <2>2, <2>3
<1>10. CASE BuilderDies
  <2>1. PICK n \in 0..Len(Publishing) : bars' = WithBarsOf(bars, SubSeq(Publishing, 1, n))
    BY <1>10 DEF BuilderDies
  <2>2. SubSeq(Publishing, 1, n) \in Seq(Bar)
    BY <1>1, PublishingIs
  <2>3. K \subseteq L
    BY <1>1, <2>1, <2>2, KeysGrow
  <2> QED
    BY <1>2, <1>10, <2>3 DEF BuilderDies
<1>11. CASE BuilderStarts
  BY <1>3, <1>11 DEF BuilderStarts
<1> QED
  BY <1>5, <1>6, <1>7, <1>8, <1>9, <1>10, <1>11 DEF BarNext, BuilderLoop, BuilderLife

(* A step of the builder that ends an iteration leaves a bar of all that   *)
(* it owed.                                                                *)
LEMMA OwedIsPublished ==
    ASSUME WholeIntervals, BuilderInv, NothingForgotten, [BarNext]_barVars,
           loop = "close", loop' = "top", NEW i \in Instruments, NEW s \in 0..MaxTime, Owed(i, s)
    PROVE  \E n \in 1..Len(bars'.log) : KeyOf(n)' = <<i, s>>
<1>1. Close
  BY DEF BarNext, BuilderLoop, BuilderLife, Clock, Session, Read, Shutdown, BuilderDies,
         BuilderStarts, Arrive, Corrupt, barVars, builderVars
<1> DEFINE w == SessionWindow(session)
           moment == IF now < w.close THEN now ELSE w.close
<1>2. /\ session \in Nat
      /\ Covers(aggs[i], i, aggs'[i], KeysOf(bars'.log), Target(now, w), w)
  BY <1>1, CloseAccounts
<1>3. Hours(w) /\ Grid(w.close, w) /\ s \in Nat /\ now \in Nat
  BY <1>2, CloseIsGrid, TimeIs, BarBuilderAssumption DEF BuilderInv, BuilderTypes
<1>4. /\ aggs[i].lastTick # None /\ Align(aggs[i].lastTick, w) <= s
      /\ s = Align(s, w) /\ s < w.close /\ s + Interval <= now
  BY DEF Owed
<1> HIDE DEF w
<1>5. Grid(s, w) /\ Interval \in Nat \ {0}
  BY <1>3, <1>4, AlignGrid, GridIs
<1>6. s + Interval <= w.close
  BY <1>3, <1>4, <1>5, GridNext
<1>7. Grid(s + Interval, w)
  <2>1. Grid(s + 1 * Interval, w)
    BY <1>3, <1>5, GridPlus
  <2> QED
    BY <1>5, <2>1
<1>8. moment \in Nat /\ s + Interval \in Nat /\ s + Interval <= moment
  BY <1>3, <1>4, <1>5, <1>6 DEF Hours
<1>9. Target(now, w) = Align(moment, w) /\ Align(moment, w) \in Nat
  BY <1>3, <1>8, AlignGrid DEF Target
<1> HIDE DEF moment
<1>10. s < Target(now, w)
  <2>1. Align(s + Interval, w) = s + Interval
    BY <1>3, <1>7, AlignOfGrid
  <2>2. Align(s + Interval, w) <= Align(moment, w)
    BY <1>3, <1>8, AlignRises
  <2> QED
    BY <1>3, <1>5, <1>9, <2>1, <2>2
<1>11. <<i, s>> \in KeysOf(bars'.log)
  BY <1>2, <1>3, <1>4, <1>5, <1>10 DEF Covers
<1> QED
  BY <1>11 DEF KeysOf, Key, KeyOf

----------------------------------------------------------------------------
(* Numbers in their order.                                                 *)

(* p gives each number of T once, the smaller before the greater.          *)
Enumerates(p, T) ==
    /\ p \in Seq(T)
    /\ \A j, k \in 1..Len(p) : j < k => p[j] < p[k]
    /\ \A x \in T : \E k \in 1..Len(p) : p[k] = x

LEMMA EnumeratesIs ==
    ASSUME NEW T \in SUBSET Nat, NEW p, Enumerates(p, T)
    PROVE  p = Ordered(T, LAMBDA l, m : l < m)
<1> DEFINE n == Len(p)
           B(x) == {y \in T : y < x}
<1>1. /\ n \in Nat /\ p = [k \in 1..n |-> p[k]]
      /\ \A k \in 1..n : p[k] \in T
      /\ \A j, k \in 1..n : j < k => p[j] < p[k]
      /\ \A x \in T : \E k \in 1..n : p[k] = x
  BY DEF Enumerates
<1> HIDE DEF n
<1>2. \A k \in 1..n : k \in Nat /\ p[k] \in Nat
  BY <1>1
<1>3. \A j, k \in 1..n : p[j] = p[k] => j = k
  BY <1>1, <1>2
<1>4. Cardinality(T) = n
  <2> DEFINE f == [k \in 1..n |-> p[k]]
  <2>1. f \in Bijection(1..n, T)
    <3>1. f \in [1..n -> T]
      BY <1>1
    <3>2. \A j, k \in 1..n : f[j] = f[k] => j = k
      BY <1>3
    <3>3. \A x \in T : \E k \in 1..n : f[k] = x
      BY <1>1
    <3> HIDE DEF f
    <3> QED
      BY <3>1, <3>2, <3>3 DEF Bijection, Injection, IsInjective, Surjection
  <2> QED
    BY <1>1, <2>1, FS_CountingElements DEF ExistsBijection
<1>5. ASSUME NEW k \in 1..n PROVE Cardinality(B(p[k])) = k - 1
  <2> DEFINE f == [j \in 1..(k - 1) |-> p[j]]
  <2>1. k \in Nat /\ k - 1 \in Nat /\ \A j \in 1..(k - 1) : j \in 1..n /\ j < k
    BY <1>1
  <2>2. f \in Bijection(1..(k - 1), B(p[k]))
    <3>1. f \in [1..(k - 1) -> B(p[k])]
      BY <1>1, <2>1
    <3>2. \A i, j \in 1..(k - 1) : f[i] = f[j] => i = j
      BY <1>3, <2>1
    <3>3. ASSUME NEW x \in B(p[k]) PROVE \E j \in 1..(k - 1) : f[j] = x
      <4>1. x \in T /\ x < p[k]
        OBVIOUS
      <4>2. PICK j \in 1..n : p[j] = x
        BY <1>1, <4>1
      <4>3. j < k
        <5> SUFFICES ASSUME ~ (j < k) PROVE FALSE
          OBVIOUS
        <5>1. j = k \/ k < j
          BY <1>2, <2>1
        <5>2. p[k] <= p[j]
          BY <1>1, <1>2, <5>1
        <5> QED
          BY <1>2, <4>1, <4>2, <5>2
      <4>4. j \in 1..(k - 1)
        BY <1>2, <2>1, <4>3
      <4> QED
        BY <4>2, <4>4
    <3> HIDE DEF f, B
    <3> QED
      BY <3>1, <3>2, <3>3 DEF Bijection, Injection, IsInjective, Surjection
  <2> QED
    BY <2>1, <2>2, FS_CountingElements DEF ExistsBijection
<1>6. ASSUME NEW k \in 1..n
      PROVE  p[k] = CHOOSE x \in T : Cardinality(B(x)) = k - 1
  <2>1. p[k] \in T /\ Cardinality(B(p[k])) = k - 1
    BY <1>1, <1>5
  <2>2. ASSUME NEW x \in T, Cardinality(B(x)) = k - 1 PROVE x = p[k]
    <3>1. PICK j \in 1..n : p[j] = x
      BY <1>1
    <3>2. Cardinality(B(p[j])) = j - 1
      BY <1>5
    <3>3. j - 1 = k - 1
      BY <2>2, <3>1, <3>2
    <3> QED
      BY <1>2, <3>1, <3>3
  <2> HIDE DEF B
  <2> QED
    BY <2>1, <2>2
<1>7. Ordered(T, LAMBDA l, m : l < m) = [k \in 1..n |-> CHOOSE x \in T : Cardinality(B(x)) = k - 1]
  BY <1>4 DEF Ordered
<1> HIDE DEF B
<1> QED
  BY <1>1, <1>6, <1>7

LEMMA EnumeratesMore ==
    ASSUME NEW T \in SUBSET Nat, NEW p, Enumerates(p, T), NEW x \in Nat,
           \A y \in T : y < x
    PROVE  Enumerates(Append(p, x), T \cup {x})
<1> DEFINE q == Append(p, x)
           n == Len(p)
<1>1. p \in Seq(T) /\ n \in Nat /\ \A k \in 1..n : p[k] \in T
  BY DEF Enumerates
<1>2. /\ q \in Seq(T \cup {x}) /\ Len(q) = n + 1 /\ q[n + 1] = x
      /\ \A k \in 1..n : q[k] = p[k]
  BY <1>1
<1>3. \A k \in 1..(n + 1) : k \in 1..n \/ k = n + 1
  BY <1>1
<1>4. /\ \A j, k \in 1..n : j < k => p[j] < p[k]
      /\ \A y \in T : \E k \in 1..n : p[k] = y
  BY DEF Enumerates
<1> HIDE DEF q, n
<1>5. ASSUME NEW j \in 1..Len(q), NEW k \in 1..Len(q), j < k PROVE q[j] < q[k]
  <2>1. CASE k \in 1..n
    <3>1. j \in 1..n
      BY <1>1, <1>2, <1>5, <2>1
    <3> QED
      BY <1>2, <1>4, <1>5, <2>1, <3>1
  <2>2. CASE k = n + 1
    <3>1. j \in 1..n
      BY <1>1, <1>2, <1>5, <2>2
    <3>2. q[j] \in T
      BY <1>1, <1>2, <3>1
    <3> QED
      BY <1>2, <2>2, <3>2
  <2> QED
    BY <1>2, <1>3, <2>1, <2>2
<1>6. ASSUME NEW y \in T \cup {x} PROVE \E k \in 1..Len(q) : q[k] = y
  <2>1. CASE y = x
    BY <1>1, <1>2, <2>1
  <2>2. CASE y \in T
    <3>1. PICK k \in 1..n : p[k] = y
      BY <1>4, <2>2
    <3>2. k \in 1..Len(q)
      BY <1>1, <1>2
    <3> QED
      BY <1>2, <3>1, <3>2
  <2> QED
    BY <2>1, <2>2
<1>7. Enumerates(q, T \cup {x})
  BY <1>2, <1>5, <1>6 DEF Enumerates
<1> QED
  BY <1>7 DEF q

LEMMA EnumeratesOne ==
    ASSUME NEW x \in Nat
    PROVE  Enumerates(<<x>>, {x})
  BY DEF Enumerates

LEMMA LeastIn ==
    ASSUME NEW S \in SUBSET Nat, S # {}
    PROVE  Min(S) \in S /\ \A y \in S : Min(S) <= y
<1> DEFINE P == {n \in Nat : n \notin S}
<1>1. \E m \in S : \A y \in S : m <= y
  <2> SUFFICES ASSUME \A m \in S : \E y \in S : ~ (m <= y) PROVE FALSE
    OBVIOUS
  <2>1. ASSUME NEW n \in Nat, \A m \in Nat : m < n => m \in P PROVE n \in P
    <3> SUFFICES ASSUME n \in S PROVE FALSE
      OBVIOUS
    <3>1. PICK y \in S : y < n
      OBVIOUS
    <3> QED
      BY <2>1, <3>1
  <2>2. P \in SUBSET Nat
    OBVIOUS
  <2> HIDE DEF P
  <2>3. P = Nat
    BY <2>1, <2>2, Ascent
  <2> QED
    BY <2>3 DEF P
<1> QED
  BY <1>1 DEF Min

----------------------------------------------------------------------------
(* A merged bar.                                                           *)

(* The bar of the parts at the places p of the stream.                     *)
Sources(p) == [k \in 1..Len(p) |-> BarAt(p[k])]

LEMMA SourcesAre ==
    ASSUME feed.log \in Seq(Bar), NEW p \in Seq(1..Len(feed.log)), p # <<>>
    PROVE  LET bs == Sources(p)
           IN  /\ Len(bs) = Len(p) /\ Len(p) \in Nat \ {0} /\ DOMAIN bs = 1..Len(p)
               /\ \A k \in 1..Len(p) : p[k] \in 1..Len(feed.log) /\ bs[k] = BarAt(p[k]) /\ bs[k] \in Bar
               /\ ToSet(bs) = {bs[k] : k \in 1..Len(p)}
               /\ ToSet(bs) \in SUBSET Bar /\ IsFiniteSet(ToSet(bs)) /\ ToSet(bs) # {}
<1> DEFINE bs == Sources(p)
           n == Len(p)
<1>1. n \in Nat \ {0} /\ \A k \in 1..n : p[k] \in 1..Len(feed.log)
  OBVIOUS
<1>2. bs = [k \in 1..n |-> BarAt(p[k])]
  BY DEF Sources
<1>3. ASSUME NEW k \in 1..n PROVE bs[k] = BarAt(p[k]) /\ bs[k] \in Bar
  <2>1. p[k] \in 1..Len(feed.log)
    BY <1>1
  <2> QED
    BY <1>2, <2>1 DEF BarAt
<1> HIDE DEF bs, n
<1>4. Len(bs) = n /\ DOMAIN bs = 1..n
  BY <1>1, <1>2
<1>5. ToSet(bs) = {bs[k] : k \in 1..n}
  BY <1>4 DEF ToSet
<1>6. ToSet(bs) \in SUBSET Bar /\ bs[1] \in ToSet(bs)
  BY <1>1, <1>3, <1>5
<1>7. IsFiniteSet(ToSet(bs))
  <2> DEFINE f == [k \in 1..n |-> bs[k]]
  <2>1. f \in Surjection(1..n, ToSet(bs))
    <3>1. f \in [1..n -> ToSet(bs)] /\ \A b \in ToSet(bs) : \E k \in 1..n : f[k] = b
      BY <1>5
    <3> HIDE DEF f
    <3> QED
      BY <3>1 DEF Surjection
  <2>2. IsFiniteSet(1..n)
    BY <1>1, FS_Interval
  <2> HIDE DEF f
  <2> QED
    BY <2>1, <2>2, FS_Surjection
<1> QED
  BY <1>1, <1>3, <1>4, <1>5, <1>6, <1>7 DEF bs, n

LEMMA MergeIs ==
    ASSUME NEW p
    PROVE  LET bs == Sources(p)
           IN  Merge(p) =
                 [inst |-> bs[1].inst, start |-> BucketFor(bs[1]), open |-> bs[1].open,
                  high |-> Max({b.high : b \in ToSet(bs)}),
                  low |-> Min({b.low : b \in ToSet(bs)}),
                  close |-> bs[Len(bs)].close,
                  volume |-> SumFunction([k \in DOMAIN bs |-> bs[k].volume]),
                  notional |-> SumFunction([k \in DOMAIN bs |-> bs[k].notional]),
                  ticks |-> SumFunction([k \in DOMAIN bs |-> bs[k].ticks]),
                  synthetic |-> \A b \in ToSet(bs) : b.synthetic]
  BY DEF Merge, Sources

LEMMA MergeIsBar ==
    ASSUME feed.log \in Seq(Bar), NEW p \in Seq(1..Len(feed.log)), p # <<>>,
           BucketFor(BarAt(p[1])) \in Nat
    PROVE  /\ Merge(p) \in Bar
           /\ Merge(p).inst = BarAt(p[1]).inst /\ Merge(p).start = BucketFor(BarAt(p[1]))
<1> DEFINE bs == Sources(p)
           n == Len(p)
<1>1. /\ Len(bs) = n /\ n \in Nat \ {0} /\ DOMAIN bs = 1..n
      /\ \A k \in 1..n : bs[k] = BarAt(p[k]) /\ bs[k] \in Bar
      /\ ToSet(bs) = {bs[k] : k \in 1..n}
      /\ ToSet(bs) \in SUBSET Bar /\ IsFiniteSet(ToSet(bs)) /\ ToSet(bs) # {}
  BY SourcesAre
<1>2. 1 \in 1..n /\ n \in 1..n /\ bs[1] \in Bar /\ bs[n] \in Bar /\ bs[1] = BarAt(p[1])
  BY <1>1
<1> DEFINE m == Merge(p)
           highs == {b.high : b \in ToSet(bs)}
           lows == {b.low : b \in ToSet(bs)}
<1>3. m = [inst |-> bs[1].inst, start |-> BucketFor(bs[1]), open |-> bs[1].open,
           high |-> Max(highs), low |-> Min(lows), close |-> bs[Len(bs)].close,
           volume |-> SumFunction([k \in DOMAIN bs |-> bs[k].volume]),
           notional |-> SumFunction([k \in DOMAIN bs |-> bs[k].notional]),
           ticks |-> SumFunction([k \in DOMAIN bs |-> bs[k].ticks]),
           synthetic |-> \A b \in ToSet(bs) : b.synthetic]
  BY MergeIs
<1> HIDE DEF bs, n, m
<1>0. ASSUME NEW b \in ToSet(bs)
      PROVE  /\ b.inst \in Instruments /\ b.high \in Nat /\ b.low \in Nat
             /\ b.open \in Nat /\ b.close \in Nat
             /\ b.volume \in Nat /\ b.notional \in Nat /\ b.ticks \in Nat
  <2>1. b \in Bar
    BY <1>1
  <2> QED
    BY <2>1 DEF Bar
<1>4. Max(highs) \in Nat
  <2>0. ASSUME NEW x \in highs PROVE x \in Nat
    <3>1. PICK b \in ToSet(bs) : x = b.high
      OBVIOUS
    <3> QED
      BY ONLY <1>0, <3>1
  <2>1. highs \in SUBSET Nat /\ highs # {}
    <3>1. PICK b : b \in ToSet(bs)
      BY <1>1
    <3>2. b.high \in highs
      BY <3>1
    <3> HIDE DEF highs
    <3> QED
      BY ONLY <2>0, <3>2
  <2> DEFINE f == [b \in ToSet(bs) |-> b.high]
  <2>2. f \in Surjection(ToSet(bs), highs)
    <3>1. f \in [ToSet(bs) -> highs] /\ \A x \in highs : \E b \in ToSet(bs) : f[b] = x
      OBVIOUS
    <3> HIDE DEF f, highs
    <3> QED
      BY <3>1 DEF Surjection
  <2> HIDE DEF f, highs
  <2>3. IsFiniteSet(highs)
    BY <1>1, <2>2, FS_Surjection
  <2> QED
    BY <2>1, <2>3, highs \in SUBSET Int, GreatestIn
<1>5. Min(lows) \in Nat
  <2>0. ASSUME NEW x \in lows PROVE x \in Nat
    <3>1. PICK b \in ToSet(bs) : x = b.low
      OBVIOUS
    <3> QED
      BY ONLY <1>0, <3>1
  <2>1. lows \in SUBSET Nat /\ lows # {}
    <3>1. PICK b : b \in ToSet(bs)
      BY <1>1
    <3>2. b.low \in lows
      BY <3>1
    <3> HIDE DEF lows
    <3> QED
      BY ONLY <2>0, <3>2
  <2> HIDE DEF lows
  <2> QED
    BY <2>1, LeastIn
<1>6. ASSUME NEW f, DOMAIN f = 1..n, \A k \in 1..n : f[k] \in Nat
      PROVE  SumFunction(f) \in Nat
  <2>1. IsFiniteSet(1..n)
    BY <1>1, FS_Interval
  <2> QED
    BY <1>6, <2>1, SumIsNat DEF SumFunction
<1>7. /\ SumFunction([k \in DOMAIN bs |-> bs[k].volume]) \in Nat
      /\ SumFunction([k \in DOMAIN bs |-> bs[k].notional]) \in Nat
      /\ SumFunction([k \in DOMAIN bs |-> bs[k].ticks]) \in Nat
  <2>1. \A k \in 1..n : bs[k].volume \in Nat /\ bs[k].notional \in Nat /\ bs[k].ticks \in Nat
    BY <1>0, <1>1
  <2> QED
    BY <1>1, <1>6, <2>1
<1>8. (\A b \in ToSet(bs) : b.synthetic) \in BOOLEAN
  OBVIOUS
<1> HIDE DEF highs, lows
<1>9. /\ bs[1].inst \in Instruments /\ bs[1].open \in Nat /\ bs[Len(bs)].close \in Nat
      /\ BucketFor(bs[1]) \in Nat
  BY <1>0, <1>1, <1>2
<1>10. m \in Bar /\ m.inst = bs[1].inst /\ m.start = BucketFor(bs[1])
  BY <1>3, <1>4, <1>5, <1>7, <1>8, <1>9 DEF Bar
<1> QED
  BY <1>2, <1>10 DEF m

(* Of bars that start one after the other, the merged bar is the one that  *)
(* a backtest resamples.                                                   *)
LEMMA MergeIsResampled ==
    ASSUME feed.log \in Seq(Bar), NEW p \in Seq(1..Len(feed.log)), p # <<>>,
           \A j, k \in 1..Len(p) : j < k => BarAt(p[j]).start < BarAt(p[k]).start
    PROVE  Merge(p) = Resampled(ToSet(Sources(p)), CoarseInterval)
<1> DEFINE bs == Sources(p)
           n == Len(p)
           S == ToSet(bs)
<1>1. /\ Len(bs) = n /\ n \in Nat \ {0} /\ DOMAIN bs = 1..n
      /\ \A k \in 1..n : bs[k] = BarAt(p[k]) /\ bs[k] \in Bar
      /\ S = {bs[k] : k \in 1..n}
      /\ S \in SUBSET Bar /\ IsFiniteSet(S) /\ S # {}
  BY SourcesAre
<1>2. \A j, k \in 1..n : j < k => bs[j].start < bs[k].start
  BY <1>1
<1>3. Merge(p) =
        [inst |-> bs[1].inst, start |-> BucketFor(bs[1]), open |-> bs[1].open,
         high |-> Max({b.high : b \in S}), low |-> Min({b.low : b \in S}),
         close |-> bs[Len(bs)].close,
         volume |-> SumFunction([k \in DOMAIN bs |-> bs[k].volume]),
         notional |-> SumFunction([k \in DOMAIN bs |-> bs[k].notional]),
         ticks |-> SumFunction([k \in DOMAIN bs |-> bs[k].ticks]),
         synthetic |-> \A b \in S : b.synthetic]
  BY MergeIs
<1> HIDE DEF bs, n, S
<1>4. ASSUME NEW k \in 1..n
      PROVE  /\ bs[k].start \in Nat /\ k \in Nat /\ bs[k] \in S
             /\ bs[k].volume \in Int /\ bs[k].notional \in Int /\ bs[k].ticks \in Int
  <2>1. bs[k] \in Bar /\ bs[k] \in S /\ k \in Nat
    BY <1>1
  <2> QED
    BY ONLY <2>1 DEF Bar
<1>5. \A j, k \in 1..n : bs[j].start = bs[k].start => j = k
  BY <1>2, <1>4
<1>6. 1 \in 1..n /\ n \in 1..n
  BY <1>1
<1>7. First(S) = bs[1]
  <2>1. First(S) \in S /\ \A c \in S : First(S).start <= c.start
    BY <1>1, FirstIs DEF Bar
  <2>2. PICK k \in 1..n : First(S) = bs[k]
    BY <1>1, <2>1
  <2>3. bs[k].start <= bs[1].start
    BY <1>4, <1>6, <2>1, <2>2
  <2>4. k = 1
    <3> SUFFICES ASSUME k # 1 PROVE FALSE
      OBVIOUS
    <3>1. 1 < k
      BY <1>4
    <3> QED
      BY <1>2, <1>4, <1>6, <2>3, <3>1
  <2> QED
    BY <2>2, <2>4
<1>8. Final(S) = bs[n]
  <2>1. Final(S) \in S /\ \A c \in S : c.start <= Final(S).start
    BY <1>1, FinalIs DEF Bar
  <2>2. PICK k \in 1..n : Final(S) = bs[k]
    BY <1>1, <2>1
  <2>3. bs[n].start <= bs[k].start
    BY <1>4, <1>6, <2>1, <2>2
  <2>4. k = n
    <3> SUFFICES ASSUME k # n PROVE FALSE
      OBVIOUS
    <3>1. k < n
      BY <1>1, <1>4
    <3> QED
      BY <1>2, <1>4, <1>6, <2>3, <3>1
  <2> QED
    BY <2>2, <2>4
<1>9. ASSUME NEW f, NEW g, DOMAIN f = 1..n, \A k \in 1..n : g[bs[k]] = f[k] /\ f[k] \in Int
      PROVE  SumFunction(f) = SumFunctionOnSet(g, S)
  <2> DEFINE I == 1..n
  <2>1. IsFiniteSet(I)
    BY <1>1, FS_Interval
  <2>2. \A j, k \in I : bs[j] = bs[k] => j = k
    BY <1>5
  <2>3. \A k \in I : g[bs[k]] = f[k] /\ f[k] \in Int
    BY <1>9
  <2> HIDE DEF I
  <2>4. SumFunctionOnSet(g, {bs[k] : k \in I}) = SumFunctionOnSet(f, I)
    BY ONLY <2>1, <2>2, <2>3, SumOfPlaces
  <2> QED
    BY <1>1, <1>9, <2>4 DEF SumFunction, I
<1>10. \A k \in 1..n : bs[k].volume \in Int /\ bs[k].notional \in Int /\ bs[k].ticks \in Int
  BY <1>4
<1>11. SumFunction([k \in DOMAIN bs |-> bs[k].volume]) = Total(S, LAMBDA b : b.volume)
  <2> DEFINE f == [k \in DOMAIN bs |-> bs[k].volume]
             g == [b \in S |-> b.volume]
  <2>1. DOMAIN f = 1..n /\ \A k \in 1..n : g[bs[k]] = f[k] /\ f[k] \in Int
    BY <1>1, <1>4, <1>10
  <2> HIDE DEF f, g
  <2>2. SumFunction(f) = SumFunctionOnSet(g, S)
    BY <1>9, <2>1
  <2> QED
    BY <2>2 DEF f, g, Total
<1>12. SumFunction([k \in DOMAIN bs |-> bs[k].notional]) = Total(S, LAMBDA b : b.notional)
  <2> DEFINE f == [k \in DOMAIN bs |-> bs[k].notional]
             g == [b \in S |-> b.notional]
  <2>1. DOMAIN f = 1..n /\ \A k \in 1..n : g[bs[k]] = f[k] /\ f[k] \in Int
    BY <1>1, <1>4, <1>10
  <2> HIDE DEF f, g
  <2>2. SumFunction(f) = SumFunctionOnSet(g, S)
    BY <1>9, <2>1
  <2> QED
    BY <2>2 DEF f, g, Total
<1>13. SumFunction([k \in DOMAIN bs |-> bs[k].ticks]) = Total(S, LAMBDA b : b.ticks)
  <2> DEFINE f == [k \in DOMAIN bs |-> bs[k].ticks]
             g == [b \in S |-> b.ticks]
  <2>1. DOMAIN f = 1..n /\ \A k \in 1..n : g[bs[k]] = f[k] /\ f[k] \in Int
    BY <1>1, <1>4, <1>10
  <2> HIDE DEF f, g
  <2>2. SumFunction(f) = SumFunctionOnSet(g, S)
    BY <1>9, <2>1
  <2> QED
    BY <2>2 DEF f, g, Total
<1>14. BucketOf(bs[1], CoarseInterval) = BucketFor(bs[1])
  BY DEF BucketOf, BucketFor
<1>15. Merge(p) = Resampled(S, CoarseInterval)
  BY <1>1, <1>3, <1>7, <1>8, <1>11, <1>12, <1>13, <1>14 DEF Resampled
<1> QED
  BY <1>15 DEF S, bs

----------------------------------------------------------------------------
(* The stream that the strategy reads.                                     *)

KeyAt(n) == <<BarAt(n).inst, BucketFor(BarAt(n))>>

(* Bars of sessions: of an instrument in order, all of one day before any  *)
(* of the next.                                                            *)
InSessions ==
    /\ \A n \in 1..Len(feed.log) : /\ IsTradingDay(DateOf(BarAt(n).start))
                                   /\ SessionOpen <= TimeOf(BarAt(n).start)
    /\ \A m, n \in 1..Len(feed.log) : m < n =>
          /\ DateOf(BarAt(m).start) <= DateOf(BarAt(n).start)
          /\ BarAt(m).inst = BarAt(n).inst => BarAt(m).start <= BarAt(n).start

LEMMA BucketsRise ==
    ASSUME NEW b, b.start \in Nat, SessionOpen <= TimeOf(b.start),
           NEW c, c.start \in Nat, SessionOpen <= TimeOf(c.start), b.start <= c.start,
           NEW n \in Nat \ {0}
    PROVE  BucketOf(b, n) <= BucketOf(c, n)
<1> DEFINE s == BucketOf(b, n)
           t == BucketOf(c, n)
<1>1. s \in Nat /\ s <= b.start /\ DateOf(s) = DateOf(b.start)
  BY Bucket
<1>2. t \in Nat /\ t <= c.start /\ c.start < t + n /\ DateOf(t) = DateOf(c.start)
  BY Bucket
<1>3. ASSUME t < s PROVE FALSE
  <2> HIDE DEF s, t
  <2>1. t <= b.start /\ b.start < t + n
    BY <1>1, <1>2, <1>3
  <2>2. DateOf(t) <= DateOf(s) /\ DateOf(s) <= DateOf(c.start)
    BY <1>1, <1>2, <1>3, DatesRise
  <2>3. DateOf(b.start) = DateOf(c.start)
    <3>1. DateOf(s) \in Nat /\ DateOf(t) \in Nat
      BY <1>1, <1>2, DatesRise
    <3> QED
      BY <1>1, <1>2, <2>2, <3>1
  <2>4. BucketOf(b, n) = BucketOf(c, n)
    BY <2>1, <2>3, BucketIs DEF t
  <2>5. s = t
    BY <2>4 DEF s, t
  <2> QED
    BY <1>1, <1>3, <2>5
<1> HIDE DEF s, t
<1>4. s <= t
  BY <1>1, <1>2, <1>3
<1> QED
  BY <1>4 DEF s, t

LEMMA PlaceIs ==
    ASSUME feed.log \in Seq(Bar), InSessions, NEW n \in 1..Len(feed.log)
    PROVE  /\ n \in Nat /\ BarAt(n) \in Bar /\ BarAt(n).inst \in Instruments
           /\ BarAt(n).start \in Nat /\ DateOf(BarAt(n).start) \in Nat
           /\ SessionOpen <= TimeOf(BarAt(n).start) /\ IsTradingDay(DateOf(BarAt(n).start))
           /\ BucketFor(BarAt(n)) = BucketOf(BarAt(n), CoarseInterval)
           /\ BucketFor(BarAt(n)) \in Nat
           /\ DateOf(BucketFor(BarAt(n))) = DateOf(BarAt(n).start)
<1>1. BarAt(n) \in Bar
  BY DEF BarAt
<1>2. BarAt(n).inst \in Instruments /\ BarAt(n).start \in Nat
  BY <1>1 DEF Bar
<1>3. SessionOpen <= TimeOf(BarAt(n).start) /\ IsTradingDay(DateOf(BarAt(n).start))
  BY DEF InSessions
<1>4. BucketFor(BarAt(n)) = BucketOf(BarAt(n), CoarseInterval)
  BY DEF BucketOf, BucketFor
<1>5. CoarseInterval \in Nat \ {0}
  BY StrategyAssumption, BarsAssumption
<1>6. BucketOf(BarAt(n), CoarseInterval) \in Nat
      /\ DateOf(BucketOf(BarAt(n), CoarseInterval)) = DateOf(BarAt(n).start)
  BY <1>2, <1>3, <1>5, Bucket
<1>7. DateOf(BarAt(n).start) \in Nat
  BY <1>2, DatesRise
<1> QED
  BY <1>1, <1>2, <1>3, <1>4, <1>6, <1>7

LEMMA PlacesRise ==
    ASSUME feed.log \in Seq(Bar), InSessions,
           NEW m \in 1..Len(feed.log), NEW n \in 1..Len(feed.log), m <= n
    PROVE  /\ DateOf(BarAt(m).start) <= DateOf(BarAt(n).start)
           /\ BarAt(m).inst = BarAt(n).inst => /\ BarAt(m).start <= BarAt(n).start
                                               /\ BucketFor(BarAt(m)) <= BucketFor(BarAt(n))
<1>1. CASE m = n
  BY <1>1, PlaceIs
<1>2. CASE m < n
  <2>1. DateOf(BarAt(m).start) <= DateOf(BarAt(n).start)
    BY <1>2 DEF InSessions
  <2>2. ASSUME BarAt(m).inst = BarAt(n).inst
        PROVE  /\ BarAt(m).start <= BarAt(n).start
               /\ BucketFor(BarAt(m)) <= BucketFor(BarAt(n))
    <3>1. BarAt(m).start <= BarAt(n).start
      BY <1>2, <2>2 DEF InSessions
    <3>2. CoarseInterval \in Nat \ {0}
      BY StrategyAssumption, BarsAssumption
    <3>3. /\ BarAt(m).start \in Nat /\ SessionOpen <= TimeOf(BarAt(m).start)
          /\ BarAt(n).start \in Nat /\ SessionOpen <= TimeOf(BarAt(n).start)
          /\ BucketFor(BarAt(m)) = BucketOf(BarAt(m), CoarseInterval)
          /\ BucketFor(BarAt(n)) = BucketOf(BarAt(n), CoarseInterval)
      BY PlaceIs
    <3>4. BucketOf(BarAt(m), CoarseInterval) <= BucketOf(BarAt(n), CoarseInterval)
      BY <3>1, <3>2, <3>3, BucketsRise
    <3> QED
      BY <3>1, <3>3, <3>4
  <2> QED
    BY <2>1, <2>2
<1> QED
  BY <1>1, <1>2

(* The strategy's group is past the interval of the bar at m.              *)
PassedBy(m, e) ==
    \/ DateOf(BarAt(m).start) < DateOf(BarAt(e).start)
    \/ BarAt(m).inst = BarAt(e).inst /\ BucketFor(BarAt(m)) < BucketFor(BarAt(e))

LEMMA PassedForGood ==
    ASSUME feed.log \in Seq(Bar), InSessions,
           NEW m \in 1..Len(feed.log), NEW e \in 1..Len(feed.log), PassedBy(m, e),
           NEW n \in 1..Len(feed.log), e <= n
    PROVE  KeyAt(n) # KeyAt(m)
<1> SUFFICES ASSUME KeyAt(n) = KeyAt(m) PROVE FALSE
  OBVIOUS
<1>1. BarAt(n).inst = BarAt(m).inst /\ BucketFor(BarAt(n)) = BucketFor(BarAt(m))
  BY DEF KeyAt
<1>2. /\ DateOf(BarAt(m).start) \in Nat /\ BucketFor(BarAt(m)) \in Nat
      /\ DateOf(BucketFor(BarAt(m))) = DateOf(BarAt(m).start)
      /\ DateOf(BarAt(e).start) \in Nat /\ BucketFor(BarAt(e)) \in Nat
      /\ DateOf(BucketFor(BarAt(n))) = DateOf(BarAt(n).start)
      /\ DateOf(BarAt(n).start) \in Nat
  BY PlaceIs
<1>3. DateOf(BarAt(n).start) = DateOf(BarAt(m).start)
  BY <1>1, <1>2
<1>4. CASE DateOf(BarAt(m).start) < DateOf(BarAt(e).start)
  <2>1. DateOf(BarAt(e).start) <= DateOf(BarAt(n).start)
    BY PlacesRise
  <2> QED
    BY <1>2, <1>3, <1>4, <2>1
<1>5. CASE BarAt(m).inst = BarAt(e).inst /\ BucketFor(BarAt(m)) < BucketFor(BarAt(e))
  <2>1. BucketFor(BarAt(e)) <= BucketFor(BarAt(n))
    BY <1>1, <1>5, PlacesRise
  <2> QED
    BY <1>1, <1>2, <1>5, <2>1
<1> QED
  BY <1>4, <1>5 DEF PassedBy

----------------------------------------------------------------------------
(* The bars that are shown.                                                *)

(* What is promised of a bar shown when entry h was handled, d in doubt.   *)
Right(c, h, d) ==
    \/ <<c.inst, c.start>> \in d
    \/ /\ c = Merge(PartsOf(c, h))
       /\ \/ \E m, n \in 1..Len(PartsOf(c, h)) :
                m < n /\ BarAt(PartsOf(c, h)[m]).start = BarAt(PartsOf(c, h)[n]).start
          \/ c \in ResampleFrame(Stored(c.inst, h), CoarseInterval)

ShownRight == \A k \in 1..Len(shown) : Right(shown[k], handled, doubt)

LEMMA RightIsPromised == ASSUME ShownRight PROVE BacktestSeesTheSame
<1>1. \A k \in 1..Len(shown) : Right(shown[k], handled, doubt)
  BY DEF ShownRight
<1> QED
  BY <1>1 DEF BacktestSeesTheSame, CoarseBarsAreWhole, Right

(* The entries of an interval up to entry h.                               *)
Entries(i, s, h) == {m \in 1..h : KeyAt(m) = <<i, s>>}

(* A bar merged from all entries of its interval up to entry h.            *)
LEMMA WholeIsRight ==
    ASSUME feed.log \in Seq(Bar), InSessions, NEW h \in 1..Len(feed.log),
           NEW i \in Instruments, NEW s, NEW p, p # <<>>, NEW d,
           Enumerates(p, Entries(i, s, h))
    PROVE  Merge(p).inst = i /\ Merge(p).start = s /\ Right(Merge(p), h, d)
<1> SUFFICES ASSUME NEW T, T = {m \in 1..h : KeyAt(m) = <<i, s>>}, Enumerates(p, T)
             PROVE  Merge(p).inst = i /\ Merge(p).start = s /\ Right(Merge(p), h, d)
  BY DEF Entries
<1> DEFINE c == Merge(p)
           bs == Sources(p)
<1>1. /\ h \in Nat /\ Len(feed.log) \in Nat /\ h <= Len(feed.log)
      /\ T \in SUBSET Nat /\ T \in SUBSET (1..Len(feed.log))
  OBVIOUS
<1>2. /\ p \in Seq(T) /\ p \in Seq(1..Len(feed.log))
      /\ \A j, k \in 1..Len(p) : j < k => p[j] < p[k]
      /\ \A x \in T : \E k \in 1..Len(p) : p[k] = x
  <2>1. p \in Seq(T)
    BY DEF Enumerates
  <2>2. p \in Seq(1..Len(feed.log))
    <3> DEFINE L == 1..Len(feed.log)
    <3>1. T \in SUBSET L
      BY <1>1
    <3> HIDE DEF L
    <3>2. p \in Seq(L)
      BY <2>1, <3>1
    <3> QED
      BY <3>2 DEF L
  <2> QED
    BY <2>1, <2>2 DEF Enumerates
<1>3. ASSUME NEW k \in 1..Len(p)
      PROVE  /\ p[k] \in 1..h /\ p[k] \in 1..Len(feed.log) /\ p[k] \in Nat /\ k \in Nat
             /\ KeyAt(p[k]) = <<i, s>> /\ p[k] \in T
             /\ BarAt(p[k]).inst = i /\ BucketFor(BarAt(p[k])) = s
             /\ BarAt(p[k]).start \in Nat /\ IsTradingDay(DateOf(BarAt(p[k]).start))
             /\ BucketOf(BarAt(p[k]), CoarseInterval) = s /\ s \in Nat
  <2>1. p[k] \in T /\ k \in Nat
    BY <1>2
  <2>2. p[k] \in 1..h /\ p[k] \in 1..Len(feed.log) /\ p[k] \in Nat /\ KeyAt(p[k]) = <<i, s>>
    BY <1>1, <2>1
  <2>3. BarAt(p[k]).inst = i /\ BucketFor(BarAt(p[k])) = s
    BY <2>2 DEF KeyAt
  <2> QED
    BY <2>1, <2>2, <2>3, PlaceIs
<1>4. 1 \in 1..Len(p)
  BY <1>2
<1> HIDE DEF c, bs
<1>5. c.inst = i /\ c.start = s
  BY <1>2, <1>3, <1>4, MergeIsBar DEF c
<1>6. PartsOf(c, h) = p
  <2>1. {m \in 1..h : BarAt(m).inst = c.inst /\ BucketFor(BarAt(m)) = c.start} = T
    BY <1>5 DEF KeyAt
  <2>2. PartsOf(c, h) = Ordered(T, LAMBDA l, m : l < m)
    BY <2>1 DEF PartsOf
  <2>3. Enumerates(p, T)
    OBVIOUS
  <2> QED
    BY <1>1, <2>2, <2>3, EnumeratesIs
<1>7. ASSUME \A m, n \in 1..Len(p) : ~ (m < n /\ BarAt(p[m]).start = BarAt(p[n]).start)
      PROVE  c \in ResampleFrame(Stored(i, h), CoarseInterval)
  <2> DEFINE frame == Stored(i, h)
             held == {b \in frame : IsTradingDay(DateOf(b.start))}
             S == {b \in held : BucketOf(b, CoarseInterval) = s}
  <2>1. ASSUME NEW j \in 1..Len(p), NEW k \in 1..Len(p), j < k
        PROVE  BarAt(p[j]).start < BarAt(p[k]).start
    <3>1. p[j] < p[k]
      BY <1>2, <2>1
    <3>2. p[j] <= p[k]
      BY <1>3, <3>1
    <3>3. BarAt(p[j]).start <= BarAt(p[k]).start
      BY <1>3, <3>2, PlacesRise
    <3>4. BarAt(p[j]).start # BarAt(p[k]).start
      BY <1>7, <2>1
    <3> QED
      BY <1>3, <3>3, <3>4
  <2>2. ToSet(bs) = {BarAt(p[k]) : k \in 1..Len(p)}
    <3>1. ToSet(bs) = {bs[k] : k \in 1..Len(p)} /\ \A k \in 1..Len(p) : bs[k] = BarAt(p[k])
      BY <1>2, SourcesAre DEF bs
    <3> QED
      BY <3>1
  <2>3. ASSUME NEW k \in 1..Len(p) PROVE BarAt(p[k]) \in S
    <3>1. ASSUME NEW l \in (p[k] + 1)..h, BarAt(l).inst = i PROVE BarAt(l).start # BarAt(p[k]).start
      <4> SUFFICES ASSUME BarAt(l).start = BarAt(p[k]).start PROVE FALSE
        OBVIOUS
      <4>1. l \in 1..h /\ p[k] < l
        BY <1>1, <1>3
      <4>2. KeyAt(l) = <<i, s>>
        BY <1>3, <3>1 DEF KeyAt, BucketFor
      <4>3. PICK q \in 1..Len(p) : p[q] = l
        BY <1>2, <4>1, <4>2
      <4>4. q \in Nat /\ k \in Nat /\ p[k] \in Nat
        BY <1>3
      <4>5. k < q
        <5>1. ~ (q < k) /\ q # k
          <6>1. q < k => p[q] < p[k]
            BY <1>2
          <6> QED
            BY <1>3, <4>1, <4>3, <6>1
        <5> QED
          BY <4>4, <5>1
      <4> QED
        BY <2>1, <1>3, <4>3, <4>5
    <3>2. BarAt(p[k]) \in frame
      BY <1>3, <3>1 DEF Stored
    <3> QED
      BY <1>3, <3>2
  <2>4. ASSUME NEW b \in S PROVE \E k \in 1..Len(p) : b = BarAt(p[k])
    <3>1. b \in frame /\ BucketOf(b, CoarseInterval) = s
      OBVIOUS
    <3>2. PICK m \in 1..h : b = BarAt(m) /\ BarAt(m).inst = i
      BY <3>1 DEF Stored
    <3>3. m \in 1..Len(feed.log)
      BY <1>1
    <3>4. BucketFor(BarAt(m)) = s
      BY <3>1, <3>2, <3>3, PlaceIs
    <3>5. m \in T
      BY <3>2, <3>4 DEF KeyAt
    <3> QED
      BY <1>2, <3>2, <3>5
  <2>5. ToSet(bs) = S
    <3> HIDE DEF S
    <3> QED
      BY <2>2, <2>3, <2>4
  <2>6. c = Resampled(S, CoarseInterval)
    BY <1>2, <2>1, <2>5, MergeIsResampled DEF c, bs
  <2>7. s \in {BucketOf(b, CoarseInterval) : b \in held}
    BY <1>4, <2>3
  <2> QED
    BY <2>6, <2>7 DEF ResampleFrame
<1>8. Right(c, h, d)
  <2> HIDE DEF c
  <2>1. c = Merge(p)
    BY DEF c
  <2> QED
    BY <1>5, <1>6, <1>7, <2>1 DEF Right
<1> QED
  BY <1>5, <1>8 DEF c

----------------------------------------------------------------------------
(* What the strategy has of the stream: buckets bks, intervals in doubt d, *)
(* entries taken T and entries at hand B.                                  *)

BucketsType == [Instruments -> [start : Nat \cup {None}, parts : Seq(Nat)]]

HeldIn(bks) == {i \in Instruments : bks[i].start # None}

Keyed(bks) ==
    \A i \in HeldIn(bks) :
        /\ bks[i].parts \in Seq(1..feed.cursor) /\ bks[i].parts # <<>>
        /\ \A k \in 1..Len(bks[i].parts) : KeyAt(bks[i].parts[k]) = <<i, bks[i].start>>

OneDay(bks) == \A i, j \in HeldIn(bks) : DateOf(bks[i].start) = DateOf(bks[j].start)

(* A bucket holds all that was taken of its interval, in order.            *)
Complete(bks, d, T) ==
    \A i \in HeldIn(bks) :
        \/ <<i, bks[i].start>> \in d
        \/ Enumerates(bks[i].parts, {m \in T : KeyAt(m) = <<i, bks[i].start>>})

(* What was taken is in its bucket, or its interval is over.               *)
Over(m, B) ==
    /\ \A n \in B : KeyAt(n) # KeyAt(m)
    /\ \E e \in 1..feed.cursor : PassedBy(m, e)

LeftBehind(bks, d, T, B) ==
    \A m \in T : \/ KeyAt(m) \in d
                 \/ bks[BarAt(m).inst].start = BucketFor(BarAt(m))
                 \/ Over(m, B)

InTurn(d, T, B) == \A m \in T, n \in B : KeyAt(n) \in d \/ m < n

Merging(bks, d, T, B) ==
    /\ bks \in BucketsType /\ Keyed(bks) /\ OneDay(bks)
    /\ Complete(bks, d, T) /\ LeftBehind(bks, d, T, B) /\ InTurn(d, T, B)

Tried == (1..feed.cursor) \ batch

(* Without what is promised of the bars shown.                             *)
StreamInv ==
    /\ feed \in Group(Bar) /\ batch \subseteq feed.pending /\ InSessions
    /\ Merging(buckets, doubt, Tried, batch)
    /\ \A n \in feed.pending : n \in batch \/ KeyAt(n) \in doubt

LEMMA FeedIs ==
    ASSUME NEW g \in Group(Bar)
    PROVE  /\ g.log \in Seq(Bar) /\ Len(g.log) \in Nat /\ g.cursor \in Nat
           /\ g.cursor <= Len(g.log) /\ g.pending \subseteq 1..g.cursor
           /\ 1..g.cursor \subseteq 1..Len(g.log)
  BY DEF Group, GroupOf, WellFormed

LEMMA AtHand ==
    ASSUME StreamInv, batch # {}, NEW n, n = Min(batch)
    PROVE  /\ n \in batch /\ n \in feed.pending /\ n \in 1..feed.cursor
           /\ n \in 1..Len(feed.log) /\ n \in Nat /\ n \notin Tried
           /\ \A x \in batch : x \in 1..feed.cursor /\ x \in Nat /\ n <= x
<1>1. feed.pending \subseteq 1..feed.cursor /\ 1..feed.cursor \subseteq 1..Len(feed.log)
      /\ batch \subseteq feed.pending /\ feed.cursor \in Nat
  BY FeedIs DEF StreamInv
<1>2. batch \in SUBSET Nat
  BY <1>1
<1>3. Min(batch) \in batch /\ \A y \in batch : Min(batch) <= y
  BY <1>2, LeastIn
<1> QED
  BY <1>1, <1>2, <1>3 DEF Tried

(* A held bucket is that of its parts.                                     *)
LEMMA HeldIs ==
    ASSUME feed \in Group(Bar), InSessions, NEW bks, Keyed(bks), NEW i \in HeldIn(bks)
    PROVE  LET p == bks[i].parts
           IN  /\ i \in Instruments /\ bks[i].start \in Nat /\ DateOf(bks[i].start) \in Nat
               /\ p # <<>> /\ p \in Seq(1..Len(feed.log))
               /\ Merge(p) \in Bar /\ Merge(p).inst = i /\ Merge(p).start = bks[i].start
<1> DEFINE p == bks[i].parts
<1>1. /\ feed.log \in Seq(Bar) /\ feed.cursor \in Nat /\ Len(feed.log) \in Nat
      /\ 1..feed.cursor \subseteq 1..Len(feed.log)
  BY FeedIs
<1>2. /\ p \in Seq(1..feed.cursor) /\ p # <<>> /\ i \in Instruments
      /\ \A k \in 1..Len(p) : KeyAt(p[k]) = <<i, bks[i].start>>
  BY DEF Keyed, HeldIn
<1> HIDE DEF p
<1>3. p \in Seq(1..Len(feed.log))
  <2> DEFINE L == 1..Len(feed.log)
             C == 1..feed.cursor
  <2>1. p \in Seq(C) /\ C \in SUBSET L
    BY <1>1, <1>2
  <2> HIDE DEF L, C
  <2>2. p \in Seq(L)
    BY <2>1
  <2> QED
    BY <2>2 DEF L
<1>4. 1 \in 1..Len(p) /\ p[1] \in 1..Len(feed.log)
  BY <1>2, <1>3
<1>5. BarAt(p[1]).inst = i /\ BucketFor(BarAt(p[1])) = bks[i].start
  BY <1>2, <1>4 DEF KeyAt
<1>6. bks[i].start \in Nat
  BY <1>1, <1>4, <1>5, PlaceIs
<1>7. Merge(p) \in Bar /\ Merge(p).inst = i /\ Merge(p).start = bks[i].start
  BY <1>1, <1>2, <1>3, <1>5, <1>6, MergeIsBar
<1> QED
  BY <1>2, <1>3, <1>6, <1>7, DatesRise DEF p

(* A bar of another day closes all buckets, one of the same day none.      *)
LEMMA LeftoversAre ==
    ASSUME StreamInv, NEW n \in 1..Len(feed.log)
    PROVE  \/ /\ Leftovers(n) = {} /\ Flushed(n) = buckets
              /\ \A i \in HeldIn(buckets) : DateOf(buckets[i].start) = DateOf(BarAt(n).start)
           \/ /\ Leftovers(n) = HeldIn(buckets) /\ Flushed(n) = [i \in Instruments |-> NoBucket]
              /\ \A i \in HeldIn(buckets) : DateOf(buckets[i].start) # DateOf(BarAt(n).start)
<1>1. Held = HeldIn(buckets)
  BY DEF Held, HeldIn
<1>2. OneDay(buckets) /\ buckets \in BucketsType
  BY DEF StreamInv, Merging
<1>3. CASE \E i \in Held : DateOf(buckets[i].start) # DateOf(BarAt(n).start)
  <2>1. Leftovers(n) = Held /\ Held # {}
    BY <1>3 DEF Leftovers
  <2>2. Flushed(n) = [i \in Instruments |-> NoBucket]
    BY <2>1 DEF Flushed
  <2>3. \A i \in HeldIn(buckets) : DateOf(buckets[i].start) # DateOf(BarAt(n).start)
    BY <1>1, <1>2, <1>3 DEF OneDay
  <2> QED
    BY <1>1, <2>1, <2>2, <2>3
<1>4. CASE \A i \in Held : DateOf(buckets[i].start) = DateOf(BarAt(n).start)
  <2>1. Leftovers(n) = {}
    BY <1>4 DEF Leftovers
  <2>2. Flushed(n) = [i \in Instruments |-> buckets[i]]
    BY <2>1 DEF Flushed
  <2>3. buckets = [i \in Instruments |-> buckets[i]]
    BY <1>2 DEF BucketsType
  <2> QED
    BY <1>1, <1>4, <2>1, <2>2, <2>3
<1> QED
  BY <1>3, <1>4

(* A bucket that bar n does not spoil is not of a later day, and of n's    *)
(* instrument not of a later interval.                                     *)
LEMMA Unspoiled ==
    ASSUME StreamInv, NEW n \in 1..Len(feed.log), NEW i \in HeldIn(buckets),
           <<i, buckets[i].start>> \notin Spoils(n)
    PROVE  /\ DateOf(buckets[i].start) <= DateOf(BarAt(n).start)
           /\ i = BarAt(n).inst => buckets[i].start <= BucketFor(BarAt(n))
<1> DEFINE s == BucketFor(BarAt(n))
           passed == {j \in Held : \/ DateOf(s) < DateOf(buckets[j].start)
                                   \/ j = BarAt(n).inst /\ s < buckets[j].start}
<1>1. Spoils(n) = {<<j, buckets[j].start>> : j \in passed}
                    \cup (IF (\E m \in 1..n - 1 : BarAt(m).inst = BarAt(n).inst /\ BucketFor(BarAt(m)) > s)
                              \/ passed # {} THEN {<<BarAt(n).inst, s>>} ELSE {})
  BY DEF Spoils
<1>2. i \notin passed
  BY <1>1
<1>3. i \in Held
  BY DEF Held, HeldIn
<1>4. ~ (DateOf(s) < DateOf(buckets[i].start)) /\ ~ (i = BarAt(n).inst /\ s < buckets[i].start)
  BY <1>2, <1>3
<1>5. feed.log \in Seq(Bar) /\ InSessions /\ feed \in Group(Bar) /\ Keyed(buckets)
  BY FeedIs DEF StreamInv, Merging
<1>6. s \in Nat /\ DateOf(s) = DateOf(BarAt(n).start) /\ DateOf(s) \in Nat
  BY <1>5, PlaceIs
<1>7. buckets[i].start \in Nat /\ DateOf(buckets[i].start) \in Nat
  BY <1>5, HeldIs
<1> HIDE DEF s, passed
<1>8. DateOf(buckets[i].start) <= DateOf(BarAt(n).start)
      /\ (i = BarAt(n).inst => buckets[i].start <= s)
  BY <1>4, <1>6, <1>7
<1> QED
  BY <1>8 DEF s

(* What add leaves of the buckets flushed before.                          *)
LEMMA AddedIs ==
    ASSUME NEW n, Flushed(n) \in BucketsType
    PROVE  LET i    == BarAt(n).inst
               own  == Flushed(n)[i]
               s    == BucketFor(BarAt(n))
           IN  Added(n).buckets
                 = [Flushed(n) EXCEPT ![i] =
                      [start |-> s, parts |-> Append(IF own.start = s THEN own.parts ELSE <<>>, n)]]
  BY DEF Added, AddTo

(* Handling an entry, to the end or not, keeps the order of things.        *)
LEMMA HandledMerges ==
    ASSUME StreamInv, batch # {}, NEW n, n = Min(batch),
           NEW d, doubt \cup Spoils(n) \subseteq d, NEW bks,
           \/ bks = Added(n).buckets
           \/ bks = Flushed(n) /\ KeyAt(n) \in d
    PROVE  Merging(bks, d, Tried \cup {n}, batch \ {n})
<1> DEFINE i0   == BarAt(n).inst
           s    == BucketFor(BarAt(n))
           day  == DateOf(BarAt(n).start)
           fl   == Flushed(n)
           own  == IF fl[i0].start = s THEN fl[i0].parts ELSE <<>>
           T    == Tried \cup {n}
           B    == batch \ {n}
<1>1. /\ n \in batch /\ n \in feed.pending /\ n \in 1..feed.cursor
      /\ n \in 1..Len(feed.log) /\ n \in Nat /\ n \notin Tried
      /\ \A x \in batch : x \in 1..feed.cursor /\ x \in Nat /\ n <= x
  BY AtHand
<1>2. /\ feed \in Group(Bar) /\ InSessions
      /\ buckets \in BucketsType /\ Keyed(buckets) /\ OneDay(buckets)
      /\ Complete(buckets, doubt, Tried) /\ LeftBehind(buckets, doubt, Tried, batch)
      /\ InTurn(doubt, Tried, batch)
  BY DEF StreamInv, Merging
<1>3. /\ feed.log \in Seq(Bar) /\ feed.cursor \in Nat /\ Len(feed.log) \in Nat
      /\ 1..feed.cursor \subseteq 1..Len(feed.log)
  BY <1>2, FeedIs
<1>4. /\ i0 \in Instruments /\ s \in Nat /\ s # None /\ DateOf(s) = day /\ day \in Nat
      /\ KeyAt(n) = <<i0, s>>
  BY <1>1, <1>2, <1>3, PlaceIs DEF None, KeyAt
<1>5. \/ fl = buckets /\ \A i \in HeldIn(buckets) : DateOf(buckets[i].start) = day
      \/ fl = [i \in Instruments |-> NoBucket] /\ \A i \in HeldIn(buckets) : DateOf(buckets[i].start) # day
  BY <1>1, LeftoversAre
<1>6. fl \in BucketsType
  <2>1. NoBucket \in [start : Nat \cup {None}, parts : Seq(Nat)]
    BY DEF NoBucket
  <2> QED
    BY <1>2, <1>5, <2>1 DEF BucketsType
<1>7. \A i \in Instruments : fl[i] = buckets[i] \/ (fl[i] = NoBucket /\ fl[i].start = None)
  BY <1>5 DEF NoBucket
<1>8. \A i \in HeldIn(fl) : i \in HeldIn(buckets) /\ fl[i] = buckets[i] /\ fl = buckets
  BY <1>5, <1>7 DEF HeldIn, NoBucket
<1>9. /\ Tried \subseteq 1..feed.cursor
      /\ \A m \in Tried : m \in 1..Len(feed.log) /\ m \in Nat /\ BarAt(m).inst \in Instruments
  <2>1. Tried \subseteq 1..feed.cursor
    BY DEF Tried
  <2> QED
    BY <1>2, <1>3, <2>1, PlaceIs
<1>10. Added(n).buckets = [fl EXCEPT ![i0] = [start |-> s, parts |-> Append(own, n)]]
  BY <1>6, AddedIs
<1> HIDE DEF i0, s, day, fl, own, T, B
<1>11. own \in Seq(Nat) /\ (own = <<>> \/ (fl[i0].start = s /\ own = fl[i0].parts))
  BY <1>4, <1>6 DEF own, BucketsType
<1>12. Append(own, n) \in Seq(Nat) /\ Append(own, n) # <<>>
  <2>1. own \in Seq(Nat) /\ n \in Nat
    BY <1>1, <1>11
  <2>2. Append(own, n) \in Seq(Nat) /\ Len(Append(own, n)) = Len(own) + 1 /\ Len(own) \in Nat
    BY <2>1
  <2>3. Len(Append(own, n)) # 0
    BY <2>2
  <2>4. Len(<<>>) = 0
    OBVIOUS
  <2> QED
    BY <2>2, <2>3, <2>4, Zenon
<1>13. /\ bks \in BucketsType
       /\ \A i \in Instruments :
             \/ bks[i] = fl[i] /\ (i = i0 => KeyAt(n) \in d)
             \/ i = i0 /\ bks[i] = [start |-> s, parts |-> Append(own, n)]
       /\ KeyAt(n) \in d \/ bks[i0].start = s
  <2>1. CASE bks = Added(n).buckets
    <3>1. bks \in BucketsType
      BY <1>1, <1>4, <1>6, <1>10, <1>12, <2>1 DEF BucketsType
    <3>2. bks[i0] = [start |-> s, parts |-> Append(own, n)]
          /\ \A i \in Instruments : i # i0 => bks[i] = fl[i]
      BY <1>4, <1>6, <1>10, <2>1 DEF BucketsType
    <3> QED
      BY <3>1, <3>2
  <2>2. CASE bks = Flushed(n) /\ KeyAt(n) \in d
    BY <1>6, <2>2 DEF fl
  <2> QED
    BY <2>1, <2>2
(* What is held was held before, or is of bar n.                           *)
<1>14. ASSUME NEW i \in HeldIn(bks)
       PROVE  \/ /\ i \in HeldIn(buckets) /\ bks[i] = buckets[i] /\ fl = buckets
                 /\ (i = i0 => KeyAt(n) \in d)
              \/ i = i0 /\ bks[i].start = s /\ bks[i].parts = Append(own, n)
  <2>1. i \in Instruments /\ bks[i].start # None
    BY DEF HeldIn
  <2>2. CASE bks[i] = fl[i] /\ (i = i0 => KeyAt(n) \in d)
    <3>1. i \in HeldIn(fl)
      BY <2>1, <2>2 DEF HeldIn
    <3> QED
      BY <1>8, <2>2, <3>1
  <2>3. CASE i = i0 /\ bks[i] = [start |-> s, parts |-> Append(own, n)]
    BY <2>3
  <2> QED
    BY <1>13, <2>1, <2>2, <2>3
<1>15. \A i \in HeldIn(buckets) : fl = buckets => DateOf(buckets[i].start) = day
  <2> SUFFICES ASSUME NEW i \in HeldIn(buckets), fl = buckets PROVE DateOf(buckets[i].start) = day
    OBVIOUS
  <2>1. i \in Instruments /\ buckets[i].start # None
    BY DEF HeldIn
  <2>2. fl # [j \in Instruments |-> NoBucket]
    BY <2>1 DEF NoBucket
  <2> QED
    BY <1>5, <2>2
<1>16. Keyed(bks)
  <2> SUFFICES ASSUME NEW i \in HeldIn(bks)
               PROVE  /\ bks[i].parts \in Seq(1..feed.cursor) /\ bks[i].parts # <<>>
                      /\ \A k \in 1..Len(bks[i].parts) : KeyAt(bks[i].parts[k]) = <<i, bks[i].start>>
    BY DEF Keyed
  <2>1. CASE i \in HeldIn(buckets) /\ bks[i] = buckets[i]
    BY <1>2, <2>1 DEF Keyed
  <2>2. CASE i = i0 /\ bks[i].start = s /\ bks[i].parts = Append(own, n)
    <3> DEFINE C == 1..feed.cursor
    <3>1. own \in Seq(C) /\ \A k \in 1..Len(own) : KeyAt(own[k]) = <<i0, s>>
      <4>1. CASE own = <<>>
        BY <4>1
      <4>2. CASE fl[i0].start = s /\ own = fl[i0].parts
        <5>1. i0 \in HeldIn(fl)
          BY <1>4, <4>2 DEF HeldIn
        <5>2. i0 \in HeldIn(buckets) /\ own = buckets[i0].parts /\ buckets[i0].start = s
          BY <1>8, <4>2, <5>1
        <5> QED
          BY <1>2, <5>2 DEF Keyed
      <4> QED
        BY <1>11, <4>1, <4>2
    <3>2. n \in C
      BY <1>1
    <3> HIDE DEF C
    <3>3. Append(own, n) \in Seq(C)
      BY <3>1, <3>2
    <3>4. \A k \in 1..Len(Append(own, n)) : KeyAt(Append(own, n)[k]) = <<i0, s>>
      BY <1>4, <3>1, <3>2
    <3> QED
      BY <1>12, <2>2, <3>3, <3>4 DEF C
  <2> QED
    BY <1>14, <2>1, <2>2
<1>17. OneDay(bks)
  <2> SUFFICES ASSUME NEW i \in HeldIn(bks) PROVE DateOf(bks[i].start) = day
    BY DEF OneDay
  <2> QED
    BY <1>4, <1>14, <1>15
(* The entries taken of n's interval.                                      *)
<1>18. ASSUME KeyAt(n) \notin d, fl[i0].start # s, NEW m \in Tried PROVE KeyAt(m) # KeyAt(n)
  <2> SUFFICES ASSUME KeyAt(m) = KeyAt(n) PROVE FALSE
    OBVIOUS
  <2>1. BarAt(m).inst = i0 /\ BucketFor(BarAt(m)) = s
    BY DEF KeyAt, i0, s
  <2>2. KeyAt(m) \notin doubt
    BY <1>18
  <2>3. CASE buckets[BarAt(m).inst].start = BucketFor(BarAt(m))
    <3>1. i0 \in HeldIn(buckets) /\ DateOf(buckets[i0].start) = day /\ buckets[i0].start = s
      BY <1>4, <2>1, <2>3 DEF HeldIn
    <3>2. fl = buckets
      BY <1>5, <3>1
    <3> QED
      BY <1>18, <3>1, <3>2
  <2>4. CASE Over(m, batch)
    BY <1>1, <2>4 DEF Over
  <2> QED
    BY <1>2, <2>2, <2>3, <2>4 DEF LeftBehind
<1>19. Complete(bks, d, T)
  <2> SUFFICES ASSUME NEW i \in HeldIn(bks), <<i, bks[i].start>> \notin d
               PROVE  Enumerates(bks[i].parts, {m \in T : KeyAt(m) = <<i, bks[i].start>>})
    BY DEF Complete
  <2>1. CASE /\ i \in HeldIn(buckets) /\ bks[i] = buckets[i] /\ fl = buckets
             /\ (i = i0 => KeyAt(n) \in d)
    <3>1. KeyAt(n) # <<i, bks[i].start>>
      BY <1>4, <2>1
    <3>2. {m \in T : KeyAt(m) = <<i, bks[i].start>>} = {m \in Tried : KeyAt(m) = <<i, buckets[i].start>>}
      BY <2>1, <3>1 DEF T
    <3>3. <<i, buckets[i].start>> \notin doubt
      BY <2>1
    <3>4. Enumerates(buckets[i].parts, {m \in Tried : KeyAt(m) = <<i, buckets[i].start>>})
      BY <1>2, <2>1, <3>3 DEF Complete
    <3> QED
      BY <2>1, <3>2, <3>4
  <2>2. CASE i = i0 /\ bks[i].start = s /\ bks[i].parts = Append(own, n)
    <3> DEFINE U == {m \in Tried : KeyAt(m) = <<i0, s>>}
    <3>1. {m \in T : KeyAt(m) = <<i, bks[i].start>>} = U \cup {n}
      BY <1>4, <2>2 DEF T
    <3>2. KeyAt(n) \notin d /\ KeyAt(n) \notin doubt /\ <<i0, s>> \notin doubt
      BY <1>4, <2>2
    <3>3. U \in SUBSET Nat
      BY <1>9
    <3>4. \A y \in U : y < n
      BY <1>1, <1>2, <3>2 DEF InTurn
    <3>5. CASE fl[i0].start = s
      <4>1. i0 \in HeldIn(fl)
        BY <1>4, <3>5 DEF HeldIn
      <4>2. i0 \in HeldIn(buckets) /\ fl[i0] = buckets[i0]
        BY <1>8, <4>1
      <4>3. own = buckets[i0].parts /\ buckets[i0].start = s
        BY <3>5, <4>2 DEF own
      <4>4. Enumerates(own, U)
        BY <1>2, <3>2, <4>2, <4>3 DEF Complete
      <4> HIDE DEF U
      <4>5. Enumerates(Append(own, n), U \cup {n})
        BY <1>1, <3>3, <3>4, <4>4, EnumeratesMore
      <4> QED
        BY <2>2, <3>1, <4>5
    <3>6. CASE fl[i0].start # s
      <4>1. U = {}
        BY <1>4, <1>18, <3>2, <3>6
      <4>2. own = <<>>
        BY <3>6 DEF own
      <4>3. Append(own, n) = <<n>> /\ U \cup {n} = {n}
        BY <4>1, <4>2
      <4>4. Enumerates(<<n>>, {n})
        BY <1>1, EnumeratesOne
      <4> HIDE DEF U
      <4> QED
        BY <2>2, <3>1, <4>3, <4>4
    <3> QED
      BY <3>5, <3>6
  <2> QED
    BY <1>14, <2>1, <2>2
<1>20. LeftBehind(bks, d, T, B)
  <2> SUFFICES ASSUME NEW m \in T, KeyAt(m) \notin d
               PROVE  bks[BarAt(m).inst].start = BucketFor(BarAt(m)) \/ Over(m, B)
    BY DEF LeftBehind
  <2>1. CASE m = n
    BY <1>13, <2>1 DEF i0, s
  <2>2. CASE m \in Tried
    <3> DEFINE i == BarAt(m).inst
    <3>1. KeyAt(m) \notin doubt /\ KeyAt(m) \notin Spoils(n)
      OBVIOUS
    <3>2. CASE Over(m, batch)
      BY <3>2 DEF Over, B
    <3>3. CASE buckets[i].start = BucketFor(BarAt(m))
      <4>1. m \in 1..Len(feed.log) /\ i \in Instruments
        BY <1>9, <2>2
      <4>2. BucketFor(BarAt(m)) \in Nat /\ DateOf(BarAt(m).start) \in Nat
            /\ DateOf(BucketFor(BarAt(m))) = DateOf(BarAt(m).start)
        BY <1>2, <1>3, <4>1, PlaceIs
      <4>3. i \in HeldIn(buckets) /\ KeyAt(m) = <<i, buckets[i].start>>
        BY <3>3, <4>1, <4>2 DEF HeldIn, None, KeyAt
      <4>4. DateOf(BarAt(m).start) <= day /\ (i = i0 => BucketFor(BarAt(m)) <= s)
        BY <1>1, <3>1, <3>3, <4>2, <4>3, Unspoiled DEF i0, s, day
      <4>5. ASSUME PassedBy(m, n) PROVE Over(m, B)
        <5>1. ASSUME NEW x \in B PROVE KeyAt(x) # KeyAt(m)
          <6>1. x \in 1..Len(feed.log) /\ n <= x
            BY <1>1, <1>3 DEF B
          <6> QED
            BY <1>1, <1>2, <1>3, <4>1, <4>5, <6>1, PassedForGood
        <5> QED
          BY <1>1, <4>5, <5>1 DEF Over
      <4>6. CASE DateOf(BarAt(m).start) < day
        BY <4>5, <4>6 DEF PassedBy, day
      <4>7. CASE i = i0 /\ BucketFor(BarAt(m)) < s
        BY <4>5, <4>7 DEF PassedBy, i0, s
      <4>8. CASE DateOf(BarAt(m).start) = day /\ (i = i0 => BucketFor(BarAt(m)) = s)
        <5>1. fl = buckets
          BY <1>5, <3>3, <4>2, <4>3, <4>8
        <5>2. bks[i].start = buckets[i].start
          <6>1. CASE bks[i] = fl[i]
            BY <5>1, <6>1
          <6>2. CASE i = i0 /\ bks[i] = [start |-> s, parts |-> Append(own, n)]
            BY <3>3, <4>8, <6>2
          <6> QED
            BY <1>13, <4>1, <6>1, <6>2
        <5> QED
          BY <3>3, <5>2
      <4> QED
        BY <1>4, <4>2, <4>4, <4>6, <4>7, <4>8
    <3> QED
      BY <1>2, <2>2, <3>1, <3>2, <3>3 DEF LeftBehind
  <2> QED
    BY <2>1, <2>2 DEF T
<1>21. InTurn(d, T, B)
  <2> SUFFICES ASSUME NEW m \in T, NEW x \in B, KeyAt(x) \notin d PROVE m < x
    BY DEF InTurn
  <2>1. x \in batch /\ x \in Nat /\ n <= x /\ x # n
    BY <1>1 DEF B
  <2>2. CASE m = n
    BY <1>1, <2>1, <2>2
  <2>3. CASE m \in Tried
    BY <1>2, <2>1, <2>3 DEF InTurn
  <2> QED
    BY <2>2, <2>3 DEF T
<1> QED
  BY <1>13, <1>16, <1>17, <1>19, <1>20, <1>21 DEF Merging, T, B

(* Every bar that an entry lets the strategy see is right.                 *)
LEMMA ShowsRight ==
    ASSUME StreamInv, batch # {}, NEW n, n = Min(batch),
           NEW d, doubt \cup Spoils(n) \subseteq d
    PROVE  /\ Len(Shows(n)) \in Nat /\ Shows(n) = [k \in 1..Len(Shows(n)) |-> Shows(n)[k]]
           /\ \A k \in 1..Len(Shows(n)) : Right(Shows(n)[k], n, d)
<1>1. /\ n \in batch /\ n \in 1..feed.cursor /\ n \in 1..Len(feed.log) /\ n \in Nat
      /\ \A x \in batch : x \in 1..feed.cursor /\ x \in Nat /\ n <= x
  BY AtHand
<1>2. /\ feed \in Group(Bar) /\ InSessions
      /\ buckets \in BucketsType /\ Keyed(buckets) /\ OneDay(buckets)
      /\ Complete(buckets, doubt, Tried)
  BY DEF StreamInv, Merging
<1>3. /\ feed.log \in Seq(Bar) /\ feed.cursor \in Nat /\ Len(feed.log) \in Nat
      /\ 1..feed.cursor \subseteq 1..Len(feed.log)
  BY <1>2, FeedIs
<1>4. /\ BarAt(n).inst \in Instruments /\ BucketFor(BarAt(n)) \in Nat
      /\ DateOf(BarAt(n).start) \in Nat
  BY <1>1, <1>2, <1>3, PlaceIs
<1>5. ASSUME NEW i \in HeldIn(buckets),
             \/ DateOf(buckets[i].start) # DateOf(BarAt(n).start)
             \/ i = BarAt(n).inst /\ BucketFor(BarAt(n)) > buckets[i].start
      PROVE  Right(Merge(buckets[i].parts), n, d)
  <2> DEFINE p == buckets[i].parts
             s == buckets[i].start
             S == {m \in Tried : KeyAt(m) = <<i, s>>}
  <2>1. /\ i \in Instruments /\ s \in Nat /\ DateOf(s) \in Nat /\ p # <<>>
        /\ Merge(p).inst = i /\ Merge(p).start = s
    BY <1>2, HeldIs
  <2>2. CASE <<i, s>> \in d
    BY <2>1, <2>2 DEF Right
  <2>3. CASE <<i, s>> \notin d
    <3>1. Enumerates(p, S)
      BY <1>2, <2>3 DEF Complete
    <3>2. ASSUME NEW m \in 1..Len(feed.log), KeyAt(m) = <<i, s>>
          PROVE  /\ PassedBy(m, n) /\ BarAt(m).inst = i /\ BucketFor(BarAt(m)) = s
      <4>1. BarAt(m).inst = i /\ BucketFor(BarAt(m)) = s
        BY <3>2 DEF KeyAt
      <4>2. DateOf(BarAt(m).start) = DateOf(s) /\ DateOf(BarAt(m).start) \in Nat
        BY <1>2, <1>3, <4>1, PlaceIs
      <4>3. DateOf(s) <= DateOf(BarAt(n).start)
        BY <1>1, <2>3, Unspoiled
      <4>4. CASE DateOf(s) # DateOf(BarAt(n).start)
        <5>1. DateOf(BarAt(m).start) < DateOf(BarAt(n).start)
          BY <1>4, <4>2, <4>3, <4>4
        <5> QED
          BY <4>1, <5>1 DEF PassedBy
      <4>5. CASE i = BarAt(n).inst /\ BucketFor(BarAt(n)) > s
        <5>1. BucketFor(BarAt(m)) < BucketFor(BarAt(n))
          BY <1>4, <2>1, <4>1, <4>5
        <5> QED
          BY <4>1, <4>5, <5>1 DEF PassedBy
      <4> QED
        BY <1>5, <4>4, <4>5
    <3>3. ASSUME NEW m \in 1..Len(feed.log), KeyAt(m) = <<i, s>> PROVE m < n
      <4>1. KeyAt(m) # KeyAt(m) \/ ~ (n <= m)
        BY <1>1, <1>2, <1>3, <3>2, <3>3, PassedForGood
      <4> QED
        BY <1>1, <1>3, <4>1
    <3>4. S = {m \in 1..n : KeyAt(m) = <<i, s>>}
      <4>1. ASSUME NEW m \in S PROVE m \in 1..n /\ KeyAt(m) = <<i, s>>
        <5>1. m \in 1..feed.cursor /\ KeyAt(m) = <<i, s>>
          BY DEF Tried
        <5>2. m < n
          BY <1>3, <3>3, <5>1
        <5> QED
          BY <1>1, <1>3, <5>1, <5>2
      <4>2. ASSUME NEW m \in 1..n, KeyAt(m) = <<i, s>> PROVE m \in S
        <5>1. m \in 1..feed.cursor /\ m \in 1..Len(feed.log)
          BY <1>1, <1>3
        <5>2. m < n
          BY <3>3, <4>2, <5>1
        <5>3. m \notin batch
          BY <1>1, <5>2
        <5> QED
          BY <4>2, <5>1, <5>3 DEF Tried
      <4> HIDE DEF S
      <4> QED
        BY <4>1, <4>2
    <3>5. Enumerates(p, Entries(i, s, n))
      BY <3>1, <3>4 DEF Entries
    <3> HIDE DEF p, s, S
    <3>6. Right(Merge(p), n, d)
      <4>1. feed.log \in Seq(Bar) /\ InSessions
        BY <1>2, <1>3
      <4>2. n \in 1..Len(feed.log) /\ i \in Instruments /\ p # <<>>
        BY <1>1, <2>1
      <4> QED
        BY ONLY <3>5, <4>1, <4>2, WholeIsRight
    <3> QED
      BY <3>6 DEF p
  <2> QED
    BY <2>2, <2>3
(* The bars of an ended session.                                           *)
<1> DEFINE over == {Merge(buckets[i].parts) : i \in Leftovers(n)}
           own  == Flushed(n)[BarAt(n).inst]
<1>6. \/ /\ Leftovers(n) = {} /\ Flushed(n) = buckets
      \/ /\ Leftovers(n) = HeldIn(buckets) /\ Flushed(n) = [i \in Instruments |-> NoBucket]
         /\ \A i \in HeldIn(buckets) : DateOf(buckets[i].start) # DateOf(BarAt(n).start)
  BY <1>1, LeftoversAre
<1>7. \A c \in over : Right(c, n, d)
  BY <1>5, <1>6
<1>8. LeftoverBars(n) \in Seq(over)
  <2>1. \A i \in Leftovers(n) : i \in HeldIn(buckets)
    BY <1>6
  <2>2. \A i \in Leftovers(n) : /\ Merge(buckets[i].parts) \in Bar
                                /\ Merge(buckets[i].parts).inst = i
    BY <1>2, <2>1, HeldIs
  <2>3. over \in SUBSET Bar
    BY <2>2
  <2>4. \A b, c \in over : b.inst = c.inst => b = c
    BY <2>2
  <2>5. IsFiniteSet(over)
    <3> DEFINE f == [i \in Leftovers(n) |-> Merge(buckets[i].parts)]
    <3>1. f \in Surjection(Leftovers(n), over)
      <4>1. f \in [Leftovers(n) -> over] /\ \A c \in over : \E i \in Leftovers(n) : f[i] = c
        OBVIOUS
      <4> HIDE DEF f, over
      <4> QED
        BY <4>1 DEF Surjection
    <3>2. IsFiniteSet(Leftovers(n))
      <4>1. Leftovers(n) \subseteq Instruments
        BY <2>1 DEF HeldIn
      <4> QED
        BY <4>1, FS_Subset, BarsAssumption
    <3> HIDE DEF f, over
    <3> QED
      BY <3>1, <3>2, FS_Surjection
  <2>6. LeftoverBars(n) = Ordered(over, Earlier)
    BY DEF LeftoverBars
  <2> HIDE DEF over
  <2> QED
    BY <2>3, <2>4, <2>5, <2>6, OrderedIs
(* The bar that n completes.                                               *)
<1>9. \/ Added(n).completed = <<>>
      \/ /\ Added(n).completed = <<Merge(own.parts)>>
         /\ own.start # None /\ BucketFor(BarAt(n)) > own.start
  BY DEF Added, AddTo
<1> HIDE DEF over
<1>10. ASSUME Added(n).completed # <<>>
       PROVE  Added(n).completed = <<Merge(own.parts)>> /\ Right(Merge(own.parts), n, d)
  <2>1. /\ Added(n).completed = <<Merge(own.parts)>>
        /\ own.start # None /\ BucketFor(BarAt(n)) > own.start
    BY <1>9, <1>10
  <2>2. Flushed(n) = buckets
    BY <1>4, <1>6, <2>1 DEF NoBucket
  <2>3. BarAt(n).inst \in HeldIn(buckets) /\ own = buckets[BarAt(n).inst]
    BY <1>4, <2>1, <2>2 DEF HeldIn
  <2> QED
    BY <1>5, <2>1, <2>3
<1> HIDE DEF own
<1>11. Shows(n) = LeftoverBars(n) \o Added(n).completed
  BY DEF Shows
<1>12. \A j \in 1..Len(LeftoverBars(n)) : LeftoverBars(n)[j] \in over
  BY <1>8
<1>13. CASE Added(n).completed = <<>>
  <2>1. Shows(n) = LeftoverBars(n) /\ LeftoverBars(n) \in Seq(over)
    BY <1>8, <1>11, <1>13
  <2> QED
    BY <1>7, <1>12, <2>1
<1>14. CASE Added(n).completed # <<>>
  <2> DEFINE a == LeftoverBars(n)
             c == Merge(own.parts)
  <2>1. Shows(n) = a \o <<c>> /\ Right(c, n, d)
    BY <1>10, <1>11, <1>14
  <2>2. a \in Seq(over) /\ Len(a) \in Nat
    BY <1>8
  <2> HIDE DEF a, c
  <2>3. /\ Len(Shows(n)) = Len(a) + 1 /\ Shows(n) = [k \in 1..Len(Shows(n)) |-> Shows(n)[k]]
        /\ \A j \in 1..Len(a) + 1 : Shows(n)[j] = IF j <= Len(a) THEN a[j] ELSE c
    BY <2>1, <2>2
  <2>4. ASSUME NEW k \in 1..Len(Shows(n)) PROVE Right(Shows(n)[k], n, d)
    <3>1. CASE k <= Len(a)
      <4>1. k \in 1..Len(a) /\ Shows(n)[k] = a[k]
        BY <2>2, <2>3, <3>1
      <4> QED
        BY <1>7, <1>12, <4>1 DEF a
    <3>2. CASE ~ (k <= Len(a))
      BY <2>1, <2>3, <3>2
    <3> QED
      BY <3>1, <3>2
  <2> QED
    BY <2>2, <2>3, <2>4
<1> QED
  BY <1>13, <1>14

----------------------------------------------------------------------------
(* The steps of the strategy.                                              *)

LEMMA PlacesKept ==
    ASSUME NEW n, feed'.log[n] = feed.log[n]
    PROVE  /\ BarAt(n)' = BarAt(n) /\ BucketFor(BarAt(n))' = BucketFor(BarAt(n))
           /\ KeyAt(n)' = KeyAt(n)
  BY DEF BarAt, BucketFor, KeyAt

LEMMA MergingKept ==
    ASSUME feed \in Group(Bar), \A n \in 1..Len(feed.log) : feed'.log[n] = feed.log[n],
           feed'.cursor \in Nat, feed.cursor <= feed'.cursor,
           NEW bks, NEW d, NEW T \in SUBSET (1..Len(feed.log)),
           NEW B \in SUBSET (1..Len(feed.log)), Merging(bks, d, T, B)
    PROVE  Merging(bks, d, T, B)'
<1>1. /\ feed.cursor \in Nat /\ Len(feed.log) \in Nat
      /\ 1..feed.cursor \subseteq 1..Len(feed.log) /\ 1..feed.cursor \subseteq 1..feed'.cursor
  BY FeedIs
<1>2. \A n \in 1..Len(feed.log) :
         /\ BarAt(n)' = BarAt(n) /\ BucketFor(BarAt(n))' = BucketFor(BarAt(n))
         /\ KeyAt(n)' = KeyAt(n)
  BY PlacesKept
<1>3. /\ bks \in BucketsType /\ Keyed(bks) /\ OneDay(bks)
      /\ Complete(bks, d, T) /\ LeftBehind(bks, d, T, B) /\ InTurn(d, T, B)
  BY DEF Merging
<1>4. Keyed(bks)'
  <2> SUFFICES ASSUME NEW i \in HeldIn(bks)
               PROVE  /\ bks[i].parts \in Seq(1..feed'.cursor) /\ bks[i].parts # <<>>
                      /\ \A k \in 1..Len(bks[i].parts) : KeyAt(bks[i].parts[k])' = <<i, bks[i].start>>
    BY DEF Keyed, HeldIn
  <2> DEFINE p == bks[i].parts
             C == 1..feed.cursor
             D == 1..feed'.cursor
             L == 1..Len(feed.log)
  <2>1. p \in Seq(C) /\ p # <<>> /\ \A k \in 1..Len(p) : KeyAt(p[k]) = <<i, bks[i].start>>
    BY <1>3 DEF Keyed
  <2>2. C \in SUBSET D /\ C \in SUBSET L
    BY <1>1
  <2> HIDE DEF p, C, D, L
  <2>3. p \in Seq(D)
    BY <2>1, <2>2
  <2>4. \A k \in 1..Len(p) : KeyAt(p[k])' = <<i, bks[i].start>>
    <3>1. \A k \in 1..Len(p) : p[k] \in L
      BY <2>1, <2>2
    <3> QED
      BY <1>2, <2>1, <3>1 DEF L
  <2> QED
    BY <2>1, <2>3, <2>4 DEF p, D
<1>5. OneDay(bks)'
  BY <1>3 DEF OneDay, HeldIn
<1>6. Complete(bks, d, T)'
  <2> SUFFICES ASSUME NEW i \in HeldIn(bks), <<i, bks[i].start>> \notin d
               PROVE  Enumerates(bks[i].parts, {m \in T : KeyAt(m)' = <<i, bks[i].start>>})
    BY DEF Complete, HeldIn
  <2>1. Enumerates(bks[i].parts, {m \in T : KeyAt(m) = <<i, bks[i].start>>})
    BY <1>3 DEF Complete
  <2>2. {m \in T : KeyAt(m)' = <<i, bks[i].start>>} = {m \in T : KeyAt(m) = <<i, bks[i].start>>}
    BY <1>2
  <2> QED
    BY <2>1, <2>2
<1>7. ASSUME NEW m \in T, Over(m, B) PROVE Over(m, B)'
  <2>1. \A n \in B : KeyAt(n)' # KeyAt(m)'
    BY <1>2, <1>7 DEF Over
  <2>2. PICK e \in 1..feed.cursor : PassedBy(m, e)
    BY <1>7 DEF Over
  <2>3. e \in 1..Len(feed.log) /\ e \in 1..feed'.cursor
    BY <1>1
  <2>4. PassedBy(m, e)'
    BY <1>2, <2>2, <2>3 DEF PassedBy
  <2> QED
    BY <2>1, <2>3, <2>4 DEF Over
<1>8. LeftBehind(bks, d, T, B)'
  <2> SUFFICES ASSUME NEW m \in T, KeyAt(m)' \notin d
               PROVE  bks[BarAt(m)'.inst].start = BucketFor(BarAt(m))' \/ Over(m, B)'
    BY DEF LeftBehind
  <2> QED
    BY <1>2, <1>3, <1>7 DEF LeftBehind
<1>9. InTurn(d, T, B)'
  BY <1>2, <1>3 DEF InTurn
<1> QED
  BY <1>3, <1>4, <1>5, <1>6, <1>8, <1>9 DEF Merging, BucketsType

LEMMA RightKept ==
    ASSUME feed'.log = feed.log, NEW c, NEW h, NEW d, Right(c, h, d)
    PROVE  Right(c, h, d)'
<1>1. \A n : BarAt(n)' = BarAt(n) /\ BucketFor(BarAt(n))' = BucketFor(BarAt(n))
  BY PlacesKept
<1>2. PartsOf(c, h)' = PartsOf(c, h)
  <2> DEFINE S == {m \in 1..h : BarAt(m).inst = c.inst /\ BucketFor(BarAt(m)) = c.start}
             R == {m \in 1..h : BarAt(m)'.inst = c.inst /\ BucketFor(BarAt(m))' = c.start}
  <2>1. R = S
    BY <1>1
  <2> DEFINE O(U) == [k \in 1..Cardinality(U) |->
                        CHOOSE x \in U : Cardinality({y \in U : y < x}) = k - 1]
  <2>2. PartsOf(c, h) = O(S)
    BY DEF PartsOf, Ordered
  <2>3. PartsOf(c, h)' = O(R)
    BY DEF PartsOf, Ordered
  <2> HIDE DEF S, R, O
  <2> QED
    BY <2>1, <2>2, <2>3
<1>3. ASSUME NEW p PROVE Merge(p)' = Merge(p)
  <2> DEFINE bs == [k \in 1..Len(p) |-> BarAt(p[k])]
  <2>1. bs' = bs
    BY <1>1
  <2> DEFINE M(b) == [inst |-> b[1].inst, start |-> BucketFor(b[1]), open |-> b[1].open,
                      high |-> Max({x.high : x \in ToSet(b)}),
                      low |-> Min({x.low : x \in ToSet(b)}),
                      close |-> b[Len(b)].close,
                      volume |-> SumFunction([k \in DOMAIN b |-> b[k].volume]),
                      notional |-> SumFunction([k \in DOMAIN b |-> b[k].notional]),
                      ticks |-> SumFunction([k \in DOMAIN b |-> b[k].ticks]),
                      synthetic |-> \A x \in ToSet(b) : x.synthetic]
  <2>2. Merge(p) = M(bs)
    BY DEF Merge
  <2>3. Merge(p)' = M(bs')
    BY DEF Merge, BucketFor
  <2> HIDE DEF M, bs
  <2> QED
    BY <2>1, <2>2, <2>3
<1>4. ASSUME NEW i PROVE Stored(i, h)' = Stored(i, h)
  <2> DEFINE K == {k \in 1..h : /\ BarAt(k).inst = i
                                /\ \A l \in k + 1..h : BarAt(l).inst = i =>
                                      BarAt(l).start # BarAt(k).start}
  <2>1. K' = K
    BY <1>1
  <2>2. Stored(i, h) = {BarAt(m) : m \in K} /\ Stored(i, h)' = {BarAt(m)' : m \in K'}
    BY DEF Stored
  <2> HIDE DEF K
  <2> QED
    BY <1>1, <2>1, <2>2
<1> QED
  BY <1>1, <1>2, <1>3, <1>4 DEF Right

(* A step that leaves the stream's entries.                                *)
LEMMA StreamKept ==
    ASSUME StreamInv, feed' \in Group(Bar), feed'.log = feed.log, feed.cursor <= feed'.cursor,
           batch' \subseteq feed'.pending,
           Merging(buckets', doubt', Tried', batch'),
           \A n \in feed'.pending : n \in batch' \/ KeyAt(n) \in doubt'
    PROVE  StreamInv'
<1>1. /\ feed \in Group(Bar) /\ feed.log \in Seq(Bar) /\ Len(feed.log) \in Nat
      /\ feed'.cursor \in Nat /\ feed'.pending \subseteq 1..feed'.cursor
      /\ 1..feed'.cursor \subseteq 1..Len(feed.log)
  BY FeedIs DEF StreamInv
<1>2. \A n : BarAt(n)' = BarAt(n) /\ KeyAt(n)' = KeyAt(n)
  BY PlacesKept
<1>3. InSessions'
  BY <1>2 DEF StreamInv, InSessions
<1>4. Tried' \in SUBSET (1..Len(feed.log)) /\ batch' \in SUBSET (1..Len(feed.log))
  BY <1>1 DEF Tried
<1>5. \A n \in 1..Len(feed.log) : feed'.log[n] = feed.log[n]
  OBVIOUS
<1>6. Merging(buckets, doubt, Tried, batch)'
  BY <1>1, <1>4, <1>5, MergingKept
<1> QED
  BY <1>2, <1>3, <1>6 DEF StreamInv

LEMMA HandleKeeps ==
    ASSUME StreamInv, Handle
    PROVE  StreamInv' /\ ShownRight'
<1> DEFINE n == Next1
<1>1. batch # {} /\ (HandleBar(n) \/ HandlerFails(n))
  BY DEF Handle
<1>2. n = Min(batch)
  BY DEF Next1
<1> HIDE DEF n
<1>3. /\ n \in batch /\ n \in 1..feed.cursor /\ n \notin Tried /\ n \in Nat
  BY <1>1, <1>2, AtHand
<1>4. feed \in Group(Bar) /\ feed.log \in Seq(Bar) /\ feed.cursor \in Nat
  BY FeedIs DEF StreamInv
<1>5. /\ feed' \in Group(Bar) /\ feed'.log = feed.log /\ feed'.cursor = feed.cursor
      /\ feed'.pending = feed.pending \ {n} \/ (feed'.pending = feed.pending /\ KeyAt(n) \in doubt')
      /\ batch' = batch \ {n} /\ handled' = n
  <2>1. /\ XAck(feed, n) \in Group(Bar) /\ XAck(feed, n).log = feed.log
        /\ XAck(feed, n).cursor = feed.cursor
        /\ XAck(feed, n).pending = feed.pending \ {n}
    BY <1>4, XAckGroup
  <2>2. CASE HandleBar(n)
    BY <2>1, <2>2 DEF HandleBar, Settle
  <2>3. CASE HandlerFails(n)
    <3>1. /\ feed' = XAck(feed, n) \/ feed' = feed
          /\ batch' = batch \ {n} /\ handled' = n /\ KeyAt(n) \in doubt'
      BY <2>3 DEF HandlerFails, Settle, KeyAt
    <3> QED
      BY <1>4, <2>1, <3>1
  <2> QED
    BY <1>1, <2>2, <2>3
<1>6. /\ doubt \cup Spoils(n) \subseteq doubt'
      /\ \/ buckets' = Added(n).buckets
         \/ buckets' = Flushed(n) /\ KeyAt(n) \in doubt'
  BY <1>1 DEF HandleBar, HandlerFails, KeyAt
<1>7. /\ Len(shown') \in Nat
      /\ \A k \in 1..Len(shown') : k \in 1..Len(Shows(n)) /\ shown'[k] = Shows(n)[k]
  <2>1. Len(Shows(n)) \in Nat /\ Shows(n) = [k \in 1..Len(Shows(n)) |-> Shows(n)[k]]
    BY <1>1, <1>2, <1>6, ShowsRight
  <2>2. CASE HandleBar(n)
    BY <2>1, <2>2 DEF HandleBar
  <2>3. CASE HandlerFails(n)
    <3>1. PICK k \in 1..Len(Shows(n)) : shown' = SubSeq(Shows(n), 1, k)
      BY <2>3 DEF HandlerFails
    <3> QED
      BY <2>1, <3>1
  <2> QED
    BY <1>1, <2>2, <2>3
<1>8. \A k \in 1..Len(shown') : Right(shown'[k], handled', doubt')
  BY <1>1, <1>2, <1>5, <1>6, <1>7, ShowsRight
<1>9. ShownRight'
  BY <1>5, <1>8, RightKept DEF ShownRight
<1>10. Merging(buckets', doubt', Tried', batch')
  <2>1. Merging(buckets', doubt', Tried \cup {n}, batch \ {n})
    BY <1>1, <1>2, <1>6, HandledMerges
  <2>2. Tried' = Tried \cup {n}
    BY <1>3, <1>5 DEF Tried
  <2> QED
    BY <1>5, <2>1, <2>2
<1>11. \A x \in feed'.pending : x \in batch' \/ KeyAt(x) \in doubt'
  BY <1>5, <1>6 DEF StreamInv
<1>12. batch' \subseteq feed'.pending
  BY <1>5 DEF StreamInv
<1> QED
  BY <1>4, <1>5, <1>9, <1>10, <1>11, <1>12, StreamKept

LEMMA NothingShown == ASSUME shown' = <<>> PROVE ShownRight'
<1>1. Len(shown') = 0 /\ 1..Len(shown') = {}
  OBVIOUS
<1> QED
  BY <1>1 DEF ShownRight

LEMMA InitStreamInv == ASSUME StrategyInit PROVE StreamInv /\ ShownRight
<1>1. /\ feed = EmptyGroup /\ batch = {} /\ buckets = NoBuckets /\ doubt = {} /\ shown = <<>>
  BY DEF StrategyInit
<1>2. feed \in Group(Bar) /\ feed.cursor = 0 /\ feed.pending = {} /\ Len(feed.log) = 0
  BY <1>1, EmptyGroupIsGroup DEF EmptyGroup
<1>3. 1..Len(feed.log) = {} /\ Tried = {}
  BY <1>2 DEF Tried
<1>4. InSessions
  BY <1>3 DEF InSessions
<1>5. NoBucket \in [start : Nat \cup {None}, parts : Seq(Nat)] /\ NoBucket.start = None
  BY DEF NoBucket
<1>6. buckets \in BucketsType /\ HeldIn(buckets) = {}
  BY <1>1, <1>5 DEF NoBuckets, BucketsType, HeldIn
<1>7. Merging(buckets, doubt, Tried, batch)
  BY <1>1, <1>3, <1>6 DEF Merging, Keyed, OneDay, Complete, LeftBehind, InTurn
<1>8. Len(shown) = 0 /\ 1..Len(shown) = {}
  BY <1>1
<1> QED
  BY <1>1, <1>2, <1>4, <1>7, <1>8 DEF StreamInv, ShownRight

(* A step that moves neither the group nor what was merged.                *)
LEMMA IdleKeeps ==
    ASSUME StreamInv, UNCHANGED <<feed, batch, buckets, doubt>>
    PROVE  StreamInv'
<1>1. feed \in Group(Bar) /\ feed.cursor \in Nat
  BY FeedIs DEF StreamInv
<1>2. Merging(buckets', doubt', Tried', batch')
  BY DEF StreamInv, Tried
<1>3. \A n \in feed'.pending : n \in batch' \/ KeyAt(n) \in doubt'
  BY DEF StreamInv
<1>4. batch' \subseteq feed'.pending
  BY DEF StreamInv
<1> QED
  BY <1>1, <1>2, <1>3, <1>4, StreamKept

(* What is reclaimed is in doubt.                                          *)
LEMMA ClaimKeeps == ASSUME StreamInv, ClaimStale PROVE StreamInv'
<1>1. PICK S \in {{}, feed.pending} : feed' = XAutoClaim(feed, S) /\ batch' = S
  BY DEF ClaimStale
<1>2. batch = {} /\ buckets' = buckets /\ doubt' = doubt
  BY DEF ClaimStale, Loop, resampler
<1>3. /\ feed \in Group(Bar) /\ feed.cursor \in Nat
      /\ feed.pending \subseteq 1..feed.cursor
      /\ \A n \in feed.pending : KeyAt(n) \in doubt
      /\ Merging(buckets, doubt, Tried, batch)
  BY <1>2, FeedIs DEF StreamInv
<1>4. /\ feed' \in Group(Bar) /\ feed'.log = feed.log /\ feed'.cursor = feed.cursor
      /\ feed'.pending = feed.pending
  BY <1>1, <1>3, XAutoClaimGroup
<1>5. Tried = 1..feed.cursor /\ Tried' = (1..feed.cursor) \ S /\ S \subseteq feed.pending
  BY <1>1, <1>2, <1>4 DEF Tried
<1>6. Merging(buckets, doubt, Tried', S)
  <2>1. /\ buckets \in BucketsType /\ Keyed(buckets) /\ OneDay(buckets)
        /\ Complete(buckets, doubt, Tried) /\ LeftBehind(buckets, doubt, Tried, batch)
    BY <1>3 DEF Merging
  <2>2. Complete(buckets, doubt, Tried')
    <3> SUFFICES ASSUME NEW i \in HeldIn(buckets), <<i, buckets[i].start>> \notin doubt
                 PROVE  Enumerates(buckets[i].parts, {m \in Tried' : KeyAt(m) = <<i, buckets[i].start>>})
      BY DEF Complete
    <3>1. {m \in Tried' : KeyAt(m) = <<i, buckets[i].start>>}
            = {m \in Tried : KeyAt(m) = <<i, buckets[i].start>>}
      BY <1>3, <1>5
    <3>2. Enumerates(buckets[i].parts, {m \in Tried : KeyAt(m) = <<i, buckets[i].start>>})
      BY <2>1 DEF Complete
    <3> QED
      BY <3>1, <3>2
  <2>3. LeftBehind(buckets, doubt, Tried', S)
    <3> SUFFICES ASSUME NEW m \in Tried', KeyAt(m) \notin doubt
                 PROVE  buckets[BarAt(m).inst].start = BucketFor(BarAt(m)) \/ Over(m, S)
      BY DEF LeftBehind
    <3>1. m \in Tried
      BY <1>5
    <3>2. ASSUME Over(m, batch) PROVE Over(m, S)
      <4>1. \A n \in S : KeyAt(n) # KeyAt(m)
        BY <1>3, <1>5
      <4> QED
        BY <3>2, <4>1 DEF Over
    <3> QED
      BY <2>1, <3>1, <3>2 DEF LeftBehind
  <2>4. InTurn(doubt, Tried', S)
    BY <1>3, <1>5 DEF InTurn
  <2> QED
    BY <2>1, <2>2, <2>3, <2>4 DEF Merging
<1>7. Merging(buckets', doubt', Tried', batch')
  BY <1>1, <1>2, <1>6
<1>8. \A n \in feed'.pending : n \in batch' \/ KeyAt(n) \in doubt'
  BY <1>2, <1>3, <1>4
<1>9. batch' \subseteq feed'.pending
  BY <1>1, <1>4, <1>5
<1>10. feed.cursor <= feed'.cursor
  BY <1>3, <1>4
<1> QED
  BY <1>4, <1>7, <1>8, <1>9, <1>10, StreamKept

(* What is read comes after all that was.                                  *)
LEMMA ReadBarsKeeps == ASSUME StreamInv, ReadBars PROVE StreamInv'
<1>1. PICK k \in 1..BarCount : feed' = XReadGroup(feed, k) /\ batch' = Unread(feed, k)
  BY DEF ReadBars
<1>2. batch = {} /\ buckets' = buckets /\ doubt' = doubt
  BY DEF ReadBars, Loop, resampler
<1>3. /\ feed \in Group(Bar) /\ feed.log \in Seq(Bar) /\ feed.cursor \in Nat
      /\ Len(feed.log) \in Nat /\ feed.cursor <= Len(feed.log) /\ InSessions
      /\ 1..feed.cursor \subseteq 1..Len(feed.log)
      /\ \A n \in feed.pending : KeyAt(n) \in doubt
      /\ Merging(buckets, doubt, Tried, batch)
  BY <1>2, FeedIs DEF StreamInv
<1>4. k \in Nat
  BY StrategyAssumption
<1> DEFINE c == IF feed.cursor + k < Len(feed.log) THEN feed.cursor + k ELSE Len(feed.log)
<1>5. /\ feed' \in Group(Bar) /\ feed'.log = feed.log /\ feed'.cursor = c
      /\ feed'.pending = feed.pending \cup batch'
  <2>1. /\ XReadGroup(feed, k) \in Group(Bar) /\ XReadGroup(feed, k).log = feed.log
        /\ XReadGroup(feed, k).pending = feed.pending \cup Unread(feed, k)
    BY <1>3, <1>4, XReadGroupGroup
  <2>2. XReadGroup(feed, k).cursor = c
    BY DEF XReadGroup
  <2> HIDE DEF c
  <2> QED
    BY <1>1, <2>1, <2>2
<1>6. c \in Nat /\ feed.cursor <= c /\ c <= Len(feed.log)
  BY <1>3, <1>4
<1>7. batch' = (feed.cursor + 1)..c
  BY <1>1, <1>3, <1>4 DEF Unread
<1> HIDE DEF c
<1>8. Tried = 1..feed.cursor /\ Tried' = 1..feed.cursor
  <2>1. Tried = 1..feed.cursor
    BY <1>2 DEF Tried
  <2>2. Tried' = (1..c) \ ((feed.cursor + 1)..c)
    BY <1>5, <1>7 DEF Tried
  <2> QED
    BY <1>3, <1>6, <2>1, <2>2
<1>9. \A n \in batch' : n \in 1..Len(feed.log) /\ n \in Nat /\ feed.cursor < n
  BY <1>3, <1>6, <1>7
<1>10. Merging(buckets, doubt, Tried, batch')
  <2>1. /\ buckets \in BucketsType /\ Keyed(buckets) /\ OneDay(buckets)
        /\ Complete(buckets, doubt, Tried) /\ LeftBehind(buckets, doubt, Tried, batch)
    BY <1>3 DEF Merging
  <2>2. LeftBehind(buckets, doubt, Tried, batch')
    <3> SUFFICES ASSUME NEW m \in Tried, Over(m, batch) PROVE Over(m, batch')
      BY <2>1 DEF LeftBehind
    <3>1. PICK e \in 1..feed.cursor : PassedBy(m, e)
      BY DEF Over
    <3>2. m \in 1..Len(feed.log) /\ e \in 1..Len(feed.log)
      BY <1>3, <1>8
    <3>3. ASSUME NEW n \in batch' PROVE KeyAt(n) # KeyAt(m)
      <4>1. n \in 1..Len(feed.log) /\ e <= n
        BY <1>3, <1>9
      <4> QED
        BY <1>3, <3>1, <3>2, <4>1, PassedForGood
    <3> QED
      BY <3>1, <3>3 DEF Over
  <2>3. InTurn(doubt, Tried, batch')
    BY <1>3, <1>8, <1>9 DEF InTurn
  <2> QED
    BY <2>1, <2>2, <2>3 DEF Merging
<1>11. Merging(buckets', doubt', Tried', batch')
  BY <1>2, <1>8, <1>10
<1>12. \A n \in feed'.pending : n \in batch' \/ KeyAt(n) \in doubt'
  BY <1>2, <1>3, <1>5
<1> QED
  BY <1>5, <1>6, <1>11, <1>12, StreamKept

(* What a crash loses is in doubt.                                         *)
LEMMA CrashKeeps == ASSUME StreamInv, StrategyCrashes PROVE StreamInv'
<1>1. /\ feed' = feed /\ batch' = {} /\ buckets' = NoBuckets
      /\ doubt' = doubt \cup {<<i, buckets[i].start>> : i \in Held}
                        \cup {<<BarAt(n).inst, BucketFor(BarAt(n))>> : n \in feed.pending}
  BY DEF StrategyCrashes
<1>2. /\ feed \in Group(Bar) /\ feed.log \in Seq(Bar) /\ feed.cursor \in Nat
      /\ feed.pending \subseteq 1..feed.cursor /\ 1..feed.cursor \subseteq 1..Len(feed.log)
      /\ InSessions /\ batch \subseteq feed.pending
      /\ LeftBehind(buckets, doubt, Tried, batch)
  BY FeedIs DEF StreamInv, Merging
<1>3. \A n \in feed.pending : KeyAt(n) \in doubt'
  BY <1>1 DEF KeyAt
<1>4. Tried' = 1..feed.cursor
  BY <1>1 DEF Tried
<1>5. NoBucket \in [start : Nat \cup {None}, parts : Seq(Nat)] /\ NoBucket.start = None
  BY DEF NoBucket
<1>6. buckets' \in BucketsType /\ HeldIn(buckets') = {}
  BY <1>1, <1>5 DEF NoBuckets, BucketsType, HeldIn
<1>7. LeftBehind(buckets', doubt', Tried', batch')
  <2> SUFFICES ASSUME NEW m \in 1..feed.cursor, KeyAt(m) \notin doubt' PROVE Over(m, {})
    BY <1>1, <1>4 DEF LeftBehind
  <2>1. m \in Tried /\ KeyAt(m) \notin doubt
    BY <1>1, <1>2, <1>3 DEF Tried
  <2>2. CASE buckets[BarAt(m).inst].start = BucketFor(BarAt(m))
    <3>1. BarAt(m).inst \in Instruments /\ BucketFor(BarAt(m)) \in Nat
      BY <1>2, PlaceIs
    <3>2. BarAt(m).inst \in Held
      BY <2>2, <3>1 DEF Held, None
    <3> QED
      BY <1>1, <2>2, <3>2 DEF KeyAt
  <2>3. CASE Over(m, batch)
    BY <2>3 DEF Over
  <2> QED
    BY <1>2, <2>1, <2>2, <2>3 DEF LeftBehind
<1>8. Merging(buckets', doubt', Tried', batch')
  BY <1>1, <1>6, <1>7 DEF Merging, Keyed, OneDay, Complete, InTurn
<1>9. feed' \in Group(Bar) /\ feed'.log = feed.log /\ feed.cursor <= feed'.cursor
  BY <1>1, <1>2
<1>10. batch' \subseteq feed'.pending /\ \A n \in feed'.pending : n \in batch' \/ KeyAt(n) \in doubt'
  BY <1>1, <1>3
<1> QED
  BY <1>8, <1>9, <1>10, StreamKept

(* A bar arrives after all there are.                                      *)
LEMMA BarArrivesKeeps ==
    ASSUME StreamInv, NEW i \in Instruments, NEW k \in Nat, BarArrives(i, k)
    PROVE  StreamInv'
<1>n. PICK N : N = Len(feed.log)
  OBVIOUS
<1>s. PICK s : s = LastStart(i) + k * Interval
  OBVIOUS
<1>p. PICK p : p = BarPrice[N + 1]
  OBVIOUS
<1>b. PICK b : b = [inst |-> i, start |-> s, open |-> p, high |-> p + 1, low |-> p,
                    close |-> p + 1, volume |-> p, notional |-> p * p, ticks |-> 2,
                    synthetic |-> FALSE]
  OBVIOUS
<1>1. /\ N < Len(BarPrice) /\ IsTradingDay(DateOf(s)) /\ SessionWindow(DateOf(s)).open <= s
      /\ \A n \in 1..N : DateOf(BarAt(n).start) <= DateOf(s)
      /\ feed' = XAdd(feed, b) /\ UNCHANGED <<batch, buckets, doubt>>
  BY <1>n, <1>s, <1>p, <1>b DEF BarArrives, resampler
<1>2. /\ feed \in Group(Bar) /\ feed.log \in Seq(Bar) /\ feed.cursor \in Nat /\ N \in Nat
      /\ feed.pending \subseteq 1..feed.cursor /\ 1..feed.cursor \subseteq 1..N
      /\ InSessions /\ batch \subseteq feed.pending
      /\ Merging(buckets, doubt, Tried, batch)
      /\ \A n \in feed.pending : n \in batch \/ KeyAt(n) \in doubt
  BY <1>n, FeedIs DEF StreamInv
<1>3. /\ LastStart(i) \in Nat
      /\ \A n \in 1..N : BarAt(n).inst = i => BarAt(n).start <= LastStart(i)
  <2> DEFINE M == {m \in 1..N : BarAt(m).inst = i}
             starts == {BarAt(n).start : n \in M}
  <2>1. LastStart(i) = IF starts = {} THEN SessionWindow(0).open ELSE Max(starts)
    BY <1>n DEF LastStart
  <2>2. starts \in SUBSET Nat
    BY <1>n, <1>2, PlaceIs
  <2>3. IsFiniteSet(starts)
    <3> DEFINE f == [n \in M |-> BarAt(n).start]
    <3>1. f \in Surjection(M, starts)
      <4>1. f \in [M -> starts] /\ \A x \in starts : \E n \in M : f[n] = x
        OBVIOUS
      <4> HIDE DEF f, starts, M
      <4> QED
        BY <4>1 DEF Surjection
    <3>2. IsFiniteSet(M)
      <4>1. IsFiniteSet(1..N)
        BY <1>2, FS_Interval
      <4> QED
        BY <4>1, FS_Subset
    <3> HIDE DEF f, starts, M
    <3> QED
      BY <3>1, <3>2, FS_Surjection
  <2>4. CASE starts = {}
    <3>1. SessionWindow(0).open \in Nat
      BY WindowHours DEF Hours
    <3> QED
      BY <2>1, <2>4, <3>1
  <2>5. CASE starts # {}
    <3>1. Max(starts) \in starts /\ \A x \in starts : x <= Max(starts)
      <4> HIDE DEF starts
      <4> QED
        BY <2>2, <2>3, <2>5, starts \in SUBSET Int, GreatestIn
    <3>2. \A n \in 1..N : BarAt(n).inst = i => BarAt(n).start \in starts
      OBVIOUS
    <3> HIDE DEF starts
    <3> QED
      BY <2>1, <2>2, <2>5, <3>1, <3>2
  <2> QED
    BY <2>4, <2>5
<1>4. s \in Nat /\ LastStart(i) <= s
  <2>1. Interval \in Nat
    BY BarsAssumption
  <2>2. k * Interval \in Nat
    BY <2>1
  <2> DEFINE r == k * Interval
  <2> HIDE DEF r
  <2>3. r \in Nat /\ s = LastStart(i) + r
    BY <1>s, <2>2 DEF r
  <2> QED
    BY <1>3, <2>3
<1>5. SessionOpen <= TimeOf(s)
  <2>1. /\ DateOf(s) \in Nat /\ TimeOf(s) \in Nat /\ s = DateOf(s) * DayLength + TimeOf(s)
    BY <1>4, DatesRise
  <2>2. DateOf(s) * DayLength + SessionOpen <= s
    BY <1>1 DEF SessionWindow, At
  <2>3. DayLength \in Nat /\ SessionOpen \in Nat
    BY CalendarAssumption
  <2> DEFINE x == DateOf(s) * DayLength
  <2>4. x \in Nat
    BY <2>1, <2>3
  <2> HIDE DEF x
  <2>5. s = x + TimeOf(s) /\ x + SessionOpen <= s
    BY <2>1, <2>2 DEF x
  <2> QED
    BY <1>4, <2>1, <2>3, <2>4, <2>5
<1>6. b \in Bar
  <2>1. p \in Nat
    BY <1>1, <1>2, <1>p, StrategyAssumption
  <2>2. PICK q : q = p * p
    OBVIOUS
  <2>3. PICK r : r = p + 1
    OBVIOUS
  <2>4. i \in Instruments /\ r \in Nat /\ q \in Nat
    BY <2>1, <2>2, <2>3
  <2>5. b = [inst |-> i, start |-> s, open |-> p, high |-> r, low |-> p,
             close |-> r, volume |-> p, notional |-> q, ticks |-> 2,
             synthetic |-> FALSE]
    BY <1>b, <2>2, <2>3
  <2> QED
    BY ONLY <1>4, <2>1, <2>4, <2>5 DEF Bar
<1>7. b.start = s /\ b.inst = i
  BY <1>b
<1>8. /\ feed' \in Group(Bar) /\ feed'.cursor = feed.cursor /\ feed'.pending = feed.pending
      /\ Len(feed'.log) = N + 1 /\ feed'.log[N + 1] = b
      /\ \A n \in 1..N : feed'.log[n] = feed.log[n]
  <2> DEFINE g == XAdd(feed, b)
  <2>1. /\ g \in Group(Bar) /\ g.cursor = feed.cursor /\ g.pending = feed.pending
        /\ Len(g.log) = Len(feed.log) + 1 /\ g.log[Len(feed.log) + 1] = b
        /\ \A n \in 1..Len(feed.log) : g.log[n] = feed.log[n]
    BY <1>2, <1>6, XAddGroup
  <2>2. feed' = g
    BY <1>1
  <2> HIDE DEF g
  <2> QED
    BY <1>n, <2>1, <2>2
<1>9. /\ \A n \in 1..N : BarAt(n)' = BarAt(n) /\ KeyAt(n)' = KeyAt(n)
      /\ BarAt(N + 1)' = b /\ \A n \in 1..Len(feed'.log) : n \in 1..N \/ n = N + 1
  <2>1. BarAt(N + 1)' = b
    BY <1>8 DEF BarAt
  <2> QED
    BY <1>2, <1>8, <2>1, PlacesKept
<1>10. InSessions'
  <2>1. ASSUME NEW n \in 1..Len(feed'.log)
        PROVE  /\ IsTradingDay(DateOf(BarAt(n)'.start))
               /\ SessionOpen <= TimeOf(BarAt(n)'.start)
    <3>1. CASE n \in 1..N
      BY <1>n, <1>2, <1>9, <3>1 DEF InSessions
    <3>2. CASE n = N + 1
      BY <1>1, <1>5, <1>7, <1>9, <3>2
    <3> QED
      BY <1>9, <3>1, <3>2
  <2>2. ASSUME NEW m \in 1..Len(feed'.log), NEW n \in 1..Len(feed'.log), m < n
        PROVE  /\ DateOf(BarAt(m)'.start) <= DateOf(BarAt(n)'.start)
               /\ BarAt(m)'.inst = BarAt(n)'.inst => BarAt(m)'.start <= BarAt(n)'.start
    <3>1. m \in 1..N
      BY <1>2, <1>8, <2>2
    <3>2. CASE n \in 1..N
      BY <1>n, <1>2, <1>9, <2>2, <3>1, <3>2 DEF InSessions
    <3>3. CASE n = N + 1
      <4>1. DateOf(BarAt(m).start) <= DateOf(s)
        BY <1>1, <3>1
      <4>2. ASSUME BarAt(m).inst = i PROVE BarAt(m).start <= s
        <5>1. BarAt(m).start \in Nat
          BY <1>n, <1>2, <3>1, PlaceIs
        <5>2. BarAt(m).start <= LastStart(i)
          BY <1>3, <3>1, <4>2
        <5> QED
          BY <1>3, <1>4, <5>1, <5>2
      <4> QED
        BY <1>7, <1>9, <3>1, <3>3, <4>1, <4>2
    <3> QED
      BY <1>9, <3>2, <3>3
  <2> QED
    BY <2>1, <2>2 DEF InSessions
<1>11. Merging(buckets, doubt, Tried, batch)'
  <2>1. Tried' = Tried /\ batch' = batch
    BY <1>1, <1>8 DEF Tried
  <2>2. Tried \in SUBSET (1..Len(feed.log)) /\ batch \in SUBSET (1..Len(feed.log))
    BY <1>n, <1>2 DEF Tried
  <2>3. \A n \in 1..Len(feed.log) : feed'.log[n] = feed.log[n]
    BY <1>n, <1>8
  <2>4. feed'.cursor \in Nat /\ feed.cursor <= feed'.cursor
    BY <1>2, <1>8
  <2>5. Merging(buckets, doubt, Tried, batch)
    BY <1>2
  <2> QED
    BY <1>1, <1>2, <2>1, <2>2, <2>3, <2>4, <2>5, MergingKept
<1>12. \A n \in feed'.pending : n \in batch' \/ KeyAt(n)' \in doubt'
  <2>1. \A n \in feed.pending : n \in 1..N
    BY <1>2
  <2> QED
    BY <1>1, <1>2, <1>8, <1>9, <2>1
<1>13. batch' \subseteq feed'.pending
  BY <1>1, <1>2, <1>8
<1> QED
  BY <1>8, <1>10, <1>11, <1>12, <1>13 DEF StreamInv

LEMMA NextStreamInv ==
    ASSUME StreamInv, ShownRight, [StrategyNext]_strategyVars
    PROVE  StreamInv' /\ ShownRight'
<1>1. CASE Handle
  BY <1>1, HandleKeeps
<1>2. CASE HearUpdates
  BY <1>2, IdleKeeps, NothingShown DEF HearUpdates, Loop, resampler
<1>3. CASE ClaimStale
  BY <1>3, ClaimKeeps, NothingShown DEF ClaimStale, Loop
<1>4. CASE ReadBars
  BY <1>4, ReadBarsKeeps, NothingShown DEF ReadBars, Loop
<1>5. CASE StrategyCrashes
  BY <1>5, CrashKeeps, NothingShown DEF StrategyCrashes
<1>6. CASE \E p \in Snapshots : UpdateArrives(p)
  BY <1>6, IdleKeeps, NothingShown DEF UpdateArrives, resampler
<1>7. CASE \E i \in Instruments, k \in 0..DayLength \div Interval : BarArrives(i, k)
  <2>1. PICK i \in Instruments, k \in 0..DayLength \div Interval : BarArrives(i, k)
    BY <1>7
  <2>2. k \in Nat
    OBVIOUS
  <2>3. shown' = <<>>
    BY <2>1 DEF BarArrives
  <2> QED
    BY <2>1, <2>2, <2>3, BarArrivesKeeps, NothingShown
<1>8. CASE UNCHANGED strategyVars
  <2>1. UNCHANGED <<feed, batch, buckets, doubt, shown, handled>>
    BY <1>8 DEF strategyVars, resampler
  <2>2. StreamInv'
    BY <2>1, IdleKeeps
  <2>3. ShownRight'
    BY <2>1, RightKept DEF ShownRight
  <2> QED
    BY <2>2, <2>3
<1> QED
  BY <1>1, <1>2, <1>3, <1>4, <1>5, <1>6, <1>7, <1>8 DEF StrategyNext, StrategyLoop

----------------------------------------------------------------------------
(* The whole.                                                              *)

MarketInv ==
    /\ BuilderInv
    /\ IF part = "history" THEN SourceInv ELSE streamed = <<>>

LEMMA InitMarketInv == ASSUME Init PROVE MarketInv
<1>1. BuilderInv
  BY InitBuilderInv DEF Init
<1>2. CASE part = "history" /\ SourceInit
  BY <1>1, <1>2, InitSourceInv DEF MarketInv
<1>3. CASE part \in {"builder", "strategy"} /\ AtRest
  BY <1>1, <1>3 DEF MarketInv, AtRest
<1> QED
  BY <1>2, <1>3 DEF Init

LEMMA NextMarketInv == ASSUME MarketInv, [Next]_vars PROVE MarketInv'
<1>1. part' = part
  BY DEF Next, vars
<1>2. [BarNext]_barVars
  BY DEF Next, vars
<1>3. IF part = "history" THEN [SourceNext]_sourceVars ELSE UNCHANGED sourceVars
  BY DEF Next, vars
<1>4. BuilderInv'
  BY <1>2, NextBuilderInv DEF MarketInv
<1>5. CASE part = "history"
  BY <1>1, <1>3, <1>4, <1>5, NextSourceInv DEF MarketInv
<1>6. CASE part # "history"
  BY <1>1, <1>3, <1>4, <1>6 DEF MarketInv, sourceVars
<1> QED
  BY <1>5, <1>6

THEOREM MarketInvHolds == Spec => []MarketInv
  BY InitMarketInv, NextMarketInv, PTL DEF Spec

(* Every published bar waits in the buffer or is archived, or a later bar  *)
(* of its interval is, unless a crash or the disk took it: of _handle_bars,*)
(* _persist_if_due and shutdown of src/bar_builder.py and write of         *)
(* src/bar_store.py, whatever ticks come and whenever the process dies.    *)
THEOREM BarsAreSaved == Spec => []NothingUnsaved
<1>1. MarketInv => NothingUnsaved
  BY DEF MarketInv, BuilderInv, Saved
<1> QED
  BY <1>1, MarketInvHolds, PTL

(* The engine of a backtest is never shown a bar before one that starts    *)
(* earlier, a bar of a day without a session, or between two sessions of   *)
(* an instrument a jump as a split leaves; and a resampled bar holds the   *)
(* volume recorded in its interval: of stream, resample_frame and          *)
(* assess_quality of src/backtest/bar_source.py, for every recording.      *)
THEOREM ReplaysKeepOrder == Spec => []ReplaysAreInOrder
<1>1. MarketInv => ReplaysAreInOrder
  <2> SUFFICES ASSUME MarketInv PROVE ReplaysAreInOrder
    OBVIOUS
  <2>1. CASE part = "history"
    BY <2>1, ReplayedRight DEF MarketInv
  <2>2. CASE part # "history"
    <3>1. Len(streamed) = 0 /\ 1..Len(streamed) = {}
      BY <2>2 DEF MarketInv
    <3> QED
      BY <3>1 DEF ReplaysAreInOrder
  <2> QED
    BY <2>1, <2>2
<1> QED
  BY <1>1, MarketInvHolds, PTL

(* The clock closes bars, not the next tick: of every interval that has    *)
(* elapsed since an instrument traded it has a bar after each iteration of *)
(* the loop, whatever ticks came and whatever was published when a process *)
(* died: of flush_until of src/bars.py and of run of src/bar_builder.py,   *)
(* when BAR_FILL_GAPS is set and a session is a number of intervals.       *)
THEOREM SilenceHasBars ==
    ASSUME WholeIntervals
    PROVE  Spec => QuietStillHasBars
<1> DEFINE Inv == MarketInv /\ NothingForgotten
           Served == loop = "close" /\ loop' = "top" =>
                        \A i \in Instruments, s \in 0..MaxTime :
                           Owed(i, s) => \E n \in 1..Len(bars'.log) : KeyOf(n)' = <<i, s>>
<1>1. Init => Inv
  <2> SUFFICES ASSUME Init PROVE Inv
    OBVIOUS
  <2>1. aggs = NoAggregators
    BY DEF Init, BarInit
  <2> QED
    BY <2>1, InitMarketInv, NewAllAccounted DEF NothingForgotten
<1>2. Inv /\ [Next]_vars => Inv'
  <2> SUFFICES ASSUME Inv, [Next]_vars PROVE Inv'
    OBVIOUS
  <2>1. [BarNext]_barVars
    BY DEF Next, vars
  <2> QED
    BY <2>1, NextMarketInv, NextForgetsNothing DEF MarketInv
<1>3. Inv /\ [Next]_vars => [Served]_barVars
  <2> SUFFICES ASSUME Inv, [Next]_vars PROVE Served
    OBVIOUS
  <2>1. [BarNext]_barVars
    BY DEF Next, vars
  <2> QED
    BY <2>1, OwedIsPublished DEF MarketInv
<1>4. Spec => [][Served]_barVars
  <2> HIDE DEF Inv, Served
  <2> QED
    BY <1>1, <1>2, <1>3, PTL DEF Spec
<1> QED
  BY <1>4 DEF QuietStillHasBars

(* A coarse bar that the strategy is shown is made of every bar published  *)
(* of its interval, and is the one that a backtest of the recording is     *)
(* shown, but for what a crash, a failed handler or a bar out of its turn  *)
(* reached and for intervals published twice: of add and flush of          *)
(* src/strategy_engine.py and resample_frame of src/backtest/bar_source.py,*)
(* for all instruments, prices, batches and faults.                        *)
THEOREM LiveIsAsBacktested == Spec => []BacktestSeesTheSame
<1> DEFINE Inv == StreamInv /\ ShownRight
<1>1. Init => Inv
  BY InitStreamInv DEF Init
<1>2. Inv /\ [Next]_vars => Inv'
  <2> SUFFICES ASSUME Inv, [Next]_vars PROVE Inv'
    OBVIOUS
  <2>1. [StrategyNext]_strategyVars
    BY DEF Next, vars
  <2> QED
    BY <2>1, NextStreamInv
<1>3. Inv => BacktestSeesTheSame
  BY RightIsPromised
<1> QED
  BY <1>1, <1>2, <1>3, PTL DEF Spec

============================================================================
