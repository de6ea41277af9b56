-------------------------- MODULE Planning_proofs ---------------------------
(***************************************************************************)
(* What is proved of the parts of the API that the run planning puts side  *)
(* by side: the schedule of a cron expression, the switch an address       *)
(* resolves to, the device schedules and the compliance evaluator.         *)
(***************************************************************************)
EXTENDS Cron, Resolution, Schedules, Compliance, FiniteSetTheorems, SequenceTheorems, TLAPS

-----------------------------------------------------------------------------
(* Cron expressions: CronSchedule.Next is correct for every expression,     *)
(* every time it is asked at and every calendar: no skip jumps over a match *)
(* before the clock changes.                                                *)

\* What matches before t comes after a change of the clock.
WalkedRight ==
    /\ t > after
    /\ \A m \in (after + 1)..(t - 1) : Matches(m) => ChangedBy(m)

\* The walk met a change of the clock: every match up to there comes after an earlier one.
MetChange ==
    \E k \in (after + 1)..(WalkLimit - 1) :
      /\ ~Regular(k)
      /\ \A m \in (after + 1)..(k - 1) : Matches(m) => ChangedBy(m)

WalkInv ==
    /\ after \in Starts
    /\ t \in Nat
    /\ returned \in BOOLEAN
    /\ returned => Matches(t)
    /\ WalkedRight \/ MetChange

\* The walk of Next starts at the first minute after `after`.
LEMMA WalkStarts == CronInit => WalkInv
<1> SUFFICES ASSUME CronInit PROVE WalkInv
  OBVIOUS
<1>1. after \in Starts /\ after \in Nat /\ t = after + 1 /\ returned = FALSE
  BY CalendarTyped DEF CronInit
<1>2. t \in Nat /\ t > after /\ \A m \in (after + 1)..(t - 1) : FALSE
  BY <1>1
<1>3. returned \in BOOLEAN /\ ~returned
  BY <1>1
<1> QED
  BY <1>1, <1>2, <1>3 DEF WalkInv, WalkedRight

\* What matches depends on the expression only, where the clock changes on the calendar and on
\* the time asked from: a step that keeps them keeps what was met.
LEMMA MetStays ==
    ASSUME cron' = cron, after' = after
    PROVE  /\ \A m : Matches(m)' <=> Matches(m)
           /\ \A m : ChangedBy(m)' <=> ChangedBy(m)
           /\ MetChange => MetChange'
<1>1. \A m : Matches(m)' <=> Matches(m)
  BY DEF Matches, DayMatches
<1>2. \A m : ChangedBy(m)' <=> ChangedBy(m)
  BY DEF ChangedBy
<1>3. MetChange => MetChange'
  BY <1>1, <1>2 DEF MetChange, WalkLimit
<1> QED
  BY <1>1, <1>2, <1>3

\* A skip keeps the invariant when, from a minute where the clock goes forward, it leads to a
\* later minute and none in between matches.
LEMMA SkipOver ==
    ASSUME WalkInv, NEW u \in Nat, ~returned, t < WalkLimit,
           Regular(t) => u > t /\ \A m \in t..(u - 1) : ~Matches(m),
           t' = u, returned' = returned, cron' = cron, after' = after
    PROVE  WalkInv'
<1>1. after \in Nat /\ t \in Nat /\ Window \in Nat /\ after' \in Starts /\ t' \in Nat
  BY CalendarTyped DEF WalkInv
<1>2. (WalkedRight \/ MetChange)'
  <2>1. CASE MetChange
    BY <2>1, MetStays
  <2>2. CASE WalkedRight /\ Regular(t)
    <3>1. u > t /\ u > after
      BY <1>1, <2>2 DEF WalkedRight
    <3>2. ASSUME NEW m \in (after + 1)..(u - 1), Matches(m) PROVE ChangedBy(m)
      <4>1. m \in (after + 1)..(t - 1) \/ m \in t..(u - 1)
        BY <1>1
      <4> QED
        BY <2>2, <3>2, <4>1 DEF WalkedRight
    <3>3. \A m \in (after' + 1)..(t' - 1) : Matches(m)' => ChangedBy(m)'
      BY <3>2, MetStays
    <3> QED
      BY <3>1, <3>3 DEF WalkedRight
  <2>3. CASE WalkedRight /\ ~Regular(t)
    <3>1. t \in (after + 1)..(WalkLimit - 1)
      BY <1>1, <2>3 DEF WalkedRight, WalkLimit
    <3>2. MetChange
      BY <2>3, <3>1 DEF WalkedRight, MetChange
    <3> QED
      BY <3>2, MetStays
  <2> QED
    BY <2>1, <2>2, <2>3 DEF WalkInv
<1>3. returned' \in BOOLEAN /\ ~returned'
  BY DEF WalkInv
<1> QED
  BY <1>1, <1>2, <1>3 DEF WalkInv

\* One iteration of the loop of Next keeps the invariant.
LEMMA WalkStep == WalkInv /\ [CronNext]_cronVars => WalkInv'
<1> SUFFICES ASSUME WalkInv, [CronNext]_cronVars PROVE WalkInv'
  OBVIOUS
<1>s. CASE UNCHANGED cronVars
  <2>1. after' = after /\ cron' = cron /\ t' = t /\ returned' = returned
    BY <1>s DEF cronVars
  <2>2. Matches(t)' <=> Matches(t)
    BY <2>1 DEF Matches, DayMatches
  <2>3. WalkedRight => WalkedRight'
    BY <2>1, MetStays DEF WalkedRight
  <2>4. MetChange => MetChange'
    BY <2>1, MetStays
  <2> QED
    BY <2>1, <2>2, <2>3, <2>4 DEF WalkInv
<1>n. CASE CronNext
  <2>1. /\ ~returned /\ t < WalkLimit
        /\ cron' = cron /\ after' = after
    BY <1>n DEF CronNext
  <2>2. after \in Nat /\ t \in Nat /\ Window \in Nat /\ Horizon \in Nat /\ after + Window < Horizon
    BY CalendarTyped DEF WalkInv
  <2>3. t \in 0..Horizon
    BY <2>1, <2>2 DEF WalkLimit
  <2>month. CASE SkipMonth
    <3>1. t' = NextMonth(t) /\ returned' = returned /\ MonthOf(t) \notin cron.month
      BY <2>month DEF SkipMonth
    <3>2. NextMonth(t) \in Nat
      BY <2>3, CalendarTyped
    <3>3. ASSUME Regular(t)
          PROVE  NextMonth(t) > t /\ \A m \in t..(NextMonth(t) - 1) : ~Matches(m)
      <4>1. NextMonth(t) > t /\ \A m \in t..(NextMonth(t) - 1) : MonthOf(m) = MonthOf(t)
        BY <3>3 DEF Regular
      <4> QED
        BY <3>1, <4>1 DEF Matches
    <3> QED
      BY <2>1, <3>1, <3>2, <3>3, SkipOver
  <2>day. CASE SkipDay
    <3>1. t' = NextDay(t) /\ returned' = returned /\ ~DayMatches(cron, t)
      BY <2>day DEF SkipDay
    <3>2. NextDay(t) \in Nat
      BY <2>3, CalendarTyped
    <3>3. ASSUME Regular(t)
          PROVE  NextDay(t) > t /\ \A m \in t..(NextDay(t) - 1) : ~Matches(m)
      <4>1. /\ NextDay(t) > t
            /\ \A m \in t..(NextDay(t) - 1) : DayOf(m) = DayOf(t) /\ WeekdayOf(m) = WeekdayOf(t)
        BY <3>3 DEF Regular
      <4>2. \A m \in t..(NextDay(t) - 1) : ~DayMatches(cron, m)
        BY <3>1, <4>1 DEF DayMatches
      <4> QED
        BY <4>1, <4>2 DEF Matches
    <3> QED
      BY <2>1, <3>1, <3>2, <3>3, SkipOver
  <2>hour. CASE SkipHour
    <3>1. t' = NextHour(t) /\ returned' = returned /\ HourOf(t) \notin cron.hour
      BY <2>hour DEF SkipHour
    <3>2. NextHour(t) \in Nat
      BY <2>3, CalendarTyped
    <3>3. ASSUME Regular(t)
          PROVE  NextHour(t) > t /\ \A m \in t..(NextHour(t) - 1) : ~Matches(m)
      <4>1. NextHour(t) > t /\ \A m \in t..(NextHour(t) - 1) : HourOf(m) = HourOf(t)
        BY <3>3 DEF Regular
      <4> QED
        BY <3>1, <4>1 DEF Matches
    <3> QED
      BY <2>1, <3>1, <3>2, <3>3, SkipOver
  <2>minute. CASE SkipMinute
    <3>1. t' = t + 1 /\ returned' = returned /\ MinuteOf(t) \notin cron.minute
      BY <2>minute DEF SkipMinute
    <3>2. t + 1 \in Nat /\ t + 1 > t /\ \A m \in t..((t + 1) - 1) : m = t
      BY <2>2
    <3>3. \A m \in t..((t + 1) - 1) : ~Matches(m)
      BY <3>1, <3>2 DEF Matches
    <3> QED
      BY <2>1, <3>1, <3>2, <3>3, SkipOver
  <2>found. CASE Found
    <3>1. t' = t /\ returned' = TRUE /\ Matches(t)
      BY <2>found DEF Found
    <3>2. Matches(t)'
      BY <2>1, <3>1 DEF Matches, DayMatches
    <3>3. (WalkedRight \/ MetChange)'
      BY <2>1, <3>1, MetStays DEF WalkInv, WalkedRight
    <3> QED
      BY <2>1, <3>1, <3>2, <3>3 DEF WalkInv
  <2> QED
    BY <1>n, <2>month, <2>day, <2>hour, <2>minute, <2>found DEF CronNext
<1> QED
  BY <1>s, <1>n

\* The invariant of the walk is the promise of Next when it returns.
LEMMA WalkEnds == WalkInv => FirstMatch
<1> SUFFICES ASSUME WalkInv PROVE FirstMatch
  OBVIOUS
<1>1. after \in Nat /\ t \in Nat /\ Window \in Nat
  BY CalendarTyped DEF WalkInv
<1>2. CASE WalkedRight
  <2>1. ASSUME t >= WalkLimit PROVE \A m \in (after + 1)..(WalkLimit - 1) : m \in (after + 1)..(t - 1)
    BY <1>1, <2>1 DEF WalkLimit
  <2> QED
    BY <1>2, <2>1 DEF WalkInv, WalkedRight, FirstMatch, NeverMatches
<1>3. CASE MetChange
  <2>1. PICK k \in (after + 1)..(WalkLimit - 1) :
          ~Regular(k) /\ \A m \in (after + 1)..(k - 1) : Matches(m) => ChangedBy(m)
    BY <1>3 DEF MetChange
  <2>2. ASSUME NEW m \in Nat, m > after, Matches(m) PROVE ChangedBy(m)
    <3>1. CASE m < k
      BY <1>1, <2>1, <2>2, <3>1
    <3>2. CASE m >= k
      BY <1>1, <2>1, <3>2 DEF ChangedBy
    <3> QED
      BY <2>1, <2>2, <3>1, <3>2
  <2>3. ChangedBy(WalkLimit - 1)
    BY <1>1, <2>1 DEF ChangedBy, WalkLimit
  <2>4. \A m \in (after + 1)..(t - 1) : m \in Nat /\ m > after
    BY <1>1
  <2>5. \A m \in (after + 1)..(WalkLimit - 1) : m \in Nat /\ m > after
    BY <1>1 DEF WalkLimit
  <2> QED
    BY <2>2, <2>3, <2>4, <2>5 DEF WalkInv, FirstMatch
<1> QED
  BY <1>2, <1>3 DEF WalkInv

\* A number is in the parsed field exactly if a part of the field names it.
LEMMA ParsedIsNamed ==
    ASSUME NEW field, NEW f, NEW v
    PROVE  v \in ParseCronField(field, f) <=> Names(field, f, v)
  BY DEF ParseCronField, Names

\* The parsed expression never changes, and a weekday of the calendar is not the second name of
\* Sunday.
LEMMA DaysAsNamed ==
    ASSUME cron = ParseCron(expression), WeekdayOf(t) # High("dow")
    PROVE  FiresOnNamedDays
<1> DEFINE days == ParseCronField(expression.dow, "dow")
           w == WeekdayOf(t)
<1>1. /\ cron.dom = ParseCronField(expression.dom, "dom")
      /\ cron.dow = SundayIsZero(days)
      /\ cron.domRestricted = Restricted(expression, "dom")
      /\ cron.dowRestricted = Restricted(expression, "dow")
  BY DEF ParseCron
<1>2. w \in SundayIsZero(days) <=> w \in days \/ (w = 0 /\ High("dow") \in days)
  BY DEF SundayIsZero
<1>3. /\ w \in days <=> Names(expression.dow, "dow", w)
      /\ High("dow") \in days <=> Names(expression.dow, "dow", High("dow"))
      /\ DayOf(t) \in cron.dom <=> Names(expression.dom, "dom", DayOf(t))
  BY <1>1, ParsedIsNamed
<1>4. w \in cron.dow <=> \/ Names(expression.dow, "dow", w)
                         \/ w = 0 /\ Names(expression.dow, "dow", High("dow"))
  BY <1>1, <1>2, <1>3
<1> QED
  BY <1>1, <1>3, <1>4, Zenon DEF FiresOnNamedDays, DayMatches, NamesDay, Restricted

\* For every expression and every calendar, what CronSchedule.Next returns matches, and a match
\* that it jumped over, or left out when it returns none, comes after a change of the zone's
\* clock: where the clock does not change it returns the first.  The days it stops at are those
\* the expression names, a Sunday by 0 or by 7, and by either day field when both are
\* restricted.
THEOREM NextIsFirstMatch == CronSpec => []NextRight
<1> DEFINE DayInv == WalkInv /\ cron = ParseCron(expression)
<1>1. CronInit => DayInv
  BY WalkStarts DEF CronInit
<1>2. DayInv /\ [CronNext]_cronVars => DayInv'
  <2>1. [CronNext]_cronVars => cron' = cron /\ expression' = expression
    BY DEF CronNext, cronVars
  <2>2. ParseCron(expression)' = ParseCron(expression) \/ expression' # expression
    BY DEF ParseCron, Restricted
  <2> QED
    BY <2>1, <2>2, WalkStep
<1>3. DayInv => NextRight
  <2> SUFFICES ASSUME DayInv PROVE FiresOnNamedDays
    BY WalkEnds DEF NextRight
  <2>1. CASE ~(t < WalkLimit)
    BY <2>1 DEF FiresOnNamedDays
  <2>2. CASE t < WalkLimit
    <3>1. after \in Nat /\ t \in Nat /\ Window \in Nat /\ Horizon \in Nat /\ after + Window < Horizon
      BY CalendarTyped DEF WalkInv
    <3>2. t \in 0..Horizon
      BY <2>2, <3>1 DEF WalkLimit
    <3>3. WeekdayOf(t) # High("dow")
      BY <3>2, CalendarTyped
    <3> QED
      BY <3>3, DaysAsNamed
  <2> QED
    BY <2>1, <2>2
<1> HIDE DEF DayInv
<1> QED
  BY <1>1, <1>2, <1>3, PTL DEF CronSpec

-----------------------------------------------------------------------------
(* Address resolution: ResolveNetwork is correct for every list of networks, *)
(* every address and every notion of prefix.  The invariant is the one of    *)
(* the loop: what the variables say of the networks visited so far.          *)

\* Nothing visited so far holds the address.
NothingFound ==
    selected = 0 /\ ~ambiguous /\ \A k \in 1..(i - 1) : ~Active(k)

\* The selected network is a longest one, and ambiguous says whether another switch has
\* a network as long.
BestFound ==
    /\ selected \in 1..(i - 1) /\ Active(selected) /\ Length(selected) = best
    /\ \A k \in 1..(i - 1) : Active(k) => Length(k) <= best
    /\ ambiguous <=> \E k \in 1..(i - 1) :
                       /\ Active(k) /\ Length(k) = best
                       /\ networks[k].switch # networks[selected].switch

LoopInv ==
    /\ ResolutionTypeOK
    /\ best = -1 => NothingFound
    /\ best # -1 => BestFound

\* The length of a network's prefix is a number.
LEMMA LengthType ==
    ASSUME networks \in Seq(Networks), NEW k \in 1..Len(networks)
    PROVE  Length(k) \in Nat /\ networks[k] \in Networks
<1>1. networks[k] \in Networks
  OBVIOUS
<1>2. networks[k].prefix \in Prefixes
  BY <1>1 DEF Networks
<1> QED
  BY <1>1, <1>2, PrefixesOK DEF Length

\* Nothing has been visited before the loop of ResolveNetwork starts.
LEMMA LoopStarts == ResolutionInit => LoopInv
<1> SUFFICES ASSUME ResolutionInit PROVE LoopInv
  OBVIOUS
<1>1. networks \in Seq(Networks) /\ Len(networks) \in Nat
  BY PrefixesOK DEF ResolutionInit
<1>2. ResolutionTypeOK
  <2>1. address \in Addresses /\ ambiguous \in BOOLEAN
    BY DEF ResolutionInit
  <2>2. i \in 1..(Len(networks) + 1) /\ selected \in 0..Len(networks) /\ best \in Nat \cup {-1}
    BY <1>1 DEF ResolutionInit
  <2> QED
    BY <1>1, <2>1, <2>2 DEF ResolutionTypeOK
<1> QED
  BY <1>2 DEF ResolutionInit, LoopInv, NothingFound

\* One iteration of the loop of ResolveNetwork keeps the loop invariant.
LEMMA LoopStep == LoopInv /\ [ResolutionNext]_resolutionVars => LoopInv'
<1> SUFFICES ASSUME LoopInv, [ResolutionNext]_resolutionVars PROVE LoopInv'
  OBVIOUS
<1>s. CASE UNCHANGED resolutionVars
  BY <1>s DEF resolutionVars, LoopInv, ResolutionTypeOK, NothingFound, BestFound, Active, Length
<1>n. CASE ResolutionNext
  <2>1. /\ networks' = networks /\ address' = address /\ i' = i + 1
        /\ networks \in Seq(Networks) /\ Len(networks) \in Nat /\ address \in Addresses
        /\ i \in 1..Len(networks) /\ best \in Nat \cup {-1}
        /\ selected \in 0..Len(networks) /\ ambiguous \in BOOLEAN
    BY <1>n DEF ResolutionNext, LoopInv, ResolutionTypeOK
  <2>2. \A k : (Active(k)' <=> Active(k)) /\ Length(k)' = Length(k)
    BY <2>1 DEF Active, Length
  <2>3. \A k \in 1..Len(networks) : Length(k) \in Nat
    BY <2>1, LengthType
  <2>4. Active(i) \in BOOLEAN
    BY DEF Active
  <2>5. i' \in 1..(Len(networks) + 1) /\ 1..(i' - 1) = 1..(i - 1) \cup {i}
    BY <2>1
  <2>skip. CASE Skip
    <3>1. /\ ~Active(i) /\ best' = best /\ selected' = selected /\ ambiguous' = ambiguous
      BY <2>skip DEF Skip
    <3>2. ResolutionTypeOK'
      BY <2>1, <2>5, <3>1 DEF ResolutionTypeOK
    <3>3. ASSUME best = -1 PROVE NothingFound'
      BY <2>2, <2>5, <3>1, <3>3 DEF LoopInv, NothingFound
    <3>4. ASSUME best # -1 PROVE BestFound'
      BY <2>1, <2>2, <2>5, <3>1, <3>4 DEF LoopInv, BestFound
    <3> QED
      BY <3>1, <3>2, <3>3, <3>4 DEF LoopInv
  <2>longer. CASE Longer
    <3>1. /\ Active(i) /\ Length(i) > best
          /\ best' = Length(i) /\ selected' = i /\ ambiguous' = FALSE
      BY <2>longer DEF Longer
    <3>2. Length(i) \in Nat
      BY <2>1, <2>3
    <3>3. ResolutionTypeOK'
      <4>1. best' \in Nat \cup {-1} /\ selected' \in 0..Len(networks)
        BY <2>1, <3>1, <3>2
      <4>2. ambiguous' \in BOOLEAN
        BY <3>1
      <4> QED
        BY <2>1, <2>5, <4>1, <4>2 DEF ResolutionTypeOK
    <3>4. \A k \in 1..(i - 1) : Active(k) => Length(k) < Length(i)
      BY <2>1, <2>3, <3>1, <3>2 DEF LoopInv, NothingFound, BestFound
    <3>5. BestFound'
      <4>1. selected' \in 1..(i' - 1) /\ Active(selected)' /\ Length(selected)' = best'
        BY <2>1, <2>2, <2>5, <3>1 DEF Active, Length
      <4>2. \A k \in 1..(i' - 1) : Active(k) => Length(k) <= best'
        BY <2>1, <2>3, <2>5, <3>1, <3>2, <3>4
      <4>3. \A k \in 1..(i' - 1) : Active(k) /\ Length(k) = best' => k = i
        BY <2>1, <2>3, <2>5, <3>1, <3>2, <3>4
      <4> QED
        BY <2>1, <2>2, <3>1, <4>1, <4>2, <4>3 DEF BestFound
    <3> QED
      BY <3>1, <3>2, <3>3, <3>5 DEF LoopInv
  <2>aslong. CASE AsLong
    <3>1. /\ Active(i) /\ Length(i) = best /\ best' = best /\ selected' = selected
          /\ ambiguous' = (ambiguous \/ networks[i].switch # networks[selected].switch)
      BY <2>aslong DEF AsLong
    <3>2. best # -1 /\ BestFound
      BY <2>1, <2>3, <3>1 DEF LoopInv
    <3>3. ResolutionTypeOK'
      BY <2>1, <2>5, <3>1 DEF ResolutionTypeOK
    <3>4. BestFound'
      <4>1. selected' \in 1..(i' - 1) /\ Active(selected)' /\ Length(selected)' = best'
        BY <2>1, <2>2, <2>5, <3>1, <3>2 DEF BestFound, Active, Length
      <4>2. \A k \in 1..(i' - 1) : Active(k) => Length(k) <= best'
        BY <2>1, <2>3, <2>5, <3>1, <3>2 DEF BestFound
      <4>3. ambiguous' <=> \E k \in 1..(i' - 1) :
                             /\ Active(k) /\ Length(k) = best
                             /\ networks[k].switch # networks[selected].switch
        BY <2>5, <3>1, <3>2 DEF BestFound
      <4> QED
        BY <2>1, <2>2, <3>1, <4>1, <4>2, <4>3 DEF BestFound
    <3> QED
      BY <3>1, <3>2, <3>3, <3>4 DEF LoopInv
  <2>shorter. CASE Shorter
    <3>1. /\ Active(i) /\ Length(i) < best
          /\ best' = best /\ selected' = selected /\ ambiguous' = ambiguous
      BY <2>shorter DEF Shorter
    <3>2. Length(i) \in Nat /\ best # -1 /\ BestFound
      BY <2>1, <2>3, <3>1 DEF LoopInv
    <3>3. ResolutionTypeOK'
      BY <2>1, <2>5, <3>1 DEF ResolutionTypeOK
    <3>4. BestFound'
      <4>1. selected' \in 1..(i' - 1) /\ Active(selected)' /\ Length(selected)' = best'
        BY <2>1, <2>2, <2>5, <3>1, <3>2 DEF BestFound, Active, Length
      <4>2. \A k \in 1..(i' - 1) : Active(k) => Length(k) <= best'
        BY <2>1, <2>3, <2>5, <3>1, <3>2 DEF BestFound
      <4>3. Length(i) # best
        BY <2>1, <3>1, <3>2
      <4>4. ambiguous' <=> \E k \in 1..(i' - 1) :
                             /\ Active(k) /\ Length(k) = best
                             /\ networks[k].switch # networks[selected].switch
        BY <2>5, <3>1, <3>2, <4>3 DEF BestFound
      <4> QED
        BY <2>1, <2>2, <3>1, <4>1, <4>2, <4>4 DEF BestFound
    <3> QED
      BY <3>1, <3>2, <3>3, <3>4 DEF LoopInv
  <2> QED
    BY <1>n, <2>skip, <2>longer, <2>aslong, <2>shorter DEF ResolutionNext
<1> QED
  BY <1>s, <1>n

\* The loop invariant, when the loop is over, is the answer ResolveNetwork promises.
LEMMA LoopEnds == LoopInv => LongestPrefixOwns
<1> SUFFICES ASSUME LoopInv, Returned PROVE LongestPrefixOwns
  BY DEF LongestPrefixOwns
<1> DEFINE n == Len(networks)
<1> DEFINE owners == {networks[k].switch : k \in Longest(n)}
<1>1. n \in Nat /\ i = n + 1 /\ networks \in Seq(Networks) /\ best \in Nat \cup {-1}
      /\ ambiguous \in BOOLEAN
  BY DEF LoopInv, ResolutionTypeOK, Returned
<1>2. 1..(i - 1) = 1..n
  BY <1>1
<1>3. \A k \in 1..n : Length(k) \in Nat
  BY <1>1, LengthType
<1>4. CASE best = -1
  <2>1. Longest(n) = {}
    BY <1>2, <1>4 DEF LoopInv, NothingFound, Longest
  <2>2. Owner = "no switch"
    BY <1>4 DEF Owner
  <2> QED
    BY <2>1, <2>2 DEF LongestPrefixOwns
<1>5. CASE best # -1
  <2>1. BestFound /\ ~(best < 0)
    BY <1>1, <1>5 DEF LoopInv
  <2>2. \A k \in 1..n : k \in Longest(n) <=> Active(k) /\ Length(k) = best
    BY <1>1, <1>2, <1>3, <2>1 DEF BestFound, Longest
  <2>3. selected \in Longest(n)
    BY <1>2, <2>1, <2>2 DEF BestFound
  <2>4. CASE ambiguous
    <3>1. Owner = "ambiguous"
      BY <2>1, <2>4 DEF Owner
    <3>2. PICK k \in 1..n : /\ Active(k) /\ Length(k) = best
                            /\ networks[k].switch # networks[selected].switch
      BY <1>2, <2>1, <2>4 DEF BestFound
    <3>3. k \in Longest(n)
      BY <2>2, <3>2
    <3>4. networks[k].switch \in owners /\ networks[selected].switch \in owners
      BY <2>3, <3>3
    <3> QED
      BY <3>1, <3>2, <3>4 DEF LongestPrefixOwns
  <2>5. CASE ~ambiguous
    <3>1. Owner = "owned"
      BY <2>1, <2>5 DEF Owner
    <3>2. \A k \in Longest(n) : networks[k].switch = networks[selected].switch
      <4>1. \A k \in Longest(n) : k \in 1..n
        BY DEF Longest
      <4> QED
        BY <1>2, <2>1, <2>2, <2>5, <4>1 DEF BestFound
    <3>3. owners = {networks[selected].switch}
      BY <2>3, <3>2
    <3> QED
      BY <3>1, <3>3 DEF LongestPrefixOwns
  <2> QED
    BY <1>1, <2>4, <2>5
<1> QED
  BY <1>4, <1>5

\* ResolveNetwork finds the owner of the longest prefix, or says that there is none or
\* more than one, for every list of networks in every order.
THEOREM Resolves == ResolutionSpec => []LongestPrefixOwns
<1>1. ResolutionInit => LoopInv
  BY LoopStarts
<1>2. LoopInv /\ [ResolutionNext]_resolutionVars => LoopInv'
  BY LoopStep
<1>3. LoopInv => LongestPrefixOwns
  BY LoopEnds
<1> QED
  BY <1>1, <1>2, <1>3, PTL DEF ResolutionSpec

-----------------------------------------------------------------------------
(* Schedules: no run is lost in a plan and no match of an expression fires   *)
(* twice, however edits, runs and restarts follow each other.                *)

TaskRows == [schedule : Ids, manual : BOOLEAN, at : Nat, cron : Crons]

\* Every column and the call of the scheduler hold a value of their type.
SchedulesTypeOK ==
    /\ now \in Nat
    /\ cron_expression \in [Ids -> Crons]
    /\ is_enabled \in [Ids -> BOOLEAN]
    /\ next_run_at \in [Ids -> Nat \cup {Null}]
    /\ version \in [Ids -> Nat]
    /\ tasks \in Seq(TaskRows)
    /\ at \in Nat \cup {Null}

\* What is planned is a match of the expression as it is.
PlansMatch ==
    \A s \in Ids : next_run_at[s] # Null => Match(cron_expression[s], next_run_at[s])

\* The scheduler's runs lie in the past, before the plan of their schedule.
RunsBeforePlan ==
    \A k \in DOMAIN tasks : ~tasks[k].manual =>
      /\ Exists(tasks[k].schedule)
      /\ tasks[k].at <= now
      /\ next_run_at[tasks[k].schedule] # Null => tasks[k].at < next_run_at[tasks[k].schedule]

ScheduleInv ==
    /\ SchedulesTypeOK
    /\ at # Null => at <= now
    /\ PlannedIffEnabled
    /\ PlansMatch
    /\ RunsBeforePlan
    /\ OneRunPerMatch

\* An expression that matches at all matches within a period, so nextRun finds a match; the
\* one that never matches has none.
LEMMA NextRunOK ==
    ASSUME NEW c \in Crons, NEW m \in Nat
    PROVE  /\ c.period > 0 => NextRun(c, m) \in Nat /\ NextRun(c, m) > m /\ Match(c, NextRun(c, m))
           /\ NextRun(c, m) # Null <=> c.period > 0
<1>1. c.period \in Nat /\ c.offset \in Nat /\ (c.period > 0 => c.offset < c.period) /\ Null \notin Nat
  BY ScheduleConstants
<1>2. CASE c.period = 0
  BY <1>2 DEF NextRun
<1>3. CASE c.period > 0
  <2> DEFINE P == c.period
             o == c.offset
             q == (m \div P)
             r == (m % P)
  <2>1. q \in Nat /\ r \in 0..(P - 1) /\ m = P * q + r
    BY <1>1, <1>3
  <2>2. \E n \in (m + 1)..(m + P) : n % P = o
    <3> HIDE DEF P, o, q, r
    <3>1. P \in Nat /\ o \in Nat /\ o < P /\ P > 0
      BY <1>1, <1>3 DEF P, o
    <3>2. CASE r < o
      <4>1. (P * q + o) % P = o
        BY <2>1, <3>1
      <4>2. P * q + o \in (m + 1)..(m + P)
        BY <2>1, <3>1, <3>2
      <4> QED
        BY <4>1, <4>2
    <3>3. CASE ~(r < o)
      <4>1. q + 1 \in Nat /\ (P * (q + 1) + o) % P = o
        BY <2>1, <3>1
      <4>2. P * (q + 1) = P * q + P
        BY <2>1, <3>1
      <4>3. P * q \in Nat
        BY <2>1, <3>1
      <4>4. P * q + P + o \in (m + 1)..(m + P)
        BY <2>1, <3>1, <3>3, <4>3
      <4> QED
        BY <4>1, <4>2, <4>4
    <3> QED
      BY <3>2, <3>3
  <2>3. \E n \in (m + 1)..(m + c.period) : Match(c, n)
    BY <1>3, <2>2 DEF Match
  <2>4. NextRun(c, m) \in (m + 1)..(m + c.period) /\ Match(c, NextRun(c, m))
    <3> DEFINE N == CHOOSE n \in (m + 1)..(m + c.period) : Match(c, n)
    <3>1. N \in (m + 1)..(m + c.period) /\ Match(c, N)
      BY <2>3
    <3>2. NextRun(c, m) = N
      BY <1>1, <1>3 DEF NextRun
    <3> QED
      BY <3>1, <3>2
  <2> QED
    BY <1>1, <1>3, <2>4
<1> QED
  BY <1>1, <1>2, <1>3

LEMMA NothingPlannedAtFirst == SchedulesInit => ScheduleInv
<1> SUFFICES ASSUME SchedulesInit PROVE ScheduleInv
  OBVIOUS
<1>1. /\ now = 0 /\ tasks = <<>> /\ at = Null
      /\ \A s \in Ids : next_run_at[s] = Null /\ is_enabled[s] = FALSE
  BY DEF SchedulesInit
<1>2. SchedulesTypeOK
  <2>1. /\ cron_expression \in [Ids -> Crons] /\ is_enabled \in [Ids -> BOOLEAN]
        /\ next_run_at \in [Ids -> Nat \cup {Null}] /\ version \in [Ids -> Nat]
    BY DEF SchedulesInit
  <2>2. tasks \in Seq(TaskRows)
    BY <1>1
  <2> QED
    BY <1>1, <2>1, <2>2 DEF SchedulesTypeOK
<1>3. PlannedIffEnabled /\ PlansMatch
  BY <1>1 DEF PlannedIffEnabled, PlansMatch
<1>4. RunsBeforePlan /\ OneRunPerMatch
  BY <1>1 DEF RunsBeforePlan, OneRunPerMatch
<1> QED
  BY <1>1, <1>2, <1>3, <1>4 DEF ScheduleInv

\* The rows of tasks have their types.
LEMMA TasksOK ==
    ASSUME SchedulesTypeOK, NEW k \in DOMAIN tasks
    PROVE  /\ tasks[k] \in TaskRows /\ tasks[k].schedule \in Ids /\ tasks[k].manual \in BOOLEAN
           /\ tasks[k].at \in Nat /\ tasks[k].cron \in Crons
<1>1. tasks[k] \in TaskRows
  BY DEF SchedulesTypeOK
<1> QED
  BY <1>1 DEF TaskRows

\* A schedule that is created, or edited in any of its fields, is planned anew.
LEMMA PlanningKeeps ==
    ASSUME ScheduleInv, NEW s \in Ids, NEW c \in Crons, NEW e \in BOOLEAN, NEW m \in Nat, NEW v \in Nat,
           NextRun(c, now) # Null,
           m = now \/ (m = now - 1 /\ ~Exists(s)),
           next_run_at' = [next_run_at EXCEPT ![s] = IF e THEN NextRun(c, m) ELSE Null],
           cron_expression' = [cron_expression EXCEPT ![s] = c],
           is_enabled' = [is_enabled EXCEPT ![s] = e],
           v > 0, version' = [version EXCEPT ![s] = v],
           now' = now, tasks' = tasks, at' = at
    PROVE  ScheduleInv'
<1> USE DEF ScheduleInv
<1>1. /\ now \in Nat /\ cron_expression \in [Ids -> Crons] /\ is_enabled \in [Ids -> BOOLEAN]
      /\ next_run_at \in [Ids -> Nat \cup {Null}] /\ version \in [Ids -> Nat]
      /\ at \in Nat \cup {Null} /\ Null \notin Nat
  BY ScheduleConstants DEF SchedulesTypeOK
<1>2. NextRun(c, m) \in Nat /\ NextRun(c, m) > m /\ Match(c, NextRun(c, m)) /\ NextRun(c, m) # Null
  BY <1>1, NextRunOK
<1>3. SchedulesTypeOK'
  BY <1>1, <1>2 DEF SchedulesTypeOK
<1>4. /\ \A q \in Ids : q # s => /\ next_run_at'[q] = next_run_at[q]
                                /\ cron_expression'[q] = cron_expression[q]
                                /\ is_enabled'[q] = is_enabled[q]
                                /\ version'[q] = version[q]
      /\ next_run_at'[s] = (IF e THEN NextRun(c, m) ELSE Null)
      /\ cron_expression'[s] = c /\ is_enabled'[s] = e /\ version'[s] = v
  BY <1>1
<1>5. PlannedIffEnabled'
  <2> SUFFICES ASSUME NEW q \in Ids PROVE (next_run_at'[q] # Null) <=> is_enabled'[q]
    BY DEF PlannedIffEnabled
  <2>1. CASE q = s
    BY <1>2, <1>4, <2>1
  <2>2. CASE q # s
    BY <1>4, <2>2 DEF PlannedIffEnabled
  <2> QED
    BY <2>1, <2>2
<1>6. PlansMatch'
  <2> SUFFICES ASSUME NEW q \in Ids, next_run_at'[q] # Null
               PROVE  Match(cron_expression'[q], next_run_at'[q])
    BY DEF PlansMatch, Match
  <2>1. CASE q = s
    BY <1>2, <1>4, <2>1
  <2>2. CASE q # s
    BY <1>4, <2>2 DEF PlansMatch
  <2> QED
    BY <2>1, <2>2
<1>7. RunsBeforePlan'
  <2> SUFFICES ASSUME NEW k \in DOMAIN tasks, ~tasks[k].manual
               PROVE  /\ version'[tasks[k].schedule] > 0
                      /\ tasks[k].at <= now
                      /\ next_run_at'[tasks[k].schedule] # Null =>
                           tasks[k].at < next_run_at'[tasks[k].schedule]
    BY DEF RunsBeforePlan, Exists
  <2>1. tasks[k].schedule \in Ids /\ tasks[k].at \in Nat
    BY TasksOK
  <2>2. /\ Exists(tasks[k].schedule) /\ tasks[k].at <= now
        /\ next_run_at[tasks[k].schedule] # Null => tasks[k].at < next_run_at[tasks[k].schedule]
    BY DEF RunsBeforePlan
  <2>3. CASE tasks[k].schedule = s
    <3>1. m = now
      BY <2>2, <2>3
    <3> QED
      BY <1>1, <1>2, <1>4, <2>1, <2>2, <2>3, <3>1
  <2>4. CASE tasks[k].schedule # s
    BY <1>4, <2>1, <2>2, <2>4 DEF Exists
  <2> QED
    BY <2>3, <2>4
<1>8. OneRunPerMatch'
  BY DEF OneRunPerMatch, Match
<1> QED
  BY <1>1, <1>3, <1>5, <1>6, <1>7, <1>8

\* A run by hand is no run of the scheduler and changes no plan.
LEMMA RunByHandKeeps == ASSUME ScheduleInv, NEW s \in Ids, RunSchedule(s) PROVE ScheduleInv'
<1> USE DEF ScheduleInv
<1> DEFINE row == [schedule |-> s, manual |-> TRUE, at |-> now, cron |-> cron_expression[s]]
<1>1. /\ now' = now /\ cron_expression' = cron_expression /\ is_enabled' = is_enabled
      /\ next_run_at' = next_run_at /\ version' = version /\ at' = at
      /\ tasks' = Append(tasks, row)
  BY DEF RunSchedule, rows
<1>2. row \in TaskRows /\ tasks \in Seq(TaskRows)
  BY DEF SchedulesTypeOK, TaskRows
<1>3. SchedulesTypeOK'
  <2>1. tasks' \in Seq(TaskRows)
    BY <1>1, <1>2
  <2> QED
    BY <1>1, <2>1 DEF SchedulesTypeOK
<1>4. \A k \in DOMAIN tasks' : ~tasks'[k].manual => k \in DOMAIN tasks /\ tasks'[k] = tasks[k]
  <2>1. DOMAIN tasks' = 1..(Len(tasks) + 1) /\ DOMAIN tasks = 1..Len(tasks) /\ Len(tasks) \in Nat
    BY <1>1, <1>2
  <2>2. \A k \in 1..Len(tasks) : tasks'[k] = tasks[k]
    BY <1>1, <1>2
  <2>3. tasks'[Len(tasks) + 1].manual
    BY <1>1, <1>2
  <2> QED
    BY <2>1, <2>2, <2>3
<1>5. PlannedIffEnabled' /\ PlansMatch'
  BY <1>1 DEF PlannedIffEnabled, PlansMatch, Match
<1>6. RunsBeforePlan'
  <2>1. ASSUME NEW k \in DOMAIN tasks', ~tasks'[k].manual
        PROVE  /\ Exists(tasks'[k].schedule)
               /\ tasks'[k].at <= now
               /\ next_run_at[tasks'[k].schedule] # Null => tasks'[k].at < next_run_at[tasks'[k].schedule]
    BY <1>4, <2>1 DEF RunsBeforePlan
  <2> QED
    BY <1>1, <2>1 DEF RunsBeforePlan, Exists
<1>7. OneRunPerMatch'
  <2> SUFFICES ASSUME NEW j \in DOMAIN tasks', NEW k \in DOMAIN tasks', j < k,
                      ~tasks'[j].manual, ~tasks'[k].manual, tasks'[j].schedule = tasks'[k].schedule
               PROVE  \E m \in (tasks'[j].at + 1)..tasks'[k].at : Match(tasks'[k].cron, m)
    BY DEF OneRunPerMatch, Match
  <2>1. /\ j \in DOMAIN tasks /\ tasks'[j] = tasks[j]
        /\ k \in DOMAIN tasks /\ tasks'[k] = tasks[k]
    BY <1>4
  <2> QED
    BY <2>1 DEF OneRunPerMatch
<1> QED
  BY <1>1, <1>3, <1>5, <1>6, <1>7

\* A list of n distinct due schedules, in some order.
Batch(order, n) ==
    /\ n \in Nat /\ order \in [1..n -> {s \in Ids : Due(s, at)}]
    /\ \A j, k \in 1..n : j # k => order[j] # order[k]

\* An order that names every member of a batch names each once.
LEMMA OrderIsBatch ==
    ASSUME NEW batch \in SUBSET {s \in Ids : Due(s, at)},
           NEW order \in [1..Cardinality(batch) -> batch],
           \A s \in batch : \E k \in DOMAIN order : order[k] = s
    PROVE  Batch(order, Cardinality(batch))
<1>1. IsFiniteSet(batch)
  <2>1. batch \subseteq Ids
    OBVIOUS
  <2> QED
    BY <2>1, ScheduleConstants, FS_Subset
<1>2. Cardinality(batch) \in Nat
  BY <1>1, FS_CardinalityType
<1>3. IsFiniteSet(1..Cardinality(batch)) /\ Cardinality(1..Cardinality(batch)) = Cardinality(batch)
  <2>1. CASE Cardinality(batch) = 0
    <3>1. 1..Cardinality(batch) = {}
      BY <1>2, <2>1
    <3> QED
      BY <2>1, <3>1, FS_EmptySet
  <2>2. CASE Cardinality(batch) > 0
    BY <1>2, <2>2, FS_Interval
  <2> QED
    BY <1>2, <2>1, <2>2
<1>4. order \in Surjection(1..Cardinality(batch), batch)
  BY DEF Surjection
<1>5. order \in Injection(1..Cardinality(batch), batch)
  BY <1>3, <1>4, FS_SurjSameCardinalityImpliesInj
<1>6. \A j, k \in 1..Cardinality(batch) : j # k => order[j] # order[k]
  BY <1>5 DEF Injection, IsInjective
<1> QED
  BY <1>2, <1>6 DEF Batch

\* Each schedule of the batch was due by a match since its last run, and is planned after the
\* time the scheduler was called with.
LEMMA DueRunsKeep == ScheduleInv /\ RunDueSchedules => ScheduleInv'
<1> SUFFICES ASSUME ScheduleInv, RunDueSchedules PROVE ScheduleInv'
  OBVIOUS
<1> DEFINE due == {s \in Ids : Due(s, at)}
<1>1. PICK batch \in SUBSET due :
        /\ \/ batch = due /\ Cardinality(due) <= Limit
           \/ Cardinality(batch) = Limit
        /\ \A s \in batch, r \in due \ batch : next_run_at[s] <= next_run_at[r]
        /\ \E order \in [1..Cardinality(batch) -> batch] :
             /\ \A s \in batch : \E k \in DOMAIN order : order[k] = s
             /\ \A j, k \in DOMAIN order : j < k => next_run_at[order[j]] <= next_run_at[order[k]]
             /\ tasks' = tasks \o [k \in DOMAIN order |->
                  [schedule |-> order[k], manual |-> FALSE, at |-> at, cron |-> cron_expression[order[k]]]]
        /\ next_run_at' = [s \in Ids |-> IF s \in batch THEN PlanFrom(s) ELSE next_run_at[s]]
        /\ last_run_at' = [s \in Ids |-> IF s \in batch THEN at ELSE last_run_at[s]]
  BY Zenon DEF RunDueSchedules
<1> USE DEF ScheduleInv
<1>2. PICK order \in [1..Cardinality(batch) -> batch] :
        /\ \A s \in batch : \E k \in DOMAIN order : order[k] = s
        /\ tasks' = tasks \o [k \in DOMAIN order |->
             [schedule |-> order[k], manual |-> FALSE, at |-> at, cron |-> cron_expression[order[k]]]]
  BY <1>1
<1> DEFINE n == Cardinality(batch)
           new == [k \in 1..n |->
             [schedule |-> order[k], manual |-> FALSE, at |-> at, cron |-> cron_expression[order[k]]]]
           L == Len(tasks)
<1>3. /\ now' = now /\ cron_expression' = cron_expression /\ is_enabled' = is_enabled
      /\ version' = version /\ at' = Null /\ at # Null
  BY DEF RunDueSchedules
<1>4. /\ now \in Nat /\ cron_expression \in [Ids -> Crons]
      /\ next_run_at \in [Ids -> Nat \cup {Null}] /\ version \in [Ids -> Nat]
      /\ tasks \in Seq(TaskRows) /\ at \in Nat /\ at <= now /\ Null \notin Nat
  BY <1>3, ScheduleConstants DEF SchedulesTypeOK
<1>5. n \in Nat /\ \A j, k \in 1..n : j # k => order[j] # order[k]
  BY <1>2, OrderIsBatch DEF Batch
<1>6. \A k \in 1..n : order[k] \in batch /\ order[k] \in Ids /\ Due(order[k], at)
  OBVIOUS
<1>7. tasks' = tasks \o new
  BY <1>2
<1>8. \A k \in 1..n : new[k] \in TaskRows
  BY <1>4, <1>6 DEF TaskRows
<1>9. new \in Seq(TaskRows) /\ Len(new) = n
  <2>1. new \in [1..n -> TaskRows]
    BY <1>8
  <2> HIDE DEF new, n
  <2> QED
    BY <1>5, <2>1
<1>10. /\ tasks' \in Seq(TaskRows) /\ DOMAIN tasks = 1..L /\ L \in Nat
       /\ DOMAIN tasks' = 1..(L + n)
       /\ \A k \in 1..L : tasks'[k] = tasks[k]
       /\ \A k \in 1..(L + n) : k > L => k - L \in 1..n /\ tasks'[k] = new[k - L]
  <2> HIDE DEF new, n
  <2>1. /\ tasks \o new \in Seq(TaskRows) /\ Len(tasks \o new) = L + n
        /\ \A k \in 1..(L + n) :
             (tasks \o new)[k] = IF k <= L THEN tasks[k] ELSE new[k - L]
    BY <1>4, <1>9, ConcatProperties
  <2>2. L \in Nat /\ DOMAIN tasks = 1..L /\ DOMAIN tasks' = 1..(L + n)
    BY <1>4, <1>7, <2>1
  <2> QED
    BY <1>5, <1>7, <2>1, <2>2
<1>11. ASSUME NEW k \in DOMAIN tasks', k \notin DOMAIN tasks
       PROVE  /\ k - L \in 1..n /\ order[k - L] \in batch /\ order[k - L] \in Ids /\ Due(order[k - L], at)
              /\ tasks'[k].schedule = order[k - L] /\ tasks'[k].at = at
              /\ tasks'[k].cron = cron_expression[order[k - L]]
  <2>1. k - L \in 1..n /\ tasks'[k] = new[k - L]
    BY <1>5, <1>10, <1>11
  <2> QED
    BY <1>6, <2>1
<1>12. \A k \in DOMAIN tasks : k \in DOMAIN tasks' /\ tasks'[k] = tasks[k]
  BY <1>5, <1>10
<1> HIDE DEF new, n, L
<1>13. ASSUME NEW s \in Ids, Due(s, at)
       PROVE  /\ Exists(s) /\ is_enabled[s] /\ next_run_at[s] \in Nat /\ next_run_at[s] <= at
              /\ Match(cron_expression[s], next_run_at[s])
              /\ PlanFrom(s) \in Nat /\ PlanFrom(s) # Null /\ PlanFrom(s) > at
              /\ Match(cron_expression[s], PlanFrom(s))
  <2>1. /\ Exists(s) /\ is_enabled[s] /\ next_run_at[s] # Null /\ next_run_at[s] <= at
    BY <1>13 DEF Due
  <2>2. Match(cron_expression[s], next_run_at[s])
    BY <2>1 DEF PlansMatch
  <2>3. cron_expression[s] \in Crons /\ cron_expression[s].period > 0
    BY <1>4, <2>2 DEF Match
  <2>4. /\ NextRun(cron_expression[s], at) \in Nat /\ NextRun(cron_expression[s], at) > at
        /\ Match(cron_expression[s], NextRun(cron_expression[s], at))
    BY <1>4, <2>3, NextRunOK
  <2> QED
    BY <1>4, <2>1, <2>2, <2>4 DEF PlanFrom
<1>14. \A s \in batch : s \in Ids /\ Due(s, at)
  OBVIOUS
<1>15. \A s \in Ids : next_run_at'[s] = IF s \in batch THEN PlanFrom(s) ELSE next_run_at[s]
  BY <1>1
<1>16. SchedulesTypeOK'
  <2>1. next_run_at' \in [Ids -> Nat \cup {Null}]
    BY <1>1, <1>4, <1>13, <1>14
  <2> QED
    BY <1>3, <1>10, <2>1 DEF SchedulesTypeOK
<1>17. PlannedIffEnabled'
  BY <1>3, <1>13, <1>14, <1>15 DEF PlannedIffEnabled
<1>18. PlansMatch'
  <2> SUFFICES ASSUME NEW s \in Ids, next_run_at'[s] # Null
               PROVE  Match(cron_expression[s], next_run_at'[s])
    BY <1>3 DEF PlansMatch, Match
  <2> QED
    BY <1>13, <1>14, <1>15 DEF PlansMatch
<1>19. RunsBeforePlan'
  <2> SUFFICES ASSUME NEW k \in DOMAIN tasks', ~tasks'[k].manual
               PROVE  /\ Exists(tasks'[k].schedule)
                      /\ tasks'[k].at <= now
                      /\ next_run_at'[tasks'[k].schedule] # Null =>
                           tasks'[k].at < next_run_at'[tasks'[k].schedule]
    BY <1>3 DEF RunsBeforePlan, Exists
  <2>1. CASE k \in DOMAIN tasks
    <3> DEFINE s == tasks[k].schedule
    <3>1. tasks'[k] = tasks[k] /\ s \in Ids /\ tasks[k].at \in Nat
      BY <1>12, <2>1, TasksOK
    <3>2. /\ Exists(s) /\ tasks[k].at <= now
          /\ next_run_at[s] # Null => tasks[k].at < next_run_at[s]
      BY <2>1, <3>1 DEF RunsBeforePlan
    <3>3. CASE s \in batch
      <4>1. /\ next_run_at[s] \in Nat /\ next_run_at[s] <= at /\ PlanFrom(s) \in Nat /\ PlanFrom(s) > at
            /\ next_run_at[s] # Null /\ next_run_at'[s] = PlanFrom(s)
        BY <1>4, <1>13, <1>14, <1>15, <3>3
      <4> HIDE DEF s
      <4>2. tasks[k].at < PlanFrom(s)
        BY <1>4, <3>1, <3>2, <4>1
      <4> QED
        BY <3>1, <3>2, <4>1, <4>2 DEF s
    <3>4. CASE s \notin batch
      BY <1>15, <3>1, <3>2, <3>4
    <3> QED
      BY <3>3, <3>4
  <2>2. CASE k \notin DOMAIN tasks
    <3>1. /\ tasks'[k].schedule \in batch /\ tasks'[k].at = at
      BY <1>11, <2>2
    <3> QED
      BY <1>4, <1>13, <1>14, <1>15, <3>1
  <2> QED
    BY <2>1, <2>2
<1>20. OneRunPerMatch'
  <2> SUFFICES ASSUME NEW j \in DOMAIN tasks', NEW k \in DOMAIN tasks', j < k,
                      ~tasks'[j].manual, ~tasks'[k].manual, tasks'[j].schedule = tasks'[k].schedule
               PROVE  \E m \in (tasks'[j].at + 1)..tasks'[k].at : Match(tasks'[k].cron, m)
    BY DEF OneRunPerMatch, Match
  <2>1. CASE k \in DOMAIN tasks
    <3>1. j \in DOMAIN tasks
      BY <1>10, <2>1
    <3> QED
      BY <1>12, <2>1, <3>1 DEF OneRunPerMatch
  <2>2. CASE k \notin DOMAIN tasks /\ j \in DOMAIN tasks
    <3> DEFINE s == order[k - L]
    <3>1. /\ tasks'[j] = tasks[j] /\ tasks[j].schedule = s /\ tasks[j].at \in Nat
          /\ tasks'[k].at = at /\ tasks'[k].cron = cron_expression[s]
          /\ s \in Ids /\ Due(s, at)
      BY <1>11, <1>12, <2>2, TasksOK
    <3> HIDE DEF s
    <3>2. /\ next_run_at[s] \in Nat /\ next_run_at[s] <= at /\ next_run_at[s] # Null
          /\ Match(cron_expression[s], next_run_at[s])
      BY <1>4, <1>13, <3>1
    <3>3. tasks[j].at < next_run_at[s]
      BY <2>2, <3>1, <3>2 DEF RunsBeforePlan
    <3>4. next_run_at[s] \in (tasks[j].at + 1)..at
      BY <1>4, <3>1, <3>2, <3>3
    <3> QED
      BY <3>1, <3>2, <3>4
  <2>3. CASE k \notin DOMAIN tasks /\ j \notin DOMAIN tasks
    <3>1. /\ j - L \in 1..n /\ k - L \in 1..n /\ order[j - L] = order[k - L]
      BY <1>11, <2>3
    <3>2. j - L # k - L
      BY <1>5, <1>10
    <3> QED
      BY <1>5, <3>1, <3>2
  <2> QED
    BY <2>1, <2>2, <2>3
<1> QED
  BY <1>3, <1>16, <1>17, <1>18, <1>19, <1>20

\* The clock, the process and the calls that do nothing change no row.
LEMMA IdleKeeps ==
    ASSUME ScheduleInv, now' \in Nat, now' >= now,
           UNCHANGED <<rows, tasks>>,
           at' = at \/ at' = Null \/ at' = now
    PROVE  ScheduleInv'
<1> USE DEF ScheduleInv
<1>1. /\ cron_expression' = cron_expression /\ is_enabled' = is_enabled /\ tasks' = tasks
      /\ next_run_at' = next_run_at /\ version' = version
  BY DEF rows
<1>2. now \in Nat /\ at \in Nat \cup {Null} /\ Null \notin Nat
  BY ScheduleConstants DEF SchedulesTypeOK
<1>3. SchedulesTypeOK' /\ (at # Null => at <= now)'
  BY <1>1, <1>2 DEF SchedulesTypeOK
<1>4. PlannedIffEnabled' /\ PlansMatch' /\ OneRunPerMatch'
  BY <1>1 DEF PlannedIffEnabled, PlansMatch, OneRunPerMatch, Match
<1>5. RunsBeforePlan'
  <2>1. ASSUME NEW k \in DOMAIN tasks, ~tasks[k].manual
        PROVE  /\ Exists(tasks[k].schedule)
               /\ tasks[k].at <= now'
               /\ next_run_at[tasks[k].schedule] # Null => tasks[k].at < next_run_at[tasks[k].schedule]
    <3>1. tasks[k].at \in Nat /\ tasks[k].at <= now
      BY <2>1, TasksOK DEF RunsBeforePlan
    <3> QED
      BY <1>2, <2>1, <3>1 DEF RunsBeforePlan
  <2> QED
    BY <1>1, <2>1 DEF RunsBeforePlan, Exists
<1> QED
  BY <1>3, <1>4, <1>5

LEMMA ScheduleStep == ScheduleInv /\ [SchedulesNext]_scheduleVars => ScheduleInv'
<1> SUFFICES ASSUME ScheduleInv, [SchedulesNext]_scheduleVars PROVE ScheduleInv'
  OBVIOUS
<1>1. now \in Nat /\ version \in [Ids -> Nat]
  BY DEF ScheduleInv, SchedulesTypeOK
<1>2. CASE \/ UNCHANGED scheduleVars
           \/ Tick \/ Stop \/ Restart \/ CallScheduler \/ RunDueFails
  <2>1. /\ now' \in Nat /\ now' >= now
        /\ UNCHANGED <<rows, tasks>>
        /\ at' = at \/ at' = Null \/ at' = now
    BY <1>1, <1>2 DEF scheduleVars, rows, Tick, Stop, Restart, CallScheduler, RunDueFails
  <2> QED
    BY <2>1, IdleKeeps
<1>3. CASE RunDueSchedules
  BY <1>3, DueRunsKeep
<1>4. CASE \E s \in Ids : RunSchedule(s)
  BY <1>4, RunByHandKeeps
<1>5. ASSUME NEW s \in Ids, NEW c \in Crons, NEW e \in BOOLEAN, CreateSchedule(s, c, e)
      PROVE  ScheduleInv'
  <2>1. PICK m \in {now, now - 1} \cap Nat :
          next_run_at' = [next_run_at EXCEPT ![s] = IF e THEN NextRun(c, m) ELSE Null]
    BY <1>5 DEF CreateSchedule
  <2>2. /\ ~Exists(s) /\ NextRun(c, now) # Null
        /\ cron_expression' = [cron_expression EXCEPT ![s] = c]
        /\ is_enabled' = [is_enabled EXCEPT ![s] = e]
        /\ now' = now /\ tasks' = tasks /\ at' = at
    BY <1>5 DEF CreateSchedule
  <2>3. m \in Nat /\ (m = now \/ (m = now - 1 /\ ~Exists(s)))
    BY <2>1, <2>2
  <2>4. PICK v \in Nat : v > 0 /\ version' = [version EXCEPT ![s] = v]
    <3>1. 1 \in Nat /\ 1 > 0 /\ version' = [version EXCEPT ![s] = 1]
      BY <1>5 DEF CreateSchedule
    <3> QED
      BY <3>1
  <2> QED
    BY <2>1, <2>2, <2>3, <2>4, PlanningKeeps
<1>6. ASSUME NEW s \in Ids, NEW c \in Crons, NEW e \in BOOLEAN, EditSchedule(s, c, e)
      PROVE  ScheduleInv'
  <2>1. /\ NextRun(c, now) # Null
        /\ next_run_at' = [next_run_at EXCEPT ![s] = IF e THEN NextRun(c, now) ELSE Null]
        /\ cron_expression' = [cron_expression EXCEPT ![s] = c]
        /\ is_enabled' = [is_enabled EXCEPT ![s] = e]
        /\ version' = [version EXCEPT ![s] = version[s] + 1]
        /\ now' = now /\ tasks' = tasks /\ at' = at
    BY <1>6 DEF EditSchedule
  <2>2. version[s] + 1 \in Nat /\ version[s] + 1 > 0
    BY <1>1
  <2> QED
    BY <1>1, <2>1, <2>2, PlanningKeeps
<1> QED
  BY <1>2, <1>3, <1>4, <1>5, <1>6 DEF SchedulesNext

\* A schedule has a next run exactly while it is enabled, and the scheduler never runs it
\* twice for one match of its expression: not for runs missed while the process was down, not
\* after an edit, not when the transaction starts minutes after the call.
THEOREM SchedulesStayPlanned == SchedulesSpec => []SchedulesKept
<1>1. ScheduleInv => SchedulesKept
  BY DEF ScheduleInv, SchedulesKept
<1> QED
  BY <1>1, NothingPlannedAtFirst, ScheduleStep, PTL DEF SchedulesSpec

-----------------------------------------------------------------------------
(* Compliance: what a pass remembers between its statements stays behind     *)
(* what the tables say, so that whatever an abandoned pass or an edit leaves,*)
(* no result goes back and no alert is resolved or reopened wrongly.         *)

\* The result of pair p is not newer than backup b and rule version n.
NotNewer(p, b, n) == result[p] # Nothing => result[p].backup <= b /\ result[p].version <= n

\* Rule version n of pair p, when it still is the present one, has this pattern and mode.
IsVersion(p, n, pattern, mode) ==
    /\ n <= rule[p[2]].version
    /\ n = rule[p[2]].version => pattern = rule[p[2]].pattern /\ mode = rule[p[2]].mode

\* A result names a backup of its switch and a version that its rule has had.
ResultsNamed ==
    \A p \in Pairs : result[p] # Nothing =>
      /\ result[p].backup \in DOMAIN backups
      /\ backups[result[p].backup].switch = p[1]
      /\ result[p].version <= rule[p[2]].version

\* So does the work of a pass, which has each pair once, with the newest backup and version
\* that were there when the pair was selected.
WorkNamed ==
    /\ \A x \in work :
         /\ x.backup \in DOMAIN backups
         /\ backups[x.backup].switch = x.pair[1]
         /\ IsVersion(x.pair, x.version, x.pattern, x.mode)
         /\ NotNewer(x.pair, x.backup, x.version)
    /\ \A x, y \in work : x.pair = y.pair => x = y

\* The alert that is settled is that of the result just stored.
ItemStored ==
    pc = "alert" =>
      /\ item \in Work
      /\ result[item.pair] # Nothing
      /\ result[item.pair].passed = passed

ComplianceInv ==
    /\ ComplianceTypeOK
    /\ ResultsNamed
    /\ WorkNamed
    /\ ItemStored
    /\ ResultsTrue

LEMMA NoComplianceAtFirst == ComplianceInit => ComplianceInv
<1> SUFFICES ASSUME ComplianceInit PROVE ComplianceInv
  OBVIOUS
<1>1. ComplianceTypeOK
  <2>1. /\ enabled \in [Switches -> BOOLEAN] /\ rule \in [Rules -> RuleRows \cup {NoRule}]
        /\ result \in [Pairs -> Results \cup {Nothing}]
        /\ alert \in [Pairs -> {"none", "open", "acknowledged"}]
    BY DEF ComplianceInit
  <2>2. backups \in Seq([switch : Switches, text : Texts])
    BY DEF ComplianceInit
  <2>3. pc \in {"idle", "deleted", "resolved", "result", "alert"} /\ work \subseteq Work
        /\ item \in Work \cup {Nothing} /\ passed \in BOOLEAN
    BY DEF ComplianceInit
  <2> QED
    BY <2>1, <2>2, <2>3 DEF ComplianceTypeOK
<1>2. ResultsNamed /\ WorkNamed /\ ItemStored /\ ResultsTrue
  <2>1. \A p \in Pairs : result[p] = Nothing
    BY DEF ComplianceInit
  <2>2. work = {} /\ pc = "idle"
    BY DEF ComplianceInit
  <2> QED
    BY <2>1, <2>2 DEF ResultsNamed, WorkNamed, ItemStored, ResultsTrue
<1> QED
  BY <1>1, <1>2 DEF ComplianceInv

\* The parts of a pair and of a row have their types.
LEMMA PairsOK == ASSUME NEW p \in Pairs PROVE p[1] \in Switches /\ p[2] \in Rules /\ p = <<p[1], p[2]>>
  BY DEF Pairs

LEMMA RowsOK ==
    ASSUME ComplianceTypeOK, NEW r \in Rules
    PROVE  /\ rule[r].version \in Nat /\ rule[r].mode \in Modes
           /\ rule[r].enabled => rule[r].pattern \in Patterns /\ rule[r].critical \in BOOLEAN
<1>1. rule[r] \in RuleRows \cup {NoRule}
  BY DEF ComplianceTypeOK
<1>2. CASE rule[r] \in RuleRows
  BY <1>2 DEF RuleRows
<1>3. CASE rule[r] = NoRule
  BY <1>3 DEF NoRule, Modes
<1> QED
  BY <1>1, <1>2, <1>3

LEMMA ResultsOK ==
    ASSUME ComplianceTypeOK, NEW p \in Pairs, result[p] # Nothing
    PROVE  result[p] \in Results /\ result[p].backup \in Nat /\ result[p].version \in Nat
           /\ result[p].passed \in BOOLEAN
<1>1. result[p] \in Results
  BY DEF ComplianceTypeOK
<1> QED
  BY <1>1 DEF Results

LEMMA WorkOK ==
    ASSUME ComplianceTypeOK, NEW x \in work
    PROVE  /\ x \in Work /\ x.pair \in Pairs /\ x.backup \in Nat /\ x.version \in Nat
           /\ x.pattern \in Patterns /\ x.mode \in Modes /\ x.critical \in BOOLEAN
<1>1. x \in Work
  BY DEF ComplianceTypeOK
<1> QED
  BY <1>1 DEF Work

\* Backups are added and rules take later versions.
BackupsGrow == \A b \in DOMAIN backups : b \in DOMAIN backups' /\ backups'[b] = backups[b]
RulesGrow ==
    \A r \in Rules :
      \/ rule'[r] = rule[r]
      \/ rule'[r].version \in Nat /\ rule'[r].version > rule[r].version
EvaluatorRests == result' = result /\ work' = work /\ item' = item /\ passed' = passed /\ pc' = pc

\* What happens around a pass leaves its results and what it remembers as they are.
LEMMA TablesGrow ==
    ComplianceInv /\ EvaluatorRests /\ BackupsGrow /\ RulesGrow
    => ResultsNamed' /\ WorkNamed' /\ ItemStored' /\ ResultsTrue'
<1> SUFFICES ASSUME ComplianceInv, EvaluatorRests, BackupsGrow, RulesGrow
             PROVE  ResultsNamed' /\ WorkNamed' /\ ItemStored' /\ ResultsTrue'
  OBVIOUS
<1> USE DEF ComplianceInv, EvaluatorRests, BackupsGrow, RulesGrow
<1>1. \A r \in Rules : rule[r].version \in Nat
  BY RowsOK
<1>2. ResultsNamed'
  <2> SUFFICES ASSUME NEW p \in Pairs, result[p] # Nothing
               PROVE  /\ result[p].backup \in DOMAIN backups'
                      /\ backups'[result[p].backup].switch = p[1]
                      /\ result[p].version <= rule'[p[2]].version
    BY DEF ResultsNamed
  <2>1. result[p].version \in Nat /\ p[2] \in Rules
    BY ResultsOK, PairsOK
  <2> QED
    BY <1>1, <2>1 DEF ResultsNamed
<1>3. WorkNamed'
  <2>1. ASSUME NEW x \in work
        PROVE  /\ x.backup \in DOMAIN backups'
               /\ backups'[x.backup].switch = x.pair[1]
               /\ IsVersion(x.pair, x.version, x.pattern, x.mode)'
               /\ NotNewer(x.pair, x.backup, x.version)'
    <3>1. x.version \in Nat /\ x.pair \in Pairs /\ x.pair[2] \in Rules
      BY WorkOK, PairsOK
    <3>2. IsVersion(x.pair, x.version, x.pattern, x.mode)'
      BY <1>1, <3>1 DEF WorkNamed, IsVersion
    <3> QED
      BY <3>2 DEF WorkNamed, NotNewer
  <2> QED
    BY <2>1 DEF WorkNamed
<1>4. ItemStored'
  BY DEF ItemStored
<1>5. ResultsTrue'
  <2> SUFFICES ASSUME NEW p \in Pairs, result[p] # Nothing, result[p].version = rule'[p[2]].version
               PROVE  LET u == backups'[result[p].backup].text
                      IN result[p].passed <=>
                           u \notin Unreadable
                           /\ (rule'[p[2]].mode = "must_contain" <=> u \in rule'[p[2]].pattern)
    BY DEF ResultsTrue
  <2>1. result[p].version \in Nat /\ p[2] \in Rules
    BY ResultsOK, PairsOK
  <2>2. /\ result[p].backup \in DOMAIN backups /\ result[p].version <= rule[p[2]].version
    BY DEF ResultsNamed
  <2>3. rule'[p[2]] = rule[p[2]]
    BY <1>1, <2>1, <2>2
  <2>4. backups'[result[p].backup] = backups[result[p].backup]
    BY <2>2
  <2> QED
    BY <2>3, <2>4 DEF ResultsTrue
<1> QED
  BY <1>2, <1>3, <1>4, <1>5

\* A new backup of back_up.
LEMMA NewBackupKeeps ==
    ASSUME ComplianceInv, NEW s \in Switches, NEW u \in Texts, NewBackup(s, u)
    PROVE  ComplianceInv'
<1>1. backups \in Seq([switch : Switches, text : Texts])
  BY DEF ComplianceInv, ComplianceTypeOK
<1>2. backups' = Append(backups, [switch |-> s, text |-> u])
  BY DEF NewBackup
<1>3. backups' \in Seq([switch : Switches, text : Texts])
  BY <1>1, <1>2
<1>4. BackupsGrow
  BY <1>1, <1>2 DEF BackupsGrow
<1>5. /\ result' = result /\ work' = work /\ item' = item /\ passed' = passed /\ pc' = pc
      /\ enabled' = enabled /\ rule' = rule /\ alert' = alert
  BY DEF NewBackup, evaluator
<1>6. ComplianceTypeOK'
  BY <1>3, <1>5 DEF ComplianceInv, ComplianceTypeOK
<1>7. RulesGrow /\ EvaluatorRests
  <2>1. rule' = rule => RulesGrow
    BY DEF RulesGrow
  <2>2. EvaluatorRests
    BY <1>5 DEF EvaluatorRests
  <2> QED
    BY <1>5, <2>1, <2>2
<1>8. ResultsNamed' /\ WorkNamed' /\ ItemStored' /\ ResultsTrue'
  BY <1>4, <1>7, TablesGrow
<1> QED
  BY <1>6, <1>8 DEF ComplianceInv

\* A rule takes a row whose version is the next one.
LEMMA NewRowKeeps ==
    ASSUME ComplianceInv, NEW r \in Rules, NEW row \in NewRule(rule[r].version + 1),
           rule' = [rule EXCEPT ![r] = row],
           UNCHANGED <<enabled, backups, result, alert, evaluator>>
    PROVE  ComplianceInv'
<1>1. rule \in [Rules -> RuleRows \cup {NoRule}] /\ rule[r].version \in Nat
  BY RowsOK DEF ComplianceInv, ComplianceTypeOK
<1>2. row \in RuleRows /\ row.version = rule[r].version + 1
  BY <1>1 DEF NewRule, RuleRows
<1>3. rule' \in [Rules -> RuleRows \cup {NoRule}]
  BY <1>1, <1>2
<1>4. ASSUME NEW q \in Rules
      PROVE  \/ rule'[q] = rule[q]
             \/ rule'[q].version \in Nat /\ rule'[q].version > rule[q].version
  <2>1. CASE q = r
    <3>1. rule'[q] = row /\ rule[q].version = rule[r].version
      BY <1>1, <2>1
    <3>2. row.version \in Nat /\ row.version > rule[r].version
      BY <1>1, <1>2
    <3> QED
      BY <3>1, <3>2
  <2>2. CASE q # r
    BY <1>1, <2>2
  <2> QED
    BY <2>1, <2>2
<1>5. /\ result' = result /\ work' = work /\ item' = item /\ passed' = passed /\ pc' = pc
      /\ enabled' = enabled /\ backups' = backups /\ alert' = alert
  BY DEF evaluator
<1>6. ComplianceTypeOK'
  BY <1>3, <1>5 DEF ComplianceInv, ComplianceTypeOK
<1>7. BackupsGrow /\ RulesGrow /\ EvaluatorRests
  <2>1. RulesGrow
    BY <1>4 DEF RulesGrow
  <2>2. backups' = backups => BackupsGrow
    BY DEF BackupsGrow
  <2>3. EvaluatorRests
    BY <1>5 DEF EvaluatorRests
  <2> QED
    BY <1>5, <2>1, <2>2, <2>3
<1>8. ResultsNamed' /\ WorkNamed' /\ ItemStored' /\ ResultsTrue'
  BY <1>7, TablesGrow
<1> QED
  BY <1>6, <1>8 DEF ComplianceInv

\* An edit of a switch and an acknowledgement touch nothing the evaluator has recorded.
LEMMA OtherEditsKeep ==
    ASSUME ComplianceInv,
           enabled' \in [Switches -> BOOLEAN],
           alert' \in [Pairs -> {"none", "open", "acknowledged"}],
           UNCHANGED <<rule, backups, result, evaluator>>
    PROVE  ComplianceInv'
<1>1. /\ result' = result /\ work' = work /\ item' = item /\ passed' = passed /\ pc' = pc
      /\ rule' = rule /\ backups' = backups
  BY DEF evaluator
<1>2. ComplianceTypeOK'
  BY <1>1 DEF ComplianceInv, ComplianceTypeOK
<1>3. ResultsNamed' /\ WorkNamed' /\ ItemStored' /\ ResultsTrue'
  <2>1. rule' = rule => RulesGrow
    BY DEF RulesGrow
  <2>2. backups' = backups => BackupsGrow
    BY DEF BackupsGrow
  <2>3. EvaluatorRests
    BY <1>1 DEF EvaluatorRests
  <2> QED
    BY <1>1, <2>1, <2>2, <2>3, TablesGrow
<1> QED
  BY <1>2, <1>3 DEF ComplianceInv

LEMMA EnvironmentKeeps == ComplianceInv /\ Environment => ComplianceInv'
<1> SUFFICES ASSUME ComplianceInv, Environment PROVE ComplianceInv'
  OBVIOUS
<1>1. CASE \E s \in Switches, u \in Texts : NewBackup(s, u)
  BY <1>1, NewBackupKeeps
<1>2. CASE \E r \in Rules : CreateRule(r)
  <2>1. PICK r \in Rules : CreateRule(r)
    BY <1>2
  <2>2. PICK row \in NewRule(1) : rule' = [rule EXCEPT ![r] = row]
    BY <2>1 DEF CreateRule
  <2>3. row \in NewRule(rule[r].version + 1) /\ UNCHANGED <<enabled, backups, result, alert, evaluator>>
    BY <2>1, <2>2 DEF CreateRule, evaluator
  <2> QED
    BY <2>2, <2>3, NewRowKeeps
<1>3. CASE \E r \in Rules : EditRule(r)
  <2>1. PICK r \in Rules : EditRule(r)
    BY <1>3
  <2>2. PICK row \in NewRule(rule[r].version + 1) : rule' = [rule EXCEPT ![r] = row]
    BY <2>1 DEF EditRule
  <2>3. UNCHANGED <<enabled, backups, result, alert, evaluator>>
    BY <2>1 DEF EditRule, evaluator
  <2> QED
    BY <2>2, <2>3, NewRowKeeps
<1>4. CASE \E s \in Switches : EditSwitch(s)
  <2>1. PICK s \in Switches : EditSwitch(s)
    BY <1>4
  <2>2. enabled' \in [Switches -> BOOLEAN] /\ alert' \in [Pairs -> {"none", "open", "acknowledged"}]
    BY <2>1 DEF EditSwitch, ComplianceInv, ComplianceTypeOK
  <2>3. UNCHANGED <<rule, backups, result, evaluator>>
    BY <2>1 DEF EditSwitch, evaluator
  <2> QED
    BY <2>2, <2>3, OtherEditsKeep
<1>5. CASE \E p \in Pairs : Acknowledge(p)
  <2>1. PICK p \in Pairs : Acknowledge(p)
    BY <1>5
  <2>2. enabled' \in [Switches -> BOOLEAN] /\ alert' \in [Pairs -> {"none", "open", "acknowledged"}]
    BY <2>1 DEF Acknowledge, ComplianceInv, ComplianceTypeOK
  <2>3. UNCHANGED <<rule, backups, result, evaluator>>
    BY <2>1 DEF Acknowledge, evaluator
  <2> QED
    BY <2>2, <2>3, OtherEditsKeep
<1> QED
  BY <1>1, <1>2, <1>3, <1>4, <1>5 DEF Environment

\* A pass forgets results of pairs that do not apply, and the alerts it resolves are no
\* part of what it remembers.
LEMMA CleaningKeeps == ComplianceInv /\ (DeleteResults \/ ResolveAlerts) => ComplianceInv'
<1> SUFFICES ASSUME ComplianceInv, DeleteResults \/ ResolveAlerts PROVE ComplianceInv'
  OBVIOUS
<1> USE DEF ComplianceInv
<1>1. CASE DeleteResults
  <2>1. /\ enabled' = enabled /\ rule' = rule /\ backups' = backups /\ alert' = alert
        /\ work' = work /\ item' = item /\ passed' = passed /\ pc' = "deleted"
        /\ result' = [p \in Pairs |-> IF Applies(p) THEN result[p] ELSE Nothing]
    BY <1>1 DEF DeleteResults
  <2>2. \A p \in Pairs : result'[p] = result[p] \/ result'[p] = Nothing
    BY <2>1
  <2>3. result' \in [Pairs -> Results \cup {Nothing}]
    BY <2>1 DEF ComplianceTypeOK
  <2>4. ComplianceTypeOK'
    BY <2>1, <2>3 DEF ComplianceTypeOK
  <2>5. ResultsNamed'
    BY <2>1, <2>2 DEF ResultsNamed
  <2>6. WorkNamed'
    <3>1. \A x \in work : x.pair \in Pairs
      BY WorkOK
    <3>2. ASSUME NEW x \in work
          PROVE  /\ x.backup \in DOMAIN backups'
                 /\ backups'[x.backup].switch = x.pair[1]
                 /\ IsVersion(x.pair, x.version, x.pattern, x.mode)'
                 /\ NotNewer(x.pair, x.backup, x.version)'
      BY <2>1, <2>2, <3>1 DEF WorkNamed, IsVersion, NotNewer
    <3> QED
      BY <2>1, <3>2 DEF WorkNamed
  <2>7. ItemStored' /\ ResultsTrue'
    BY <2>1, <2>2 DEF ItemStored, ResultsTrue
  <2> QED
    BY <2>4, <2>5, <2>6, <2>7
<1>2. CASE ResolveAlerts
  <2>1. /\ enabled' = enabled /\ rule' = rule /\ backups' = backups /\ result' = result
        /\ work' = work /\ item' = item /\ passed' = passed /\ pc' = "resolved"
        /\ alert' = [p \in Pairs |-> IF FailsCritically(p) THEN alert[p] ELSE "none"]
    BY <1>2 DEF ResolveAlerts
  <2>2. alert' \in [Pairs -> {"none", "open", "acknowledged"}]
    BY <2>1 DEF ComplianceTypeOK
  <2>3. ComplianceTypeOK'
    BY <2>1, <2>2 DEF ComplianceTypeOK
  <2>4. ResultsNamed' /\ ResultsTrue' /\ ItemStored'
    BY <2>1 DEF ResultsNamed, ResultsTrue, ItemStored
  <2>5. WorkNamed'
    BY <2>1 DEF WorkNamed, IsVersion, NotNewer
  <2> QED
    BY <2>3, <2>4, <2>5
<1> QED
  BY <1>1, <1>2

\* The select finds for each pair that is missing or stale the newest backup, and the rule
\* as it is.
LEMMA SelectionKeeps == ComplianceInv /\ SelectWork => ComplianceInv'
<1> SUFFICES ASSUME ComplianceInv, SelectWork PROVE ComplianceInv'
  OBVIOUS
<1> USE DEF ComplianceInv
<1> DEFINE todo == {x \in Pairs \X DOMAIN backups :
                      Applies(x[1]) /\ IsLatestBackup(x[1][1], x[2]) /\ Stale(x[1], x[2])}
           Taken(x) == [pair |-> x[1], backup |-> x[2], version |-> rule[x[1][2]].version,
                        pattern |-> rule[x[1][2]].pattern, mode |-> rule[x[1][2]].mode,
                        critical |-> rule[x[1][2]].critical]
<1>1. /\ enabled' = enabled /\ rule' = rule /\ backups' = backups /\ result' = result
      /\ alert' = alert /\ item' = item /\ passed' = passed
      /\ pc' \in {"idle", "result"}
      /\ work' = {Taken(x) : x \in todo}
  BY DEF SelectWork
<1>2. backups \in Seq([switch : Switches, text : Texts]) /\ DOMAIN backups \subseteq Nat
  BY DEF ComplianceTypeOK
<1>3. ASSUME NEW x \in todo
      PROVE  /\ x[1] \in Pairs /\ x[2] \in DOMAIN backups /\ x[2] \in Nat
             /\ Taken(x) \in Work
             /\ IsLatestBackup(x[1][1], x[2])
  <2>1. x[1] \in Pairs /\ x[2] \in DOMAIN backups /\ Applies(x[1]) /\ IsLatestBackup(x[1][1], x[2])
    OBVIOUS
  <2>2. x[1][2] \in Rules /\ rule[x[1][2]].enabled /\ x[2] \in Nat
    BY <1>2, <2>1, PairsOK DEF Applies
  <2>3. /\ rule[x[1][2]].version \in Nat /\ rule[x[1][2]].mode \in Modes
        /\ rule[x[1][2]].pattern \in Patterns /\ rule[x[1][2]].critical \in BOOLEAN
    BY <2>2, RowsOK
  <2>4. Taken(x) \in Work
    BY <2>1, <2>2, <2>3 DEF Work
  <2> QED
    BY <2>1, <2>2, <2>4
<1>4. work' \subseteq Work
  BY <1>1, <1>3
<1>5. ComplianceTypeOK'
  BY <1>1, <1>4 DEF ComplianceTypeOK
<1>6. ResultsNamed' /\ ResultsTrue' /\ ItemStored'
  BY <1>1 DEF ResultsNamed, ResultsTrue, ItemStored
<1>7. WorkNamed'
  <2>1. ASSUME NEW x \in todo
        PROVE  /\ Taken(x).backup \in DOMAIN backups
               /\ backups[Taken(x).backup].switch = Taken(x).pair[1]
               /\ IsVersion(Taken(x).pair, Taken(x).version, Taken(x).pattern, Taken(x).mode)
               /\ NotNewer(Taken(x).pair, Taken(x).backup, Taken(x).version)
    <3>1. /\ Taken(x).pair = x[1] /\ Taken(x).backup = x[2]
          /\ Taken(x).version = rule[x[1][2]].version
          /\ Taken(x).pattern = rule[x[1][2]].pattern /\ Taken(x).mode = rule[x[1][2]].mode
      OBVIOUS
    <3>2. x[1] \in Pairs /\ x[1][2] \in Rules /\ rule[x[1][2]].version \in Nat
      BY <1>3, PairsOK, RowsOK
    <3>3. IsVersion(x[1], rule[x[1][2]].version, rule[x[1][2]].pattern, rule[x[1][2]].mode)
      BY <3>2 DEF IsVersion
    <3>4. x[2] \in DOMAIN backups /\ backups[x[2]].switch = x[1][1]
      BY <1>3 DEF IsLatestBackup
    <3>5. NotNewer(x[1], x[2], rule[x[1][2]].version)
      BY <1>2, <1>3, <3>2 DEF NotNewer, ResultsNamed, IsLatestBackup
    <3> HIDE DEF Taken
    <3> QED
      BY <3>1, <3>3, <3>4, <3>5
  <2>2. ASSUME NEW x \in todo, NEW y \in todo, Taken(x).pair = Taken(y).pair
        PROVE  Taken(x) = Taken(y)
    <3>1. x[1] = y[1]
      BY <2>2
    <3>2. x[2] = y[2]
      BY <1>2, <1>3, <3>1 DEF IsLatestBackup
    <3> QED
      BY <3>1, <3>2
  <2> HIDE DEF Taken, todo
  <2>3. ASSUME NEW z \in work'
        PROVE  /\ z.backup \in DOMAIN backups'
               /\ backups'[z.backup].switch = z.pair[1]
               /\ IsVersion(z.pair, z.version, z.pattern, z.mode)'
               /\ NotNewer(z.pair, z.backup, z.version)'
    <3>1. PICK x \in todo : z = Taken(x)
      BY <1>1
    <3> QED
      BY <1>1, <2>1, <3>1 DEF IsVersion, NotNewer
  <2>4. \A z, w \in work' : z.pair = w.pair => z = w
    BY <1>1, <2>2
  <2> QED
    BY <2>3, <2>4 DEF WorkNamed
<1> QED
  BY <1>5, <1>6, <1>7

\* A stored result is what the select saw, judged: it is not older than the one it replaces,
\* and true if the rule still has the version that was selected.
LEMMA StoringKeeps == ComplianceInv /\ StoreResult => ComplianceInv'
<1> SUFFICES ASSUME ComplianceInv, StoreResult PROVE ComplianceInv'
  OBVIOUS
<1> USE DEF ComplianceInv
<1>1. PICK x \in work :
        /\ item' = x /\ work' = work \ {x}
        /\ passed' = Verdict(x.pattern, x.mode, backups[x.backup].text)
        /\ result' = [result EXCEPT ![x.pair] =
             [backup |-> x.backup, version |-> x.version, passed |-> passed']]
  BY DEF StoreResult
<1>2. /\ enabled' = enabled /\ rule' = rule /\ backups' = backups /\ alert' = alert
      /\ pc' = "alert"
  BY DEF StoreResult
<1>3. /\ x \in Work /\ x.pair \in Pairs /\ x.backup \in Nat /\ x.version \in Nat
  BY WorkOK
<1>4. passed' \in BOOLEAN
  BY <1>1 DEF Verdict, EvaluateRule
<1>5. result \in [Pairs -> Results \cup {Nothing}]
  BY DEF ComplianceTypeOK
<1>6. [backup |-> x.backup, version |-> x.version, passed |-> passed'] \in Results
  BY <1>3, <1>4 DEF Results
<1>7. ComplianceTypeOK'
  <2>1. result' \in [Pairs -> Results \cup {Nothing}]
    BY <1>1, <1>5, <1>6
  <2>2. work' \subseteq Work /\ item' \in Work \cup {Nothing}
    BY <1>1, <1>3 DEF ComplianceTypeOK
  <2> QED
    BY <1>2, <1>4, <2>1, <2>2 DEF ComplianceTypeOK
<1>8. /\ result'[x.pair].backup = x.backup /\ result'[x.pair].version = x.version
      /\ result'[x.pair].passed = passed'
  BY <1>1, <1>3, <1>5
<1>9. \A p \in Pairs : p # x.pair => result'[p] = result[p]
  BY <1>1, <1>5
<1>10. /\ x.backup \in DOMAIN backups
       /\ backups[x.backup].switch = x.pair[1]
       /\ IsVersion(x.pair, x.version, x.pattern, x.mode)
       /\ NotNewer(x.pair, x.backup, x.version)
  BY DEF WorkNamed
<1>11. ResultsNamed'
  <2> SUFFICES ASSUME NEW p \in Pairs, result'[p] # Nothing
               PROVE  /\ result'[p].backup \in DOMAIN backups
                      /\ backups[result'[p].backup].switch = p[1]
                      /\ result'[p].version <= rule[p[2]].version
    BY <1>2 DEF ResultsNamed
  <2>1. CASE p = x.pair
    BY <1>8, <1>10, <2>1 DEF IsVersion
  <2>2. CASE p # x.pair
    BY <1>9, <2>2 DEF ResultsNamed
  <2> QED
    BY <2>1, <2>2
<1>12. WorkNamed'
  <2>1. ASSUME NEW y \in work \ {x}
        PROVE  /\ y.backup \in DOMAIN backups
               /\ backups[y.backup].switch = y.pair[1]
               /\ IsVersion(y.pair, y.version, y.pattern, y.mode)
               /\ NotNewer(y.pair, y.backup, y.version)'
    <3>1. y.pair # x.pair /\ y.pair \in Pairs
      BY WorkOK DEF WorkNamed
    <3>2. NotNewer(y.pair, y.backup, y.version)
      BY DEF WorkNamed
    <3>3. NotNewer(y.pair, y.backup, y.version)'
      BY <1>9, <3>1, <3>2 DEF NotNewer
    <3> QED
      BY <3>3 DEF WorkNamed
  <2>2. \A y \in work' : y \in work \ {x}
    BY <1>1
  <2>3. \A y \in work' :
          /\ y.backup \in DOMAIN backups'
          /\ backups'[y.backup].switch = y.pair[1]
          /\ IsVersion(y.pair, y.version, y.pattern, y.mode)'
          /\ NotNewer(y.pair, y.backup, y.version)'
    BY <1>2, <2>1, <2>2 DEF IsVersion
  <2>4. \A y, z \in work' : y.pair = z.pair => y = z
    BY <2>2 DEF WorkNamed
  <2> QED
    BY <2>3, <2>4 DEF WorkNamed
<1>13. ItemStored'
  <2>1. result'[x.pair] \in Results \cup {Nothing} /\ item' = x
    BY <1>1, <1>3, <1>7 DEF ComplianceTypeOK
  <2>2. result'[x.pair] # Nothing
    BY <1>6, <1>1, <1>3, <1>5, ComplianceConstants DEF Results
  <2> QED
    BY <1>1, <1>2, <1>3, <1>8, <2>2 DEF ItemStored
<1>14. ResultsTrue'
  <2> SUFFICES ASSUME NEW p \in Pairs, result'[p] # Nothing, result'[p].version = rule[p[2]].version
               PROVE  LET u == backups[result'[p].backup].text
                      IN result'[p].passed <=>
                           u \notin Unreadable
                           /\ (rule[p[2]].mode = "must_contain" <=> u \in rule[p[2]].pattern)
    BY <1>2 DEF ResultsTrue
  <2>1. CASE p = x.pair
    <3>1. x.version = rule[p[2]].version /\ result'[p].backup = x.backup /\ result'[p].passed = passed'
      BY <1>8, <2>1
    <3>2. x.pattern = rule[p[2]].pattern /\ x.mode = rule[p[2]].mode
      BY <1>10, <2>1, <3>1 DEF IsVersion
    <3>3. passed' <=> Verdict(rule[p[2]].pattern, rule[p[2]].mode, backups[result'[p].backup].text)
      BY <1>1, <3>1, <3>2
    <3> QED
      BY <1>4, <3>1, <3>3 DEF Verdict, EvaluateRule
  <2>2. CASE p # x.pair
    BY <1>9, <2>2 DEF ResultsTrue
  <2> QED
    BY <2>1, <2>2
<1> QED
  BY <1>7, <1>11, <1>12, <1>13, <1>14

\* Settling an alert and giving up a pass end what the pass remembers, not the results.
LEMMA EndingKeeps == ComplianceInv /\ (SettleAlert \/ Abandon) => ComplianceInv'
<1> SUFFICES ASSUME ComplianceInv, SettleAlert \/ Abandon PROVE ComplianceInv'
  OBVIOUS
<1> USE DEF ComplianceInv
<1>1. /\ enabled' = enabled /\ rule' = rule /\ backups' = backups /\ result' = result
      /\ work' \subseteq work /\ item' = Nothing /\ passed' = FALSE
      /\ pc' \in {"idle", "result"}
  BY DEF SettleAlert, Abandon
<1>2. alert' \in [Pairs -> {"none", "open", "acknowledged"}]
  BY DEF SettleAlert, Abandon, UpsertAlert, ResolveAlert, ComplianceTypeOK
<1>3. ComplianceTypeOK'
  BY <1>1, <1>2 DEF ComplianceTypeOK
<1>4. ResultsNamed' /\ ResultsTrue' /\ ItemStored'
  BY <1>1 DEF ResultsNamed, ResultsTrue, ItemStored
<1>5. WorkNamed'
  BY <1>1 DEF WorkNamed, IsVersion, NotNewer
<1> QED
  BY <1>3, <1>4, <1>5

LEMMA ComplianceStep == ComplianceInv /\ [ComplianceNext]_complianceVars => ComplianceInv'
<1> SUFFICES ASSUME ComplianceInv, [ComplianceNext]_complianceVars PROVE ComplianceInv'
  OBVIOUS
<1>1. CASE UNCHANGED complianceVars
  BY <1>1 DEF complianceVars, evaluator, ComplianceInv, ComplianceTypeOK, ResultsNamed, ResultsTrue,
              ItemStored, WorkNamed, IsVersion, NotNewer
<1>2. CASE Evaluate
  BY <1>2, CleaningKeeps, SelectionKeeps, StoringKeeps, EndingKeeps DEF Evaluate
<1>3. CASE Environment
  BY <1>3, EnvironmentKeeps
<1>4. CASE Abandon
  BY <1>4, EndingKeeps
<1> QED
  BY <1>1, <1>2, <1>3, <1>4 DEF ComplianceNext

\* No step of evaluateCompliance stores a result older than the one it replaces.
LEMMA NoStepBack ==
    ComplianceInv /\ [ComplianceNext]_complianceVars
    => \A p \in Pairs : result[p] # Nothing /\ result'[p] # Nothing =>
         result[p].backup <= result'[p].backup /\ result[p].version <= result'[p].version
<1> SUFFICES ASSUME ComplianceInv, [ComplianceNext]_complianceVars,
                    NEW p \in Pairs, result[p] # Nothing, result'[p] # Nothing
             PROVE  result[p].backup <= result'[p].backup /\ result[p].version <= result'[p].version
  OBVIOUS
<1> USE DEF ComplianceInv
<1>1. result[p].backup \in Nat /\ result[p].version \in Nat
  BY ResultsOK
<1>2. CASE result'[p] = result[p]
  BY <1>1, <1>2
<1>3. CASE StoreResult
  <2>1. PICK x \in work :
          result' = [result EXCEPT ![x.pair] =
             [backup |-> x.backup, version |-> x.version, passed |-> passed']]
    BY <1>3 DEF StoreResult
  <2>2. result \in [Pairs -> Results \cup {Nothing}]
    BY DEF ComplianceTypeOK
  <2>3. CASE p = x.pair
    <3>1. result'[p].backup = x.backup /\ result'[p].version = x.version
      BY <2>1, <2>2, <2>3
    <3>2. NotNewer(p, x.backup, x.version)
      BY <2>3 DEF WorkNamed
    <3> QED
      BY <3>1, <3>2 DEF NotNewer
  <2>4. CASE p # x.pair
    BY <1>2, <2>1, <2>2, <2>4
  <2> QED
    BY <2>3, <2>4
<1>4. CASE DeleteResults
  <2>1. result'[p] = result[p]
    BY <1>4 DEF DeleteResults
  <2> QED
    BY <1>2, <2>1
<1>5. CASE result' = result
  BY <1>2, <1>5
<1> QED
  BY <1>3, <1>4, <1>5 DEF ComplianceNext, Evaluate, Environment, ResolveAlerts, SelectWork, SettleAlert,
     Abandon, NewBackup, CreateRule, EditRule, EditSwitch, Acknowledge, complianceVars

\* ResolveAlerts and the settling of an item resolve an alert only if the result says so.
LEMMA NoEarlyResolution ==
    ComplianceInv /\ [ComplianceNext]_complianceVars
    => \A p \in Pairs : alert[p] # "none" /\ alert'[p] = "none" => ~FailsCritically(p)'
<1> SUFFICES ASSUME ComplianceInv, [ComplianceNext]_complianceVars,
                    NEW p \in Pairs, alert[p] # "none", alert'[p] = "none"
             PROVE  ~FailsCritically(p)'
  OBVIOUS
<1> USE DEF ComplianceInv
<1>1. alert \in [Pairs -> {"none", "open", "acknowledged"}]
  BY DEF ComplianceTypeOK
<1>2. CASE ResolveAlerts
  <2>1. ~FailsCritically(p) /\ result' = result /\ rule' = rule
    BY <1>2 DEF ResolveAlerts
  <2> QED
    BY <2>1 DEF FailsCritically
<1>3. CASE SettleAlert
  <2>1. pc = "alert" /\ result' = result
    BY <1>3 DEF SettleAlert
  <2>2. passed /\ alert' = [alert EXCEPT ![item.pair] = "none"]
    BY <1>1, <1>3 DEF SettleAlert, UpsertAlert, ResolveAlert
  <2>3. p = item.pair
    BY <1>1, <2>2
  <2>4. result[p].passed
    BY <2>1, <2>2, <2>3 DEF ItemStored
  <2> QED
    BY <2>1, <2>4 DEF FailsCritically
<1>4. CASE \E q \in Pairs : Acknowledge(q)
  BY <1>1, <1>4 DEF Acknowledge
<1>5. CASE alert' = alert
  BY <1>5
<1> QED
  BY <1>2, <1>3, <1>4, <1>5 DEF ComplianceNext, Evaluate, Environment, DeleteResults, SelectWork,
     StoreResult, Abandon, NewBackup, CreateRule, EditRule, EditSwitch, complianceVars

\* An active alert keeps its acknowledgement in upsertAlert.
LEMMA NoReopening ==
    ComplianceInv /\ [ComplianceNext]_complianceVars
    => \A p \in Pairs : alert[p] = "acknowledged" => alert'[p] # "open"
<1> SUFFICES ASSUME ComplianceInv, [ComplianceNext]_complianceVars,
                    NEW p \in Pairs, alert[p] = "acknowledged"
             PROVE  alert'[p] # "open"
  OBVIOUS
<1>1. alert \in [Pairs -> {"none", "open", "acknowledged"}]
  BY DEF ComplianceInv, ComplianceTypeOK
<1>2. CASE ResolveAlerts
  BY <1>2 DEF ResolveAlerts
<1>3. CASE SettleAlert
  BY <1>1, <1>3 DEF SettleAlert, UpsertAlert, ResolveAlert
<1>4. CASE \E q \in Pairs : Acknowledge(q)
  BY <1>1, <1>4 DEF Acknowledge
<1>5. CASE alert' = alert
  BY <1>5
<1> QED
  BY <1>2, <1>3, <1>4, <1>5 DEF ComplianceNext, Evaluate, Environment, DeleteResults, SelectWork,
     StoreResult, Abandon, NewBackup, CreateRule, EditRule, EditSwitch, complianceVars

\* What evaluateCompliance keeps whatever is edited, backed up or abandoned between its
\* statements: a result says the truth about the version it names, results never go back, no
\* alert is resolved while its result still fails a critical rule, and none that was
\* acknowledged is opened again.
THEOREM EvaluatorKeeps == ComplianceSpec => ComplianceKept
<1>1. ComplianceSpec => []ComplianceInv
  BY NoComplianceAtFirst, ComplianceStep, PTL DEF ComplianceSpec
<1>2. ComplianceInv => ResultsTrue
  BY DEF ComplianceInv
<1>3. ComplianceSpec => []ResultsTrue
  BY <1>1, <1>2, PTL
<1>4. ComplianceSpec => ResultsNeverRegress
  BY <1>1, NoStepBack, PTL DEF ComplianceSpec, ResultsNeverRegress
<1>5. ComplianceSpec => ResolvedOnlyWhenCleared
  BY <1>1, NoEarlyResolution, PTL DEF ComplianceSpec, ResolvedOnlyWhenCleared
<1>6. ComplianceSpec => AcknowledgedUntilResolved
  BY <1>1, NoReopening, PTL DEF ComplianceSpec, AcknowledgedUntilResolved
<1> QED
  BY <1>3, <1>4, <1>5, <1>6 DEF ComplianceKept
=============================================================================
