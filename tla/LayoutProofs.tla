---------------------------- MODULE LayoutProofs ----------------------------
(***************************************************************************)
(* Proofs about the two layouts of the application: the carousel, its      *)
(* margins and the items it asks about, for every size of the view and     *)
(* every position; and the calendar, for any sequence of days of 23 to 25  *)
(* hours.  They share nothing, and each has names of its own.              *)
(***************************************************************************)
EXTENDS Carousel, Calendar, TLAPS

-----------------------------------------------------------------------------
(***************************************************************************)
(* The carousel                                                            *)
(***************************************************************************)
\* The layout is prepared with margins that fit, and whatever they depend on
\* invalidates it: one step per action.
LEMMA NextKeepsInv == Inv /\ [Next]_vars => Inv'
<1> SUFFICES ASSUME Inv, [Next]_vars PROVE Inv'
  OBVIOUS
<1> USE CarouselAssumption DEF Inv
<1>1. CASE PrepareLayout
  BY <1>1 DEF PrepareLayout
<1>2. ASSUME NEW newSize \in ItemSize, SetItemSize(newSize) PROVE Inv'
  BY <1>2 DEF SetItemSize
<1>3. ASSUME NEW newSize \in BoundsSize, Resize(newSize) PROVE Inv'
  BY <1>3 DEF Resize, ShouldInvalidateLayoutForBoundsChange
<1>4. ASSUME NEW newOffset \in Int, Scroll(newOffset) PROVE Inv'
  BY <1>4 DEF Scroll, TargetContentOffset
<1>5. CASE UNCHANGED vars
  BY <1>5 DEF vars
<1>6. ASSUME NEW newOffset \in -MaxBounce .. ContentWidth - 2 * size.width + MaxBounce
      PROVE  newOffset \in Int
  BY <1>6
<1> QED BY <1>1, <1>2, <1>3, <1>4, <1>5, <1>6 DEF Next

\* The invariant holds of a layout nobody has asked to prepare itself yet.
LEMMA InitInv == Init => Inv
<1> SUFFICES ASSUME Init PROVE Inv
  OBVIOUS
<1>1. valid = FALSE
  BY DEF Init
<1>2. valid \in BOOLEAN /\ ~valid
  BY <1>1, Zenon
<1>3. /\ size \in BoundsSize /\ itemSize \in ItemSize
      /\ offset \in Int /\ rightLeftMargin \in Int /\ topBottomMargin \in Int
  BY DEF Init
<1> QED BY <1>2, <1>3, Zenon DEF Inv

\* The margins are up to date whenever the layout may be asked.
THEOREM CarouselInvariant == Spec => []Inv
BY InitInv, NextKeepsInv, PTL DEF Spec

\* For every size of the view and the items and every number of items, both ends
\* of the row can be scrolled to the middle, and the row does not scroll vertically.
THEOREM EndsCanBeCentred == Spec => []EndsAreCentred
<1>1. Inv => EndsAreCentred
  <2> SUFFICES ASSUME Inv, valid PROVE EndsAreCentred
    BY DEF EndsAreCentred
  <2> DEFINE w == itemSize.width
             n == NumberOfItems
             rest == (n - 1) * (w + InterItemSpace)
  <2>1. /\ w \in Nat /\ itemSize.height \in Nat /\ n \in Nat
        /\ size.width \in Nat /\ size.height \in Nat /\ InterItemSpace \in Nat
    BY CarouselAssumption DEF Inv
  <2>2. /\ rightLeftMargin = size.width - w
        /\ topBottomMargin = size.height - itemSize.height
    BY DEF Inv
  <2> HIDE DEF w, n
  <2>3. /\ 0 * (2 * (w + InterItemSpace)) = 0
        /\ (n - 1) * (2 * (w + InterItemSpace)) = 2 * rest
        /\ n * w + (n - 1) * InterItemSpace = rest + w
        /\ rest \in Int
    BY <2>1
  <2> HIDE DEF rest
  <2>4. ContentWidth = 2 * (rest + w) + 2 * rightLeftMargin
    BY <2>3 DEF ContentWidth, w, n
  <2>5. /\ LeftEdge(0) = rightLeftMargin
        /\ LeftEdge(n - 1) = rightLeftMargin + 2 * rest
    BY <2>1, <2>2, <2>3 DEF LeftEdge, CombinedItemWidth, w
  <2> QED
    BY <2>1, <2>2, <2>3, <2>4, <2>5 DEF EndsAreCentred, ContentHeight, w, n
<1> QED BY <1>1, CarouselInvariant, PTL

\* Rounding down, said without a division: floorf; and ceilf, its mirror image.
LEMMA Rounding ==
    ASSUME NEW x \in Int, NEW w \in Nat \ {0}, NEW i \in Int
    PROVE  /\ x \div w \in Int
           /\ i <= x \div w <=> i * w <= x
           /\ i < -(x \div w) <=> i * w < -x
<1> DEFINE q == x \div w
<1>1. q \in Int /\ q * w <= x /\ x < q * w + w
  OBVIOUS
<1> HIDE DEF q
<1>2. ASSUME NEW j \in Int PROVE j <= q <=> j * w <= x
  <2>1. CASE j <= q
    <3>1. q - j \in Nat
      BY <1>1, <2>1
    <3>2. (q - j) * w \in Nat /\ (q - j) * w = q * w - j * w
      BY <3>1, <1>1
    <3> QED BY <1>1, <2>1, <3>2
  <2>2. CASE q + 1 <= j
    <3>1. j - (q + 1) \in Nat
      BY <1>1, <2>2
    <3>2. (j - (q + 1)) * w \in Nat /\ (j - (q + 1)) * w = j * w - (q * w + w)
      BY <3>1, <1>1
    <3> QED BY <1>1, <2>2, <3>2
  <2> QED BY <1>1, <2>1, <2>2
<1>3. i < -q <=> i * w < -x
  <2>1. -i <= q <=> (-i) * w <= x
    BY <1>2
  <2>2. (-i) * w = -(i * w) /\ i * w \in Int
    OBVIOUS
  <2> QED BY <1>1, <2>1, <2>2
<1> QED BY <1>1, <1>2, <1>3 DEF q

\* layoutAttributesForElementsInRect: asks about no item that is too far to the left or
\* the right, and leaves none out that is to be seen, wherever the row is scrolled to.
THEOREM VisibleItemsAreAsked == Spec => []RangeIsVisible
<1>1. Inv => RangeIsVisible
  <2> SUFFICES ASSUME Inv, valid, NEW i \in 0 .. NumberOfItems - 1
               PROVE  LET asked == FirstVisibleItem <= i /\ i < LastVisibleItem
                      IN  /\ Visible(i) => asked
                          /\ asked => \/ Visible(i)
                                      \/ /\ LeftEdge(i) <= offset
                                         /\ offset < LeftEdge(i) + CombinedItemWidth
    BY DEF RangeIsVisible
  <2> DEFINE w == CombinedItemWidth
             m == rightLeftMargin
             end == offset + 2 * size.width
  <2>1. /\ w \in Nat \ {0} /\ 2 * itemSize.width <= w /\ itemSize.width \in Nat
        /\ m \in Int /\ offset \in Int /\ end \in Int /\ i \in Nat /\ i < NumberOfItems
        /\ m - end \in Int /\ offset - m \in Int /\ NumberOfItems \in Nat
    BY CarouselAssumption DEF Inv, CombinedItemWidth
  <2>2. m - offset - 2 * size.width = m - end
    BY CarouselAssumption DEF Inv
  <2>3. FirstVisibleItem <= i <=> offset < LeftEdge(i) + w
    <3> DEFINE q == (offset - m) \div w
    <3>1. q \in Int /\ (i + 1 <= q <=> (i + 1) * w <= offset - m)
      <4>1. offset - m \in Int /\ w \in Nat \ {0} /\ i + 1 \in Int
        BY <2>1
      <4> HIDE DEF w, m
      <4> QED BY <4>1, Rounding
    <3>2. (i + 1) * w = i * w + w /\ i * w \in Int
      <4> HIDE DEF w
      <4> QED BY <2>1
    <3>3. FirstVisibleItem = IF q < 0 THEN 0 ELSE q
      BY DEF FirstVisibleItem, ItemAt
    <3>4. LeftEdge(i) = m + i * w
      BY DEF LeftEdge
    <3> HIDE DEF q, w, m
    <3> QED BY <2>1, <3>1, <3>2, <3>3, <3>4
  <2>4. i < LastVisibleItem <=> LeftEdge(i) < end
    <3> DEFINE c == -((m - end) \div w)
    <3>1. (i < c <=> i * w < -(m - end)) /\ c \in Int
      <4> HIDE DEF w, m, end
      <4> QED BY <2>1, Rounding
    <3>2. LastVisibleItem = IF c > NumberOfItems THEN NumberOfItems ELSE c
      BY <2>2 DEF LastVisibleItem
    <3>3. LeftEdge(i) = m + i * w
      BY DEF LeftEdge
    <3>4. i * w \in Int
      <4> HIDE DEF w
      <4> QED BY <2>1
    <3> HIDE DEF c, w, m, end
    <3> QED BY <2>1, <3>1, <3>2, <3>3, <3>4
  <2>5. Visible(i) <=> LeftEdge(i) < end /\ LeftEdge(i) + 2 * itemSize.width > offset
    BY DEF Visible
  <2>6. LeftEdge(i) \in Int
    <3>1. i * w \in Int
      <4> HIDE DEF w
      <4> QED BY <2>1
    <3> QED BY <2>1, <3>1 DEF LeftEdge
  <2>7. w = CombinedItemWidth
    OBVIOUS
  <2> HIDE DEF w, m, end
  <2> QED BY <2>1, <2>3, <2>4, <2>5, <2>6, <2>7
<1> QED BY <1>1, CarouselInvariant, PTL

-----------------------------------------------------------------------------
(***************************************************************************)
(* The calendar                                                            *)
(***************************************************************************)
\* Days do not overlap, so a time has one day.
LEMMA DayOfIsUnique ==
    ASSUME NEW d \in Days, NEW t \in Nat,
           Midnight[d] <= t, t < Midnight[d + 1]
    PROVE  DayOf(t) = d
<1>0. /\ \A f \in DOMAIN Midnight : Midnight[f] \in Nat
      /\ \A f, g \in DOMAIN Midnight : f < g => Midnight[f] < Midnight[g]
  BY CalendarAssumption
<1>1. ASSUME NEW e \in Days, Midnight[e] <= t, t < Midnight[e + 1]
      PROVE  e = d
  <2>1. /\ d \in DOMAIN Midnight /\ d + 1 \in DOMAIN Midnight
        /\ e \in DOMAIN Midnight /\ e + 1 \in DOMAIN Midnight
        /\ d \in Nat /\ e \in Nat
    BY <1>1, CalendarAssumption DEF Days
  <2>2. /\ Midnight[d] \in Nat /\ Midnight[d + 1] \in Nat
        /\ Midnight[e] \in Nat /\ Midnight[e + 1] \in Nat
    BY <1>0, <2>1
  <2>3. CASE e < d
    <3>1. e + 1 = d \/ e + 1 < d
      BY <2>1, <2>3
    <3>2. CASE e + 1 = d
      BY <1>1, <2>2, <3>2
    <3>3. CASE e + 1 < d
      <4>1. Midnight[e + 1] < Midnight[d]
        BY <1>0, <2>1, <3>3
      <4> QED BY <1>1, <2>2, <4>1
    <3> QED BY <3>1, <3>2, <3>3
  <2>4. CASE d < e
    <3>1. d + 1 = e \/ d + 1 < e
      BY <2>1, <2>4
    <3>2. CASE d + 1 = e
      BY <1>1, <2>2, <3>2
    <3>3. CASE d + 1 < e
      <4>1. Midnight[d + 1] < Midnight[e]
        BY <1>0, <2>1, <3>3
      <4> QED BY <1>1, <2>2, <4>1
    <3> QED BY <3>1, <3>2, <3>3
  <2> QED BY <2>1, <2>3, <2>4
<1> QED BY <1>1 DEF DayOf

\* A day holds its own midnight, and is between 23 and 25 hours long.
LEMMA DayOfMidnight ==
    ASSUME NEW d \in Days
    PROVE  /\ Midnight[d] \in Nat /\ Midnight[d + 1] \in Nat
           /\ DayOf(Midnight[d]) = d
           /\ \E hours \in 23 .. 25 : Midnight[d + 1] = Midnight[d] + hours * 3600
<1>1. \E hours \in 23 .. 25 : Midnight[d + 1] = Midnight[d] + hours * 3600
  BY CalendarAssumption DEF Hour, Minute
<1>2. Midnight[d] \in Nat /\ Midnight[d + 1] \in Nat
  BY CalendarAssumption DEF Days
<1>3. Midnight[d] < Midnight[d + 1]
  BY <1>1, <1>2
<1> QED BY <1>1, <1>2, <1>3, DayOfIsUnique

\* Nothing is displayed before the launch.
LEMMA CalendarStartsInv == CalendarInit => CalendarInv
<1> SUFFICES ASSUME CalendarInit PROVE CalendarInv
  OBVIOUS
<1>1. prepared = FALSE
  BY DEF CalendarInit, NothingYet
<1>2. prepared \in BOOLEAN /\ ~prepared
  BY <1>1, Zenon
<1>3. now \in ClockReadings /\ displayedDay = NoDate /\ events = <<>>
  BY DEF CalendarInit, NothingYet
<1> QED BY <1>2, <1>3, Zenon DEF CalendarInv

\* A day is chosen at a launch, and every preparation of the layout finds the same.
LEMMA CalendarKeepsInv ==
    CalendarInv /\ [CalendarNext]_calendarVars => CalendarInv'
<1> SUFFICES ASSUME CalendarInv, [CalendarNext]_calendarVars PROVE CalendarInv'
  OBVIOUS
<1>0. now \in Nat
  BY CalendarAssumption DEF CalendarInv
<1>1. CASE Launch
  <2>1. PICK d \in Days : Midnight[d] <= now /\ now < Midnight[d + 1]
    BY CalendarAssumption DEF CalendarInv
  <2>2. DayOf(now) = d
    BY <1>0, <2>1, DayOfIsUnique
  <2>3. displayedDay' = Midnight[d] /\ events' = CalendarEvents(Midnight[d])
    BY <1>1, <2>2 DEF Launch, StartOfCurrentDay
  <2>4. ~prepared /\ prepared' = prepared /\ now' = now
    BY <1>1 DEF Launch, layoutVars, CalendarInv
  <2>5. displayedDay' # NoDate
    BY <2>3, DayOfMidnight DEF NoDate
  <2> QED BY <2>1, <2>3, <2>4, <2>5 DEF CalendarInv
<1>2. CASE PrepareCalendar
  <2>1. PICK d \in Days : /\ displayedDay = Midnight[d] /\ Midnight[d] <= now
                          /\ events = CalendarEvents(Midnight[d])
    BY <1>2 DEF PrepareCalendar, CalendarInv
  <2>2. /\ startOfDisplayedDay' = Midnight[d]
        /\ endOfDisplayedDay' = Midnight[d + 1] - 1
        /\ beadViewDate' = now
        /\ UNCHANGED <<now, displayedDay, events>>
        /\ displayedDay # NoDate
    BY <1>2, <2>1, DayOfMidnight
       DEF PrepareCalendar, StartOfDisplayedDate, EndOfDisplayedDate,
           StartOfCurrentDay, EndOfCurrentDay
  <2>3. prepared' \in BOOLEAN
    <3>1. prepared' = TRUE
      BY <1>2 DEF PrepareCalendar
    <3> QED BY <3>1, Zenon
  <2>4. beadViewDate' \in Midnight[d] .. now
    BY <1>0, <2>1, <2>2, DayOfMidnight
  <2> QED BY <2>1, <2>2, <2>3, <2>4 DEF CalendarInv
<1>3. CASE ProcessEnds
  <2>1. prepared' = FALSE
    BY <1>3 DEF ProcessEnds
  <2>2. prepared' \in BOOLEAN /\ ~prepared'
    BY <2>1, Zenon
  <2> QED BY <1>3, <2>2 DEF ProcessEnds, CalendarInv
<1>4. ASSUME NEW t \in ClockReadings, ClockAdvances(t)
      PROVE  CalendarInv'
  <2>1. t \in Nat /\ now < t /\ now' = t
    BY <1>4, CalendarAssumption DEF ClockAdvances
  <2>2. UNCHANGED <<displayedDay, events, prepared, startOfDisplayedDay,
                    endOfDisplayedDay, beadViewDate>>
    BY <1>4 DEF ClockAdvances, layoutVars
  <2>3. \A d \in Days : /\ Midnight[d] <= now => Midnight[d] <= t
                        /\ Midnight[d] .. now \subseteq Midnight[d] .. t
    BY <1>0, <2>1, DayOfMidnight
  <2> QED BY <2>1, <2>2, <2>3, <1>4 DEF CalendarInv
<1>5. CASE UNCHANGED calendarVars
  BY <1>5 DEF calendarVars, layoutVars, CalendarInv
<1> QED BY <1>1, <1>2, <1>3, <1>4, <1>5 DEF CalendarNext

\* The displayed day, the events and the layout belong together, for any sequence of
\* days of 23 to 25 hours and any clock that does not go back.
THEOREM CalendarInvariant ==
    CalendarSpec => []CalendarInv
<1>1. CalendarInit => CalendarInv
  BY CalendarStartsInv
<1>2. CalendarInv /\ [CalendarNext]_calendarVars => CalendarInv'
  BY CalendarKeepsInv
<1> QED BY <1>1, <1>2, PTL DEF CalendarSpec

\* What the layout spans once it is prepared.
LEMMA PreparedSpan ==
    ASSUME CalendarInv, prepared
    PROVE  \E d \in Days, hours \in 23 .. 25 :
              /\ Midnight[d] \in Nat
              /\ Midnight[d + 1] = Midnight[d] + hours * 3600
              /\ startOfDisplayedDay = Midnight[d]
              /\ endOfDisplayedDay = Midnight[d] + hours * 3600 - 1
              /\ beadViewDate \in Midnight[d] .. now
              /\ events = CalendarEvents(Midnight[d])
BY DayOfMidnight DEF CalendarInv

\* The events lie in the layout's day in their order, whatever midnight has passed.
THEOREM EventsWithinTheDay ==
    CalendarSpec => []OneDayAgreed
<1>1. CalendarInv => OneDayAgreed
  <2> SUFFICES ASSUME CalendarInv, prepared PROVE OneDayAgreed
    BY DEF OneDayAgreed
  <2>1. PICK d \in Days, hours \in 23 .. 25 :
              /\ Midnight[d] \in Nat
              /\ startOfDisplayedDay = Midnight[d]
              /\ endOfDisplayedDay = Midnight[d] + hours * 3600 - 1
              /\ beadViewDate \in Midnight[d] .. now
              /\ events = CalendarEvents(Midnight[d])
    BY PreparedSpan
  <2> DEFINE m == Midnight[d]
  <2>2. /\ DOMAIN events = {1, 2, 3}
        /\ events[1] = [start |-> m + 28800, end |-> m + 32400]
        /\ events[2] = [start |-> m + 36000, end |-> m + 39600]
        /\ events[3] = [start |-> m + 50400, end |-> m + 54000]
    BY <2>1 DEF CalendarEvents, Hour, Minute
  <2>3. now \in Nat
    BY CalendarAssumption DEF CalendarInv
  <2>4. startOfDisplayedDay <= beadViewDate
    BY <2>1, <2>3
  <2>5. ASSUME NEW i \in {1, 2, 3}
        PROVE  /\ startOfDisplayedDay <= events[i].start
               /\ events[i].end <= endOfDisplayedDay
               /\ MinutesUntil(startOfDisplayedDay, events[i].end) <= 900
    BY <2>1, <2>2 DEF MinutesUntil, Minute
  <2>6. 900 <= CalendarHeight /\ CalendarHeight \in Int
    BY <2>1 DEF CalendarHeight, MinutesUntil, Minute
  <2>7. ASSUME NEW i \in {1, 2, 3}
        PROVE  MinutesUntil(startOfDisplayedDay, events[i].end) \in Int
    BY <2>1, <2>2 DEF MinutesUntil, Minute
  <2>8. ASSUME NEW i \in {1, 2, 3}, NEW j \in 1 .. i - 1
        PROVE  events[j].end <= events[i].start
    BY <2>1, <2>2
  <2> QED BY <2>2, <2>4, <2>5, <2>6, <2>7, <2>8 DEF OneDayAgreed
<1>2. CalendarSpec => []CalendarInv
  BY CalendarInvariant
<1> QED BY <1>1, <1>2, PTL

\* Hours and minutes are counted alike on days of every length.
THEOREM SeparatorsMeetTheContent ==
    CalendarSpec => []HoursFillTheDay
<1>1. CalendarInv => HoursFillTheDay
  <2> SUFFICES ASSUME CalendarInv, prepared PROVE HoursFillTheDay
    BY DEF HoursFillTheDay
  <2>1. PICK d \in Days, hours \in 23 .. 25 :
              /\ Midnight[d] \in Nat
              /\ Midnight[d + 1] = Midnight[d] + hours * 3600
              /\ startOfDisplayedDay = Midnight[d]
              /\ endOfDisplayedDay = Midnight[d] + hours * 3600 - 1
    BY PreparedSpan
  <2>2. NumberOfFullHours = hours
    BY <2>1 DEF NumberOfFullHours, HoursUntil, Hour, Minute
  <2>3. CalendarHeight = hours * 60 - 1
    BY <2>1 DEF CalendarHeight, MinutesUntil, Minute
  <2>4. Hour \div Minute = 60 /\ Hour = 3600
    BY DEF Hour, Minute
  <2> QED BY <2>1, <2>2, <2>3, <2>4 DEF HoursFillTheDay
<1>2. CalendarSpec => []CalendarInv
  BY CalendarInvariant
<1> QED BY <1>1, <1>2, PTL
=============================================================================
