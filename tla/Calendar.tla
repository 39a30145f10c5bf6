------------------------------- MODULE Calendar -------------------------------
(***************************************************************************)
(* The calendar: CalendarEventsProvider.m fixes a day and its events when   *)
(* the application is launched, CalendarViewController.m answers what       *)
(* CalendarCollectionViewLayout.m asks whenever it prepares itself.         *)
(*                                                                         *)
(* Times are in seconds.  The time zone stays what it is, but a day in it   *)
(* has 23, 24 or 25 hours.                                                 *)
(***************************************************************************)
EXTENDS Integers, Sequences

CONSTANTS Midnight,      \* the seconds at which the days begin, in order
          ClockReadings  \* bound: what [NSDate date] may answer

Minute == 60
Hour   == 60 * Minute
Days   == 1 .. Len(Midnight) - 1

ASSUME CalendarAssumption ==
    /\ Midnight \in Seq(Nat) /\ ClockReadings \subseteq Nat
    /\ \A d, e \in DOMAIN Midnight : d < e => Midnight[d] < Midnight[e]
    /\ \A d \in Days : \E hours \in 23 .. 25 :
          Midnight[d + 1] = Midnight[d] + hours * Hour
    /\ \A t \in ClockReadings : \E d \in Days :
          Midnight[d] <= t /\ t < Midnight[d + 1]

NoDate == -1

VARIABLES now,           \* the clock
          displayedDay,  \* of the events provider, NoDate without a process
          events,        \* calendarEvents of the controller
          prepared,      \* prepareLayout has been called
          startOfDisplayedDay, endOfDisplayedDay, beadViewDate

layoutVars == <<prepared, startOfDisplayedDay, endOfDisplayedDay, beadViewDate>>
calendarVars == <<now, displayedDay, events, layoutVars>>

-----------------------------------------------------------------------------
(***************************************************************************)
(* NSDate+MTDates                                                          *)
(***************************************************************************)
DayOf(t) == CHOOSE d \in Days : Midnight[d] <= t /\ t < Midnight[d + 1]

StartOfCurrentDay(t) == Midnight[DayOf(t)]

\* Faulty: twenty-four hours after the start.
EndAfterFullDay(t) == StartOfCurrentDay(t) + 24 * Hour - 1

\* A day after the start, and a second back.
EndOfCurrentDay(t) == Midnight[DayOf(t) + 1] - 1

\* Whole hours and minutes from one time to a later one.
HoursUntil(t, u)   == (u - t) \div Hour
MinutesUntil(t, u) == (u - t) \div Minute

-----------------------------------------------------------------------------
(***************************************************************************)
(* The provider, the layout and its delegate                               *)
(***************************************************************************)
CalendarEvents(day) ==
    LET event(h) == [start |-> day + h * Hour, end |-> day + (h + 1) * Hour]
    IN  <<event(8), event(10), event(14)>>

\* calculateSeparatorsLayoutAttributes and collectionViewContentSize.
NumberOfFullHours == HoursUntil(startOfDisplayedDay, endOfDisplayedDay) + 1

CalendarHeight == MinutesUntil(startOfDisplayedDay, endOfDisplayedDay)

\* Faulty: the day of the clock.
StartOfToday == StartOfCurrentDay(now)

StartOfDisplayedDate == StartOfCurrentDay(displayedDay)
EndOfDisplayedDate   == EndOfCurrentDay(displayedDay)

-----------------------------------------------------------------------------
NothingYet == /\ displayedDay = NoDate /\ events = <<>>
              /\ prepared = FALSE /\ startOfDisplayedDay = NoDate
              /\ endOfDisplayedDay = NoDate /\ beadViewDate = NoDate

CalendarInit == now \in ClockReadings /\ NothingYet

\* The tab bar controller makes the provider, and the calendar's controller with it.
Launch ==
    /\ displayedDay = NoDate
    /\ displayedDay' = StartOfCurrentDay(now)
    /\ events' = CalendarEvents(displayedDay')
    /\ UNCHANGED <<now, layoutVars>>

\* When the calendar is first shown, and whenever the layout was invalidated.
PrepareCalendar ==
    /\ displayedDay # NoDate
    /\ prepared' = TRUE
    /\ startOfDisplayedDay' = StartOfDisplayedDate
    /\ endOfDisplayedDay' = EndOfDisplayedDate
    /\ beadViewDate' = now
    /\ UNCHANGED <<now, displayedDay, events>>

ProcessEnds ==
    /\ displayedDay # NoDate
    /\ displayedDay' = NoDate /\ events' = <<>>
    /\ prepared' = FALSE /\ startOfDisplayedDay' = NoDate
    /\ endOfDisplayedDay' = NoDate /\ beadViewDate' = NoDate
    /\ UNCHANGED now

ClockAdvances(t) ==
    /\ now < t
    /\ now' = t
    /\ UNCHANGED <<displayedDay, events, layoutVars>>

CalendarNext ==
    \/ Launch
    \/ PrepareCalendar
    \/ ProcessEnds
    \/ \E t \in ClockReadings : ClockAdvances(t)

CalendarSpec == CalendarInit /\ [][CalendarNext]_calendarVars

-----------------------------------------------------------------------------
(***************************************************************************)
(* Properties                                                              *)
(***************************************************************************)

\* The shape of the state; the displayed day is one the clock has reached, the
\* events are its events, and a layout that is prepared spans it.
CalendarInv ==
    /\ now \in ClockReadings /\ prepared \in BOOLEAN
    /\ displayedDay = NoDate => events = <<>> /\ ~prepared
    /\ displayedDay # NoDate =>
          \E d \in Days :
             /\ displayedDay = Midnight[d] /\ Midnight[d] <= now
             /\ events = CalendarEvents(Midnight[d])
             /\ prepared => /\ startOfDisplayedDay = Midnight[d]
                            /\ endOfDisplayedDay = Midnight[d + 1] - 1
                            /\ beadViewDate \in Midnight[d] .. now

\* The events, fixed at the launch, and the span of the layout, asked for anew each
\* time it is prepared, agree on the day: whatever midnight passes in between, each
\* event lies within the span, begins after the one before it has ended, and ends
\* above the lower edge of the content; the bead can only be late, never early.
OneDayAgreed ==
    prepared =>
       /\ \A i \in DOMAIN events :
             /\ startOfDisplayedDay <= events[i].start
             /\ events[i].end <= endOfDisplayedDay
             /\ MinutesUntil(startOfDisplayedDay, events[i].end) <= CalendarHeight
             /\ \A j \in 1 .. i - 1 : events[j].end <= events[i].start
       /\ startOfDisplayedDay <= beadViewDate

\* On a day of any length the rows for the separators, counted in hours, and the
\* content, measured in minutes, both end where the next day begins; the content is
\* one minute short of it, for the second its last minute lacks.
HoursFillTheDay ==
    prepared =>
       /\ \E d \in Days :
             /\ Midnight[d] = startOfDisplayedDay
             /\ Midnight[d + 1] = startOfDisplayedDay + NumberOfFullHours * Hour
       /\ NumberOfFullHours * (Hour \div Minute) = CalendarHeight + 1
=============================================================================
