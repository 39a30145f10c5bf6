\* Three days of 24, 23 and 25 hours.
CONSTANTS
  Midnight <- MidnightMC
  ClockReadings <- ClockReadingsMC
SPECIFICATION CalendarSpec
INVARIANTS OneDayAgreed HoursFillTheDay
