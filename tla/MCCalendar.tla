------------------------------ MODULE MCCalendar ------------------------------
\* Calendar for TLC: an ordinary day, the day the clocks go forward, the day they
\* go back; in each the clock shows the first second, a time within an event,
\* noon and the last second.
EXTENDS Calendar

MidnightMC == <<0, 24 * Hour, 47 * Hour, 72 * Hour>>
ClockReadingsMC ==
    UNION {{MidnightMC[d], MidnightMC[d] + 8 * Hour + 30 * Minute,
            MidnightMC[d] + 12 * Hour, MidnightMC[d + 1] - 1} : d \in 1 .. 3}
=============================================================================
