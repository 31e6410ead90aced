\* time.Duration scaled to 16 bits; intervals 1..MCSafeMinutes.
CONSTANTS
    DurationModulus <- MCModulus
    MinuteNs <- MCMinuteNs
    MaxMinutes <- MCSafeMinutes
SPECIFICATION SSpec
INVARIANT TimerHonoursInterval
