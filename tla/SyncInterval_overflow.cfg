\* time.Duration scaled to 16 bits; intervals 1..MCAllMinutes.
CONSTANTS
    DurationModulus <- MCModulus
    MinuteNs <- MCMinuteNs
    MaxMinutes <- MCAllMinutes
SPECIFICATION SSpec
INVARIANT TimerHonoursInterval
