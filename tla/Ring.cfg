\* Ticks of 2s: 10s cap, 2s margin and delay, unlocks of at most 10s, hangups of
\* at most 5s.
SPECIFICATION Spec
CONSTANTS
    Stations = {s1, s2}
    Malformed = {s2}
    RingCap = 1
    TotalCap = 5
    Margin = 1
    MaxUnlock = 5
    HangupDelay = 1
    MaxHangup = 3
    Toggles = {"auto_unlock", "auto_hangup"}
    MaxRings = 3
    MaxManual = 1
    MaxTime = 14
    Never = Never
INVARIANTS OnceUnlessBusy FreshRing IgnoredOnlyAfterUnlock
