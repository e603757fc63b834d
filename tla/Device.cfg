SPECIFICATION Spec
CONSTANTS
    Volts = {3100, 3420, 4000}
    Colors = {c1, c2}
    Bearings = {1}
    FlashLen = 2
    Debounce = 1
    Announce = 2
    MaxGap = 1
    MaxShare = 1
    MaxTook = 2
    Milli = 2
    Kits = {{"powerHold", "update", "plug"}, {"powerHold", "powerTap", "update"}, {"sosHold", "update", "bonded", "ask", "gauge"}, {"sosHold", "sosTap", "powerHold", "pairHold", "ask", "bonded"}, {"pair", "color", "power", "sos"}, {"pair", "sos", "plug"}, {"ota", "gauge"}, {"ota", "plug"}, {"nocell", "low", "reset", "plug"}}
INVARIANTS StripTrue PowerSound AlarmBack
