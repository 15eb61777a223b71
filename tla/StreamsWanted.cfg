SPECIFICATION StreamsSpec
CONSTANTS
    Symbols = {a, b}
    Clients = {1, 2}
    MaxStreamed = 1
    MaxReplace = 0
INVARIANT WantedIsSubscribed
