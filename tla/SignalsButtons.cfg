CONSTANTS
    main = main
    second = second
    one = one
    two = two
    sym = sym
    Accounts = {one, two}
    NoAccount = NoAccount
    First = one
    Loops = {main, second}
    Owner <- MCOwner
    Symbols = {sym}
    Found <- MCFound
    MaxPresses = 2
    MaxFailures = 1
    MaxCrashes = 1
SPECIFICATION FairSpec
INVARIANTS TypeOK OneRowPerKey QueuedIsAsked OncePerLife NamedOrOvertaken
PROPERTIES PressAnswered
