\* Up to four entries in one of the three tables, any number of iterations.
SPECIFICATION FairSpec
CONSTANTS
    MaxAdds = 4
    Key <- Addresses
    Broadcast = "all"
    Text <- FirstBytes
    Val = {"eth0/1", "eth0/2"}
    NoVal = NoVal
\* The tables are full after MaxAdds additions, but a reader may always come.
CHECK_DEADLOCK TRUE
INVARIANTS
    TypeOK
    LinksAgree
    LookupIsCurrent
    OwnAddNeverHides
    OneEntryPerMac
PROPERTIES
    ImplementsTable
    ReadsEnd
    AddsEnd
