SPECIFICATION Spec
CONSTANTS
    Calls = {c1, c2, c3}
    IngestRequests <- SomeIngests
    AttachRequests <- SomeAttachments
    ListRequests <- SomeListings
    MaxChars = 2
    MaxDeaths = 1
CHECK_DEADLOCK FALSE
INVARIANTS DocumentBoundOnce ListingIsSnapshot
