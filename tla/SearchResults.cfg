\* Three flights, up to two fares each, every order of every answer; page and
\* candidates of at most two options.
CONSTANTS
    Cap = 2
    None = None
    Flights <- MCFlights
    Carriers <- MCCarriers
    Stops <- MCStops
    Hours <- MCHours
    Departs <- MCDeparts
    FareLists <- MCFareLists
    Requests <- MCRequests
SPECIFICATION ResultSpec
INVARIANTS ShownIsAskedFor PagesPartition ClosestFirst NoWorseAbove
CHECK_DEADLOCK FALSE
