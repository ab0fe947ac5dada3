\* An adult and a child sold for a total of 2, two changes to the PNR, a year
\* of two days and time until the next one.
CONSTANTS
    Ana = Ana  Luis = Luis  ADT = ADT  CNN = CNN
    AA = AA  UA = UA  Y = Y  K = K  USD = USD  ARS = ARS
    Stranger = Stranger  Unknown = Unknown
    Names = {Ana, Luis}
    Kinds = {ADT, CNN}
    Carriers = {AA, UA}
    Currencies = {USD, ARS}
    Totals = {1, 2}
    Bases = {Y, K}
    BookedBasis = Y
    BookedKinds <- MCBookedKinds
    BookedFare <- MCBookedFare
    DaysPerYear = 2
    Edits = 2
    Horizon = 9
SPECIFICATION GateSpec
INVARIANT GateFailsClosed
PROPERTIES SilenceOpensOnly ExpiredStaysExpired
CHECK_DEADLOCK FALSE
