-------------------------- MODULE BookingCreation --------------------------
(***************************************************************************)
(* "Reservar": one Booking from the option and the fare that are persisted *)
(* in the latest version of a quote, while the quote is selected again,    *)
(* refreshed and annotated by other requests.  The browser repeats a       *)
(* request whose answer it did not see, with the same client_request_id.   *)
(***************************************************************************)
EXTENDS QuoteVersions

CONSTANTS
    Keys,             \* client_request_id values
    Unbookable        \* options Sabre returned without a booking class

NoBooking == [quote |-> 0, rank |-> None, fare |-> None]
Booking == [quote : Nat, rank : Ranks, fare : Fares]

ASSUME CreationAssumption ==
    /\ Unbookable \subseteq Ranks
    /\ None \notin Keys /\ None \notin Booking

VARIABLES
    bookings,         \* the Booking of each key, with its first offer
    job,              \* what a Reserve request carries in memory
    reply             \* the last answer each client got

creationVars == <<bookings, job, reply>>
allVars == <<quotes, req, turn, bookings, job, reply>>

-----------------------------------------------------------------------------
NoJob == [key |-> None, rank |-> None, fare |-> None]

Codes == {"none", "booking", "history", "selection", "reused_key"}
NoReply == [code |-> "none", key |-> None, quote |-> 0, rank |-> None,
            got |-> NoBooking]

\* The answer that ends a request, or refuses it at once.
Answer(s, code, key, q, rank, got) ==
    /\ reply' = [reply EXCEPT ![s] = [code |-> code, key |-> key,
                   quote |-> q, rank |-> rank, got |-> got]]
    /\ job' = [job EXCEPT ![s] = NoJob]
    /\ Finish(s)
    /\ UNCHANGED quotes

EndReserve(s, code, got) ==
    Answer(s, code, job[s].key, req[s].quote, job[s].rank, got)

-----------------------------------------------------------------------------
\* create_from_quote reads the row of the quote: it is the latest version and
\* the option is part of its persisted selection ...
ReserveMutant(s, key, q, rank) ==
    /\ req[s].pc = "idle" /\ MayRun(s)
    /\ q \in 1..Len(quotes)
    /\ rank \in quotes[q].ranks
    /\ req' = [req EXCEPT ![s] = [IdleRequest EXCEPT
                 !.kind = "reserve", !.pc = "fares", !.quote = q]]
    /\ job' = [job EXCEPT ![s] = [key |-> key, rank |-> rank, fare |-> None]]
    /\ KeepRunning(s)
    /\ UNCHANGED <<quotes, bookings, reply>>
Reserve(s, key, q, rank) ==
    /\ req[s].pc = "idle" /\ MayRun(s)
    /\ q \in 1..Len(quotes)
    /\ IsLatest(q) /\ rank \in quotes[q].ranks
    /\ req' = [req EXCEPT ![s] = [IdleRequest EXCEPT
                 !.kind = "reserve", !.pc = "fares", !.quote = q]]
    /\ job' = [job EXCEPT ![s] = [key |-> key, rank |-> rank, fare |-> None]]
    /\ KeepRunning(s)
    /\ UNCHANGED <<quotes, bookings, reply>>

RefuseReserve(s, key, q, rank) ==
    /\ req[s].pc = "idle" /\ MayRun(s)
    /\ q \in 1..Len(quotes)
    /\ \/ ~IsLatest(q) /\ Answer(s, "history", key, q, rank, NoBooking)
       \/ /\ IsLatest(q) /\ rank \notin quotes[q].ranks
          /\ Answer(s, "selection", key, q, rank, NoBooking)
    /\ UNCHANGED bookings

FaresOfMutant(q, rank) == quotes[q].fares
FaresOf(q, rank) == {f \in quotes[q].fares : f[1] = rank}

Freezable(q, rank) == FaresOf(q, rank) # {} /\ rank \notin Unbookable

\* ... then the persisted fares, in a read of their own: the exact fare of the
\* option, and a booking class on every segment.
ReadFares(s) ==
    /\ At(s, "reserve", "fares")
    /\ Freezable(req[s].quote, job[s].rank)
    /\ \E f \in FaresOf(req[s].quote, job[s].rank) :
         job' = [job EXCEPT ![s].fare = f[2]]
    /\ req' = [req EXCEPT ![s].pc = "lookup"]
    /\ KeepRunning(s)
    /\ UNCHANGED <<quotes, bookings, reply>>

NothingToFreeze(s) ==
    /\ At(s, "reserve", "fares")
    /\ ~Freezable(req[s].quote, job[s].rank)
    /\ EndReserve(s, "selection", NoBooking)
    /\ UNCHANGED bookings

\* _validate_idempotent_match: the same quote and option; the fare is not
\* compared.
SameReservation(s, booking) ==
    booking.quote = req[s].quote /\ booking.rank = job[s].rank

\* create_initial finds a Booking of the key.
FoundExisting(s) ==
    /\ At(s, "reserve", "lookup")
    /\ bookings[job[s].key] # NoBooking
    /\ IF SameReservation(s, bookings[job[s].key])
         THEN EndReserve(s, "booking", bookings[job[s].key])
         ELSE EndReserve(s, "reused_key", NoBooking)
    /\ UNCHANGED bookings

FoundNone(s) ==
    /\ At(s, "reserve", "lookup")
    /\ bookings[job[s].key] = NoBooking
    /\ req' = [req EXCEPT ![s].pc = "insert"]
    /\ KeepRunning(s)
    /\ UNCHANGED <<quotes, bookings, job, reply>>

\* The unique client_request_id.
KeyIsFreeMutant(key) == TRUE
KeyIsFree(key) == bookings[key] = NoBooking

\* The transaction: Booking, offer revision 1 and the accepted pointer.
InsertBooking(s) ==
    /\ At(s, "reserve", "insert") /\ KeyIsFree(job[s].key)
    /\ bookings' = [bookings EXCEPT ![job[s].key] =
         [quote |-> req[s].quote, rank |-> job[s].rank, fare |-> job[s].fare]]
    /\ req' = [req EXCEPT ![s].pc = "reread"]
    /\ KeepRunning(s)
    /\ UNCHANGED <<quotes, job, reply>>

LoseInsertMutant(s) ==
    /\ At(s, "reserve", "insert") /\ ~KeyIsFree(job[s].key)
    /\ EndReserve(s, "booking", [quote |-> req[s].quote,
         rank |-> job[s].rank, fare |-> job[s].fare])
    /\ UNCHANGED bookings
\* IntegrityError: somebody else's insert won; its row is the answer.
LoseInsert(s) ==
    /\ At(s, "reserve", "insert") /\ ~KeyIsFree(job[s].key)
    /\ IF SameReservation(s, bookings[job[s].key])
         THEN EndReserve(s, "booking", bookings[job[s].key])
         ELSE EndReserve(s, "reused_key", NoBooking)
    /\ UNCHANGED bookings

Reread(s) ==
    /\ At(s, "reserve", "reread")
    /\ EndReserve(s, "booking", bookings[job[s].key])
    /\ UNCHANGED bookings

CreationCrash(p) ==
    /\ Crash(p)
    /\ job' = [s \in Slots |-> IF Home[s] = p THEN NoJob ELSE job[s]]
    /\ UNCHANGED <<bookings, reply>>

-----------------------------------------------------------------------------
CreationInit ==
    /\ QuoteInit
    /\ bookings = [k \in Keys |-> NoBooking]
    /\ job = [s \in Slots |-> NoJob]
    /\ reply = [s \in Slots |-> NoReply]

ReserveStep(s) ==
    \/ \E key \in Keys, q \in 1..Len(quotes), rank \in Ranks :
         Reserve(s, key, q, rank) \/ RefuseReserve(s, key, q, rank)
    \/ ReadFares(s) \/ NothingToFreeze(s)
    \/ FoundExisting(s) \/ FoundNone(s)
    \/ InsertBooking(s) \/ LoseInsert(s) \/ Reread(s)

CreationNext ==
    \/ QuoteStep /\ UNCHANGED creationVars
    \/ \E s \in Slots : ReserveStep(s)
    \/ \E p \in Procs : CreationCrash(p)

CreationSpec == CreationInit /\ [][CreationNext]_allVars

-----------------------------------------------------------------------------
(* Properties                                                              *)

\* Type invariant of Reserve.
CreationTypeOK ==
    /\ bookings \in [Keys -> Booking \cup {NoBooking}]
    /\ job \in [Slots -> [key : Keys \cup {None}, rank : Ranks \cup {None},
                          fare : Fares \cup {None}]]
    /\ reply \in [Slots -> [code : Codes, key : Keys \cup {None},
                            quote : Nat, rank : Ranks \cup {None},
                            got : Booking \cup {NoBooking}]]

\* Every Booking sells a product Sabre offered in its quote, with a booking
\* class on each segment, whatever selection or refresh raced with Reserve.
BookedWasOffered ==
    \A k \in Keys : bookings[k] # NoBooking =>
        /\ bookings[k].quote \in 1..Len(quotes)
        /\ <<bookings[k].rank, bookings[k].fare>>
             \in quotes[bookings[k].quote].offered
        /\ bookings[k].rank \notin Unbookable

\* With one worker a Booking is made of the newest version of the quote and of
\* exactly what is persisted as selected when it is inserted: "historical
\* quote versions are never valid Reserve sources" (booking_service.py:164).
ReservesTheSelection ==
    [][ \A k \in Keys : bookings'[k] # bookings[k] =>
          /\ IsLatest(bookings'[k].quote)
          /\ bookings'[k].rank \in quotes[bookings'[k].quote].ranks
          /\ <<bookings'[k].rank, bookings'[k].fare>>
               \in quotes[bookings'[k].quote].fares ]_allVars

\* Reserve keeps the abstract promise: one Booking per key, never changed, and
\* nobody is answered with another one.
Told(s) == IF reply[s].code = "booking"
             THEN [key |-> reply[s].key, product |-> reply[s].got] ELSE None
ToldAll == [s \in Slots |-> Told(s)]
Booked == [k \in Keys |-> IF bookings[k] = NoBooking THEN None ELSE bookings[k]]
Once == INSTANCE ReserveOnce WITH
          Products <- Booking, booked <- Booked, told <- ToldAll

ReservesOnce == Once!Spec

\* The client that got a Booking asked for that quote and that option.
RepliesFit ==
    \A s \in Slots : reply[s].code = "booking" =>
        /\ reply[s].got = bookings[reply[s].key]
        /\ reply[s].got.quote = reply[s].quote
        /\ reply[s].got.rank = reply[s].rank

\* What a Reserve request carries is an offer of its quote with a booking
\* class, and after its insert the key's Booking is the one it asked for.
JobFits(s) ==
    req[s].kind = "reserve" =>
        /\ job[s].key \in Keys /\ job[s].rank \in Ranks
        /\ req[s].pc \in {"lookup", "insert"} =>
             /\ <<job[s].rank, job[s].fare>> \in quotes[req[s].quote].offered
             /\ job[s].rank \notin Unbookable
        /\ req[s].pc = "reread" =>
             /\ bookings[job[s].key] # NoBooking
             /\ SameReservation(s, bookings[job[s].key])

\* A client that got a Booking named its key.
ReplyFits(s) ==
    reply[s].code = "booking" => reply[s].key \in Keys /\ reply[s].got # NoBooking

\* The inductive invariant of Reserve.
CreationInv ==
    /\ QuoteInv /\ CreationTypeOK /\ BookedWasOffered /\ RepliesFit
    /\ \A s \in Slots : JobFits(s) /\ ReplyFits(s)

\* With one worker, whoever has read keeps the event loop until it has written,
\* so what it read still holds: its quote, or the version it stored, is the
\* newest, and what Reserve carries is what is persisted as selected.
LoopFits(s) ==
    LET q == req[s].quote
    IN  /\ req[s].pc \notin {"idle", "sabre"} => turn[Home[s]] = s
        /\ req[s].kind # "none" /\ req[s].pc = "write" => IsLatest(q)
        /\ req[s].kind = "version" /\ req[s].pc = "save" =>
             IsLatest(req[s].child)
        /\ req[s].kind = "reserve" /\ req[s].pc \in {"fares", "lookup", "insert"}
             => IsLatest(q) /\ job[s].rank \in quotes[q].ranks
        /\ req[s].kind = "reserve" /\ req[s].pc \in {"lookup", "insert"} =>
             <<job[s].rank, job[s].fare>> \in quotes[q].fares

\* A version that has a successor says so.
SuccessorTold ==
    \A q \in 1..Len(quotes) :
        quotes[q].next # 0 => quotes[q].status = "superseded"

\* The inductive invariant of one worker, on top of CreationInv.
LoopInv == SuccessorTold /\ \A s \in Slots : LoopFits(s)
=============================================================================
