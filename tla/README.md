# TLA+ models of sabre-quote-agent

sabre-quote-agent is a FastAPI application in which travel agents turn a
request into stored quotes, reserve one ("Booking"), complete passengers and
contact, revalidate the price with Sabre, create the PNR, and then keep the
PNR's stored fare current until it can be ticketed. This directory holds TLA+
models of the parts in which order, concurrency and failure decide, the TLC
configurations that check them on small instances, and proofs for every
instance. Paths below are relative to `src/` (the application is `src/app/`).

## 1. The system

Rows live in one SQL database. The documented deployment is a single process
(`uvicorn app.main:app --reload`, `README.md:399`) whose endpoints are
`async def`: requests share one asyncio event loop, the services' database calls
are synchronous, and only an `await` (of Sabre, or of an `asyncio.Lock`) lets
another request run. With a second process, requests would interleave between
any two database calls; the code's conditional updates and unique constraints
are written for that. So the models have a set of workers: what needs one worker
is checked with one, what should hold of any number is checked with two. Nothing
but the rows survives a process.

| Component | State it keeps | Operations | What makes it correct | Here |
|---|---|---|---|---|
| Booking and attempt state machines (`booking_state.py`, `booking_pnr_state.py`, `booking_readiness_service.py`) | none: two transition tables | `can_transition`, invalidation and resolution after an edit | edits never leave a status that claims more than the data | `BookingState` |
| Passengers, contact (`booking_passenger_service.py`, `booking_contact_service.py`) | forms, Booking status and revision | `update` | a saved form is one revision; an outdated client conflicts | `BookingFunnel` |
| Revalidation (`booking_revalidation_service.py`) | revalidation rows, offer revisions, one lock per process and Booking | `revalidate` | the answer fits the Booking it is saved on; the product sold never drifts | `BookingFunnel` |
| Create PNR (`booking_create_pnr_*`, `booking_pnr_attempt_service.py`, `booking_pnr_execution_service.py`, `sabre/create_booking.py`) | one attempt row per Booking | workflow, prepare, mark, finalize | at most one PNR; an unknown outcome is never retried | `CreatePnr`, `PnrOnce` |
| Pricing refresh (`pnr_pricing_refresh_*`, `pnr_automatic_same_brand_refresh_service.py`, `sabre/soap_*`) | refresh attempts with an active-Booking mutex, authorities, a Sabre session | prepare, mark, refresh | one writer at a time, at the confirmed price, with a true outcome | `PricingRefresh`, `SingleFlight` |
| Quotes (`quote_repository.py`, `quote_refresh.py`, `main.py`) | quotes, version links, selection, draft, workflow | search, refresh, select, clear, draft, workflow, history | links can be walked; history does not change | `QuoteVersions` |
| Booking creation (`booking_service.py`, `booking_repository.py`) | the Booking, its first offer | `create_from_quote` | one Booking per `client_request_id`, of what was selected | `BookingCreation`, `ReserveOnce` |
| Sabre REST client (`sabre/client.py`, `sabre/auth.py`) | token cache and its lock | `get`, `post`, `post_once`, `close` | a write is sent once and its verdict is honest | `SabreClient`, `WriteOnce` |
| Quote search, calls (`quote_service.py`) | the coroutine and its batch | `search_quote` | no failure is left out of an answer | `SearchCalls` |
| Quote search, results (`normalizer.py`, `ranking.py`, `time_constraint_filter.py`, `fare_preference_filter.py`, `quote_service.py`) | none | merge, filter, rank, diversify, cut | what is shown was asked for, in the right order, once | `SearchResults` |
| PNR workspace (`pnr_workspace_service.py`, `pnr_workspace_snapshot_repository.py`) | one cached snapshot per Booking | `get` with retries, `save`, `latest` | "ready" was read now | `PnrWorkspace` |
| Assessment and gates (`pnr_assessment_service.py`, `pnr_final_pre_issue_gate_service.py` and seven others) | none | checks over a snapshot | no gate opens on an unknown or outdated input | `IssueGates` |
| Fare rules (`air_rules_*`, `live_air_rules_audit.py`, `fare_rule_*`, parts of the two quote builders) | the audit in memory | query, parse, audit, tell | the client is promised nothing without a source | `FareRules` |
| Text interpretation, modification commands, rendering, web pages, migrations | none of their own | | properties of strings | not modelled |

Components meet in four ways: shared rows with a `revision` that conditional
updates compare (funnel, Create PNR); unique constraints that choose a winner
(`client_request_id`, the attempt of a Booking, the active refresh); calls to
Sabre, which end in a definite answer or in an unknown outcome; and in-process
locks. `PROJECT.json` lists every component with its files and every hazard with
its line.

The behaviours that are hard here: state read before an `await` and written
after it; a non-idempotent call whose answer is lost; a process that dies between
the call and the row that records it; retries from a browser that never saw the
first answer; a batch of calls of which one fails; fields that Sabre leaves out;
long legal sequences of edits, refreshes and revalidations.

## 2. Modules

| Module | What it is | Extends |
|---|---|---|
| `BookingState` | transition tables and the two resolution functions, as operators | |
| `BookingFunnel` | one Booking between "Reservar" and "Create PNR" | `BookingState` |
| `CreatePnr` | the attempt, `createBooking` and the finalization on top of the funnel | `BookingFunnel` |
| `PnrOnce` | what Create PNR promises; `CreatePnr` implements it | |
| `PricingRefresh` | the stored fare of one created PNR, from the click to the recorded outcome | |
| `SingleFlight` | what the refresh promises about writes; `PricingRefresh` implements it | |
| `QuoteVersions` | stored quotes and the requests about them | |
| `BookingCreation` | "Reservar" while the quotes go on changing | `QuoteVersions` |
| `ReserveOnce` | what "Reservar" promises; `BookingCreation` implements it | |
| `SabreClient` | the calls that share one client and its token | |
| `WriteOnce` | what `post_once` promises; `SabreClient` implements it | |
| `SearchCalls` | the calls of one `search_quote`, or one `createBooking`, on that client | `SabreClient` |
| `SearchResults` | what `search_quote` makes of the answers | `Lists` |
| `PnrWorkspace` | reading the PNR and answering, beside a refresh | |
| `IssueGates` | the verdicts over one snapshot while PNR and time move | `Lists` |
| `FareRules` | rule lookups, two parsers and what agent and client are told | `Lists` |
| `Lists` | sequences that `SearchResults`, `FareRules` and `IssueGates` share: sub-sequences, the stable sort by keys, sums | |
| `ListFacts` | what those operators return, proved | `Lists` |
| `CreatePnrProofs` | theorems about `BookingFunnel` and `CreatePnr` | `CreatePnr` |
| `PricingRefreshProofs` | about `PricingRefresh` | `PricingRefresh` |
| `BookingCreationProofs` | about `QuoteVersions` and `BookingCreation` | `BookingCreation` |
| `SearchCallsProofs` | about `SabreClient` and `SearchCalls` | `SearchCalls` |
| `OfferProofs` | about `SearchResults` and `FareRules` | `SearchResults`, `FareRules`, `ListFacts` |
| `PnrWorkspaceProofs` | about `PnrWorkspace` | `PnrWorkspace` |
| `IssueGatesProofs` | about `IssueGates` | `IssueGates`, `ListFacts` |
| `MC*` | values of the constants that a `.cfg` cannot write | |

### State and code

`BookingFunnel` and `CreatePnr`:

| Variable | In the code |
|---|---|
| `booking` | `BookingRow`: status, revalidation status, revision, accepted offer |
| `offers` | `BookingOfferRevisionRow`s of the Booking, by revision number |
| `latest` | the `BookingRevalidationRow` with the greatest id; `rev` identifies it |
| `passengers`, `contact` | the form rows, as one value each; `CompletePax` and `CompleteContact` are the values `passengers_complete` and `contact_complete` accept |
| `req[s]` | the local variables of the request in slot `s`; `pc` is where it is |
| `turn[p]` | the request that holds the event loop of worker `p` |
| `lock[p]` | the entry of `_REVALIDATION_LOCKS` in worker `p` |
| `attempt`, `job[s]` | `BookingPnrAttemptRow` of the Booking; locals of a Create PNR request |
| `undecided`, `pnrs` | Sabre: requests nobody waits for any more, PNRs that exist |

A product has the parts that `_fare_identity_changes` treats differently:
`fare` is what every answer gives (currency, cabin, fare basis); `carrier` and
`brand` may be `NotGiven`, and are compared as the code compares them.

`PricingRefresh` starts where the funnel ends (PNR_CREATED, which freezes the
Booking):

| Variable | In the code |
|---|---|
| `attempts` | `BookingPnrPricingRefreshAttemptRow`s by `client_request_id`; `active` is `active_booking_id` set |
| `authorities` | `PnrPricingAuthorityRow`s of the Booking |
| `req[s]` | locals of a request: the confirmed price, the price quotes (PQs) selected before and after the store, the status about to be recorded |
| `pqs`, `price` | Sabre: the PQs of the PNR and whether they are ACTIVE and current; what the brand costs now |
| `area[s]`, `undecided` | Sabre: what the SOAP session has retained; EndTransactions whose answer nobody has |

Brand, currency, carrier and amount are compared together and become one
`total`. Every request may be a worker of its own: the refresh relies on the
unique constraints and on nothing in memory. It is taken to be the only writer
of PQs; the command line probes in `scripts/` bypass the mutex.

`QuoteVersions` and `BookingCreation`: `quotes` are the rows of a quote with its
selected options and fares, `parent` and `next` the version links; `req[s]`,
`turn[p]` as above, with what the request has read in `seen`; `bookings[k]` is
the Booking of `client_request_id` `k`, `job[s]` and `reply[s]` what a Reserve
request carries and what its client was last answered. An answer of Sabre is
the set of `<<option, fare>>` it offers.

`SabreClient` and `SearchCalls`: `call[c]` is where each call stands and how it
ended; `queue` is the `asyncio.Lock` of the token provider, holder first;
`cached`, `fresh`, `issued` are the token it keeps, whether `is_valid` says so
and how many OAuth granted; `wire` and `served` the attempts of a write on their
way to Sabre and received by it, which go on after the caller gave up; `search`
is the coroutine that opened the client.

`SearchResults` is one search as four stages over sequences of options;
`offered` remembers all that Sabre offered. A window of time is measured in
hours, a flight has one departure hour, and a window wraps over midnight when its
end is before its start (`time_constraint_filter.py:128` also takes a flag, which
the parser sets in that case). A flight whose segments do not fit the legs asked
for has no hour. Sabre is taken to list a flight once in one answer:
`normalize_bfm_response` (`normalizer.py:590`) keeps a repeated one twice.

`PnrWorkspace`: `pnr` (the PNR in Sabre, by version, with its current quote),
`authority`, `refreshing` (a quote is stored and its authority is not yet),
`cache` (the row of `pnr_workspace_snapshots`), `req[r]` (a GET). The segments
of the PNR are as sold, changed, or of another number; only the number makes the
code read again (`pnr_workspace_service.py:331`), and changed segments of the
right number are believed at once and shown as not ready. The GETs share the one
worker. Both endpoints are `async def` and the refresh stores the quote and its
authority in one synchronous stretch, so a GET that falls between the two needs
a second process; the run has it, as the stricter case.

`IssueGates`: `pnr` is the snapshot the parser makes, with `Unknown` for what
Sabre left out; `authority`; `now` in quarters of a day; `edits` counts the
changes. The checks are operators over these, composed as
`PnrAssessmentService` and the workspace compose them. `Forget` is a read that
leaves one more field of the PNR or of one quote out, whichever it is. What the
parser puts in the place of a field that is missing is left out. The authority
is saved under the guards of the backfill; the checks of its brand, its raw
deadline and its locator are left out, so the model's gate opens wherever the
code's does, and possibly more often.

`FareRules`: `quote`, `rules` (what category 16 of each query read says),
`todo`, `parsed`, `audit`, `lookup`, `told`. A text is a set of numbered lines,
headings and statements, so that both parsers run on the same lines; what may
be written (`Texts`) is two parts in either order, with or without their
headings, the second titled CANCELLATIONS or REFUNDS, each of one statement, one
for any time, or one for either period or both. Each parser has regular
expressions of its own, so a statement is named for its meaning and for who
recognizes it (`Prohibitions`, `Permissions`): both parsers, only the audit's
("REFUNDS NOT ALLOWED", "CANCELLATIONS ALLOWED"), only the client's
("CANCELLATIONS NOT PERMITTED", "CHANGE IS PERMITTED"), or neither. The other
phrases of a group are not told apart, nor which of two amounts a parser takes.

A request moves by one action per stretch of code between two points at which
somebody else can change what it read: an `await`, and, for other workers, the
end of each transaction or read. Reads that are merged into one action are
merged for a reason: every change of a Booking's rows produces a new revision
(`RevisionCoversEveryChange`), and the conditional update at the end compares
it; the reads between which a mixture could matter before that point (the
contact edit's, the attempt's, the binding check's, the payload's, Reserve's)
are separate actions. Refusals leave everything unchanged: one that a first
check makes is the absence of a step, one that ends a request in progress is a
step that frees the slot.

### Fairness

* `CreateFairSpec`: strong fairness of each slot's progress. asyncio serves
  ready callbacks first come first served and `asyncio.Lock` wakes its waiters
  in that order, so a request that can run again and again does run; a call to
  Sabre ends, by the client's timeout if need be. Agents owe nothing, workers
  need not crash, and Sabre need not decide what is undecided.
* `PricingRefresh!FairSpec`: weak fairness of each slot. A request never waits
  for another one there, and every SOAP call has a timeout. `AttemptsSettle` is
  about behaviours in which no worker has died, for the code has no recovery of
  a row whose worker died.
* `SearchFairSpec`: weak fairness of the coroutine, of each task of the batch
  and of each call's progress, for the same reasons: every await of the client
  has a timeout or waits for a lock that its holder gives back.

## 3. Runs

| Run | Question | Bounds |
|---|---|---|
| `CreatePnr_one` | On one worker, with edits, revalidations, crashes and every kind of answer: is READY earned, is there at most one PNR, is what is sent what was reviewed, does it implement `PnrOnce`, does nothing move after PNR_CREATED, and does every request end? | 1 worker, 2 requests, 2 keys, 1 product, revision 6 |
| `CreatePnr_two` | What holds of the funnel, the attempt and a created Booking even between workers whose locks do not meet? | 2 workers, 1 request each, answers that give carrier and brand or not, revision 5 |
| `PricingRefresh` | One writer at a time, at the confirmed price, with a true outcome that is reached, while prices and the itinerary move, answers are lost and a worker dies? | 2 requests, 2 keys, 2 prices, 1 crash |
| `QuoteVersions_two` | Can the version links always be walked, whichever refreshes overlap and whoever dies? | 2 workers, 1 request each, 1 option with 1 fare, up to 3 versions |
| `QuoteVersions_orphan` | Is every version in its history? No: see below. | 1 worker, 2 overlapping refreshes |
| `BookingCreation_one` | Does history stay frozen, and is a Booking made of what is selected? | 1 worker, 2 requests, 2 versions |
| `BookingCreation_two` | One Booking per key, and the right one in each answer? | 2 workers, 2 options of which one has two fares |
| `SearchCalls` | Is an answer complete, a write's verdict honest, the token renewed once, and does everything end? | 2 currencies, 2 cabins, semaphore 2, 2 retries, 3 tokens, 2 writes (one refused) |
| `SearchResults` | Is what is shown asked for, in order, without loss, and varied? | 3 flights, up to 2 fares each, pages of up to 2 |
| `PnrWorkspace` | Is a ready answer fresh and its price verified, is another number of segments the last resort, and does the view move forward? | 3 GETs on 1 worker, a refresh of another process, 2 changes of the PNR, 1 failing read |
| `IssueGates` | Does the gate open only for a PNR that may be issued, stay shut when time passes, and open in no more ways than three when Sabre says less? | 2 passengers, 2 or more quotes, 2 changes, a year of 2 days |
| `FareRules` | Where do agent and client agree, do the rules win over the brand, and does every promise have a source? | every text of one basis with three brands, up to 4 bases with 3 texts each |

Why the bounds are enough. Revision 6 lets a Booking be completed (two edits),
revalidated, edited and revalidated again while another request holds any older
revision; two keys let a second attempt meet the first; `MaxCalls` (2) is above
the number of PNRs the invariant allows, so a violation stays reachable. Neither
`MaxRevision`, `MaxCalls` nor `MaxQuotes` stops a step inside a request: they
only keep new ones from starting. One product suffices on one worker, where the
question is about revisions; with two, the second product differs in exactly
what the comparison tolerates. For the refresh a PQ that existed before is in
the initial states, a second key gives an attempt during and after the first
one, two prices a confirmed and another one. Two requests
that start together give a quote up to three versions, so that a link can find
another one in its place, or a chain whose middle has both links. A semaphore of two with two cabins leaves an
orphan that still waits when its sibling fails, and `MaxRetries` is the code's
default. Two changes of a snapshot reach every pair of fields that two checks
could weigh against each other; the short year makes a deadline cross its end
within the horizon. Slots and keys are symmetric in `BookingCreation_one`, workers
together with their requests in `QuoteVersions_two`, and nowhere else.

Deadlock checking is off where the system stops by itself: a search that is
over, a calendar and a number of changes that are bounded, GETs that are
answered, and rules that have been told.

### A disagreement the runs show

`QuoteVersions_orphan`: `link_refresh` does not look whether the quote has a
successor by now, and a refresh waits for Sabre between `assert_latest` and the
link. Two refreshes of one quote that overlap on one worker leave a version that
no history contains, and `version_history`, which promises the complete lineage,
refuses it for good.

### Disagreements met while modelling that no run lists

They are behaviours of the models too, reproducible by stating the property in
words below; several need a second process, which is not the documented
deployment.

* `services/booking_passenger_service.py:453`: contact first and the last passenger after
  it leaves a complete Booking in DRAFT (`booking_readiness_service.py:141` says
  that readiness is passengers plus contact); only a changed contact unblocks it.
* `services/booking_service.py:165`: a repeated Reserve whose quote was refreshed or
  selected again is refused before its `client_request_id` is looked up, although
  its Booking exists (`booking_repository.py:270`).
* `services/booking_readiness.py:91`: a quote that an agent marked superseded is
  reported ready, and Reserve refuses it.
* `services/quote_service.py:422`: Premium Economy fares of a flight that was already
  found in Economy are dropped in the merge, because one module spells the cabin
  with an underscore and the other with a blank (`normalizer.py:24`).
* `services/normalizer.py:304`: with Business before Economy, the fare an option is
  ranked by is not its lowest (`models/itinerary.py:111`).
* `services/normalizer.py:620`: an option's segments carry the booking class of the first
  fare, whichever fare is selected and frozen (`booking_service.py:201`).
* `services/live_air_rules_audit.py:89`: a fare basis is asked for once, with the carrier
  of the first option that has it; the answer is told for the fares of other
  carriers with a basis of that name too.
* `services/commercial_quote_builder.py:29`: rules reach a shown fare by brand, currency and
  price, so two fares of one option that agree in these are told the rules of the
  last one, whatever their fare bases.
* `services/pnr_pricing_coverage_service.py:80` and the selection before it: a read that
  says less can open a gate that was closed. A quote whose number of passengers
  contradicts its names is a conflict, and is exact when the number is missing; a
  quote that others make superfluous is selected while it is seen to be current
  and left out otherwise; fare bases that differ from the verified ones block, and
  missing ones do not. `SilenceOpensOnly` is that there is no fourth way.
* `services/air_rules_structured_parser.py:79` and
  `services/air_rules_audit_enrichment.py:187`: the two parsers know different phrases. After
  "CANCELLATIONS NOT PERMITTED" the client reads no while the agent's audit keeps
  the brand's permission; after "CHANGE IS PERMITTED" the client reads yes while
  the audit keeps the brand's prohibition. Where the structured parser has lost the part too (behind CHANGES, under REFUNDS, or
  without headings), the brand's permission is told to the client although the
  category says no.
* `services/air_rules_audit_enrichment.py:240`: "CANCELLATIONS NOT PERMITTED" before the
  departure and "CANCELLATIONS ALLOWED" after it give the audit a permission, for it
  knows the second phrase only, and the client, whose parser knows the first only,
  is told that permission for both periods. "NOT REFUNDABLE" matches `REFUNDABLE`
  in both parsers (`air_rules_structured_parser.py:101`).
* `services/fare_rule_commercial_summary.py:125`: the heading says "permitidos antes y
  después" whenever one period permits and both have a text; the model reads the
  line of each period below it.
* `services/quote_renderer.py:53`: features of the brand before and after the departure become
  one status, so a brand that is free before and not offered after is told as
  included for both.
* Two processes only: `booking_pnr_state.py:38` accepts SUBMITTING to SUBMITTING,
  so both may send, and SUCCEEDED to SUCCEEDED, so the second success writes its
  locator, provider reference and time of completion over those of the first
  (`booking_pnr_attempt_service.py:327`), even after PNR_CREATED; `booking_pnr_execution_service.py:143` marks the attempt
  without looking at the Booking's revision; `quote_repository.py:575` and `:774`
  write back what was read before a refresh linked the quote;
  `pnr_workspace_snapshot_repository.py:148` reads the row back after another
  process may have stored an older snapshot.

## 4. Theorems

What TLAPS proves holds for any number of workers, requests, keys, forms,
products, prices, quotes, retries and crashes, and for any bound. The
assumptions are on the constants only and are evaluated in the runs.

**The funnel** (`CreatePnrProofs`, from `FunnelAssumption`: complete forms
are forms, and the empty ones are not complete). The invariant is `FunnelInv`.
`ReadyIsEarned` is not inductive: the answer of Sabre makes a Booking ready
without looking at the forms, so one must know that a request that waits for
Sabre, *while its revision is still current*, asked about the accepted offer of
a complete Booking (`AnswerFits`), and that an edit's target is what resolving
it now would give (`ResolveFits`, `EditFits`). The proof has two halves: a step
that leaves the rows alone can only disturb the request that takes it
(`QuietStep`), and a step that writes produces a new revision, which makes what
every other request in flight knows irrelevant (`WritingStep`); then one lemma
per action. From it `TypeOK`, `ReadyIsEarned`, `StaleMeansRevalidate`,
`ProductPreserved`, `RevisionCoversEveryChange`, `ResultFitsTheBooking` and
`StatusMovesAreAllowed`.

**Create PNR, any number of workers** (`CreatePnrProofs`). `CreateInv`: what
holds of the attempt and of a created Booking although workers race. From it
`CreatedIsConfirmed`, `SuccessCanBeFinalized`, `AttemptMovesAreAllowed` and
`SaleIsFrozen`: after PNR_CREATED nothing moves but the PNR that the attempt names.

**Create PNR, one worker** (`CreatePnrProofs`; each of these theorems assumes
`OneWorker`). `OneWorkerInv` says that only the request that
holds the event loop stands between a check and the write it protects, and that
whoever waits for `createBooking` is alone. From it `AtMostOnePnr`,
`AttemptRemembersPnr`, `SubmittingNeverResubmits`, `SendsWhatWasReviewed`,
`CreatedIsFrozen` (that PNR included, for nobody else is submitting), and
that `CreatePnr` implements `PnrOnce`.

**The pricing refresh** (`PricingRefreshProofs`, from `RefreshAssumption`).
`RefreshInv` ties four things together: the mutex (`MutexInv`), what the request
that holds it knows (`RequestFits`), a transaction in the air
(`TransactionFits`: its attempt is active and can only end in reconciliation,
and nothing is current) and a stored PQ (`PqFits`). None of the safety properties
is inductive without the others: that no PQ is stacked needs that nothing is in
the air while a holder reads, which needs that the mutex outlives an unknown
outcome, which needs that only a settled request records one. From it the
properties of the run, `MutexCoversWrites`, `OneCurrentPq`, `UnknownIsFinal`,
and that the refresh implements `SingleFlight`, where a committed
EndTransaction, early or late, is `Commit`.

**Quotes** (`BookingCreationProofs`). `QuoteInv` adds to the links and the
selection that a request in flight is about a stored quote, that its choice
stays selectable (an offer never changes) and that the version it stored is a
child of the quote it will link. From it `LinksAgree` and `SelectionIsOffered`.

**Reserve** (`BookingCreationProofs`). `CreationInv`: on top of `QuoteInv`, what
a Reserve request carries was offered, and the Booking a lost insert reads again
is the one asked for. From it `BookedWasOffered`, `RepliesFit`, and that
`BookingCreation` implements `ReserveOnce` on any number of workers. With
`OneWorker`, `LoopInv`: a request that has read keeps the event loop until it
has written, so its quote is still the newest and what Reserve carries is still
what is selected (`LoopFits`), and a version that has a successor says so
(`SuccessorTold`, without which a superseded version might be edited). From it
`HistoryIsFrozen` and `ReservesTheSelection`.

**The client and the search's calls** (`SearchCallsProofs`). `ClientInv` says of
each write which of its attempts are on the wire, received or neither, by where
its call stands. From it `OAuthOnlyWhenNeeded`, `TokenIsCheckedPerAttempt`, and
that the client implements `WriteOnce`. `SearchIsAClient` shows that a search
takes no step on the client but the client's own, which carries these over.
`AnswerIsComplete` follows from `SearchInv`, for any number of currencies,
cabins and retries: the rounds left behind are settled, those ahead idle, and a
coroutine only goes on from a batch, or from its fallback, when every call of it
was answered.

**What is shown of a search** (`OfferProofs`, from `ResultAssumption`). Four
properties that depend on sorting, slicing and sums, of sequences of any length.
`ResultInv` says what each list of options is made of: fares that were offered
for its flight, each flight once, fares of one currency until the currencies are
merged, only what the restrictions left from then on; and that `ranked` and
`shown` are functions of `options`. `ShownIsAskedFor` follows from the merge
keeping this. `PagesPartition` is a fact about `Diversify` and the cut: the
page and the candidates are a permutation of the ranked options up to the cap.
`ClosestFirst` needs that the distance of an option is the sum of what each
window misses (`Miss`) and that a stable sort by it, of the whole and then of
the page, leaves the closest first. `NoWorseAbove` is the monotonicity of the
scores in price, stops and hours, for each mode. The facts about `At`, `Sorted`,
`First`, `SumOf`, `Min` and `Max` are in `ListFacts`; where they need induction on a
length, it is done with the least number for which a formula would fail.

**Fare rules** (`OfferProofs`, from `RulesAssumption`: a text is one of `Texts`,
and what was selected is among what is sold). `RulesInv`: what was parsed for a
fare basis is the text of rules that were read for it, and the audit and what is
told are functions of that. The rest is about texts: the audit's parser reads
the statements of a kind wherever they stand, and is silent only when none is in
its words (`VerdictFacts`); the client's takes for a period only what the part of
its kind says there, although its section of the changes goes on to the end of
the text, and takes all of it when the headings are found (`DetailsFacts`). From
it, for every quote and every pattern of failed calls: `AgentAndClientAgree`
wherever the audit's parser knows a statement of the text, `RuleBeatsBrand`
where the rules forbid in words that the parser which finds them knows, and
`PermissionHasASource`. The vocabularies are the model's (section 2), and the
conditions are needed: without them the code does what section 3 lists.

**The workspace** (`PnrWorkspaceProofs`). On any number of workers versions only
count up, and while a quote is stored and not yet verified the authority is for
an earlier one (`VersionsFit`), whence `ReadyPriceIsVerified`. On one worker (`OneWorker`)
`WorkspaceInv` adds that a request holds a PNR at least as new as the cache, and
equal to it once saved (`ReadFits`), and that what was answered is not newer than
the cache (`AnswerFits`). From it `AnswersAreHonest` (ready was read now, and a
PNR with another number of segments is shown as read now only after the last
attempt) and `ViewMovesForward`.

**The gates** (`IssueGatesProofs`, from `GateAssumption`). The verdicts are
functions of the state, so the invariant is the type; the work is in which
quotes the gate selects, and that they are all the live ones when it opens. From it
`GateFailsClosed`, `ExpiredStaysExpired`, and `SilenceOpensOnly`, a statement
about a step and the verdicts before and after it: a field that a read leaves
out keeps a closed gate closed, whichever it is, but for the status or the change
of a current quote that others make superfluous, a number of passengers that
contradicted the names, and fare bases that differed from the verified ones.

**Only model-checked**: `RequestsEnd`, `AttemptsSettle` and `SearchEnds`, since
liveness under fairness is out of the prover's reach. `LineageIsComplete` is
refuted. Every other property of the runs is proved.

## 5. Plan

1. The candidate that a revalidation picks among several options
   (`_choose_candidate`), as an operator with a reference definition, and what
   it implies for `ProductPreserved`.
2. The quote that is modified rather than refreshed (`quote_modification.py`):
   what a command leaves as it was.
3. `CreatePnr` beside the refresh: that the PNR the refresh prices is the one
   the Booking was frozen with.
4. For liveness, the safety half: a measure that each step of a request lowers,
   as a theorem, so that fairness alone is left to TLC.

## 6. Not modelled

* Natural-language interpretation (`agent_parser.py`, `time_parser.py` and the
  normalizers), the commands of `quote_modification.py`, rendering and wording,
  XML and JSON layouts: no state that outlives a request, and properties about
  strings. What a modification does to the stored quotes is modelled as a new
  version.
* Fee amounts and their arithmetic; amounts are compared, not converted. Of the
  rules' phrases, only which parser recognizes them (section 2).
* Reference data, migrations, web pages and scripts: read-only, or outside the
  application. The older SOAP store, air price and secure flight probes are
  called from scripts only.
* `booking_review_service.py` and `booking_readiness.py`: read-only views.
* Sabre itself is the nondeterministic answers its callers distinguish, the
  clock is a counter, and the switches that disable writes are taken to be on.
* Resolving an attempt that needs reconciliation, or a row whose worker died: the
  code has no operation for it.
