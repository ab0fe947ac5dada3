----------------------------- MODULE FareRules -----------------------------
(***************************************************************************)
(* What agent and client are told of a fare's changes and refunds.  BFM    *)
(* gives attributes of the brand; LiveAirRulesAuditor asks Sabre for       *)
(* category 16 of each fare basis, one call at a time, any of which may    *)
(* fail.  Two parsers read the text, each with phrases of its own: a flat   *)
(* one gives the verdict of the audit, a structured one the client's        *)
(* conditions before and after the departure.  A fare without a summary     *)
(* falls back on its brand.                                                *)
(***************************************************************************)
EXTENDS Integers, Sequences, FiniteSets, SequencesExt, Lists

CONSTANTS
    Quotes,      \* what is stored: options, and the fare selected of each
    Documents,   \* what category 16 of each fare basis may say
    NoValue      \* None

Kinds == {"change", "refund"}
Periods == {"before", "after"}
Statuses == {"included", "allowed", "with_fee", "not_allowed", "unknown"}

\* Statements, by who recognises them.  Both parsers know of a permission, of
\* one with an amount, of a prohibition and of an amount alone; each knows
\* phrases the other does not, and "silent" is what neither knows.
Readers == {"audit", "client"}
Prohibitions(reader) ==
    {"no"} \cup {IF reader = "audit" THEN "refundsNotAllowed"
                                    ELSE "cancellationsNotPermitted"}
Permissions(reader) ==
    {"yes", "fee"} \cup {IF reader = "audit" THEN "cancellationsAllowed"
                                            ELSE "isPermitted"}
Charges == {"fee", "charge"}
Words(kind) ==
    {"yes", "fee", "no", "charge", "silent", "isPermitted"}
    \cup (IF kind = "change" THEN {} ELSE
          {"refundsNotAllowed", "cancellationsNotPermitted", "cancellationsAllowed"})

\* A document has a part on changes and one on cancellations, under headings
\* or without; a part is one statement, one for any time, or one for each
\* period it has.
Parts(kind) ==
    {[form |-> "none", before |-> "absent", after |-> "absent"]}
    \cup {[form |-> form, before |-> word, after |-> word] :
            form \in {"plain", "any"}, word \in Words(kind)}
    \cup {part \in [form : {"split"}, before : Words(kind) \cup {"absent"},
                    after : Words(kind) \cup {"absent"}] :
            part.before # "absent" \/ part.after # "absent"}
Texts == [changes : Parts("change"), cancels : Parts("refund"),
          changesFirst : BOOLEAN, headed : BOOLEAN,
          title : {"CANCELLATIONS", "REFUNDS"}]

\* How the brand's feature for a period applies, if it has one: free, at a
\* charge, or not offered.
Features == [Periods -> {"F", "C", "N", "D", NoValue}]
FareOption == [cabin : STRING, brand : STRING \cup {NoValue}, price : Nat,
         basis : Seq(DOMAIN Documents), change : Features, refund : Features,
         nonRefundable : BOOLEAN \cup {NoValue}]

VARIABLES
    quote,    \* the stored quote
    rules,    \* the category 16 of each query that was read (history)
    todo,     \* queries left
    parsed,   \* the text of each fare basis answered
    phase,
    audit,    \* the audit, option by option and fare by fare
    lookup,   \* external_rule_lookup_status
    told      \* what the client reads, likewise

ruleVars == <<quote, rules, todo, parsed, phase, audit, lookup, told>>

-----------------------------------------------------------------------------
(* The text of a category is a set of numbered lines: headings and          *)
(* statements.  An amount is on the line of its statement.                  *)

Titles == {"CHANGES", "CANCELLATIONS", "REFUNDS"}
Name(kind) == IF kind = "change" THEN "CHANGES" ELSE "CANCELLATIONS"
Heading(document, kind) == IF kind = "change" THEN "CHANGES" ELSE document.title
Other(kind) == IF kind = "change" THEN "refund" ELSE "change"

\* A part takes the places after its start.
Part(document, kind) == IF kind = "change" THEN document.changes
                                           ELSE document.cancels
Start(document, kind) ==
    IF (kind = "change") = document.changesFirst THEN 0 ELSE 5

PartLines(document, kind) ==
    LET part == Part(document, kind)
        line(n, of, what) ==
          [at |-> Start(document, kind) + n, kind |-> of, what |-> what]
        stated(n, word) ==
          {line(n, IF word = "silent" THEN "other" ELSE kind, word)}
        under(n, heading, word) ==
          {line(n, "heading", heading)} \cup stated(n + 1, word)
    IN  (IF document.headed /\ part.form # "none"
         THEN {line(1, "heading", Heading(document, kind))} ELSE {})
        \cup (IF part.form = "any" THEN under(2, "ANYTIME", part.before) ELSE {})
        \cup (IF part.form = "plain" THEN stated(2, part.before) ELSE {})
        \cup (IF part.form = "split" /\ part.before # "absent"
              THEN under(2, "BEFORE", part.before) ELSE {})
        \cup (IF part.form = "split" /\ part.after # "absent"
              THEN under(4, "AFTER", part.after) ELSE {})

Lines(document) == UNION {PartLines(document, kind) : kind \in Kinds}

\* The first heading of a name, 0 if there is none.
Find(text, name) ==
    LET headings == {l.at : l \in {x \in text : x.kind = "heading" /\ x.what = name}}
    IN  IF headings = {} THEN 0 ELSE Min(headings)
Below(text, n) == {l \in text : l.at > n}
Above(text, n) == {l \in text : l.at < n}

\* _section: up to the next of the other titles.
Section(text, name) ==
    LET start == Find(text, name)
        tail == Below(text, start)
        stops == {Find(tail, stop) : stop \in Titles \ {name}} \ {0}
    IN  CASE start = 0 -> {}
          [] start # 0 /\ stops = {} -> tail
          [] OTHER -> Above(tail, Min(stops))

\* A prohibition wins; a permission costs what amount is found near it.
Says(text, kind, words) == \E l \in text : l.kind = kind /\ l.what \in words
Reading(text, kind, reader) ==
    CASE Says(text, kind, Prohibitions(reader)) -> "not_allowed"
      [] ~Says(text, kind, Prohibitions(reader))
           /\ Says(text, kind, Permissions(reader)) ->
               IF Says(text, kind, Charges) THEN "with_fee" ELSE "allowed"
      [] OTHER -> NoValue

\* _changes_from_penalties and _refunds_from_penalties: none when the text
\* does not say.
Verdict(text, kind) ==
    LET own == Section(text, Name(kind))
        section == IF own = {} /\ kind = "refund" THEN Section(text, "REFUNDS")
                                                  ELSE own
    IN  Reading(IF section = {} THEN text ELSE section, kind, "audit")

\* parse_category_16_structured: cancellations end where the changes begin,
\* the changes at the end of the text.
Block(text, kind) ==
    LET changes == Find(text, "CHANGES")
        cancels == Find(text, "CANCELLATIONS")
    IN  CASE kind = "change" ->
               IF changes = 0 THEN {} ELSE Below(text, changes)
          [] kind # "change" /\ cancels = 0 -> {}
          [] kind # "change" /\ cancels # 0 /\ changes = 0 -> Below(text, cancels)
          [] OTHER -> Above(Below(text, cancels), changes)

BeforeAfterMutant(block) ==
    LET b == Find(block, "BEFORE")
        text == Above(Below(block, b), Find(block, "AFTER"))
    IN  [before |-> text, after |-> text]
\* Without headings of periods all of the block is for both: Find is 0 then.
BeforeAfter(block) ==
    LET b == Find(block, "BEFORE")
        a == Find(block, "AFTER")
        before == CASE b = 0 -> {}
                    [] b # 0 /\ a = 0 -> Below(block, b)
                    [] OTHER -> Above(Below(block, b), a)
        after == IF a = 0 THEN {} ELSE Below(block, a)
        anytime == Below(block, Find(block, "ANYTIME"))
    IN  IF before = {} /\ after = {}
          THEN [before |-> anytime, after |-> anytime]
          ELSE [before |-> before, after |-> after]

\* _detail: "charged" is an amount whose permission is unknown.
Detail(text, kind) ==
    LET reading == Reading(text, kind, "client")
    IN  CASE text = {} -> NoValue
          [] text # {} /\ reading # NoValue -> reading
          [] OTHER -> IF Says(text, kind, Charges) THEN "charged" ELSE "unknown"

Details(text, kind) ==
    LET parts == BeforeAfter(Block(text, kind))
    IN  [p \in Periods |-> Detail(parts[p], kind)]

-----------------------------------------------------------------------------
(* What a reader takes from a text: yes, for a fee, no, or to be confirmed. *)

Word(status) ==
    CASE status \in {"included", "allowed"} -> "yes"
      [] status \in {"with_fee", "charged"} -> "fee"
      [] status = "not_allowed" -> "no"
      [] OTHER -> "open"
Both(word) == [p \in Periods |-> word]

\* _changes_text and _refunds_text
SummaryText(details, status) ==
    LET found == {details[p] : p \in Periods} \ {NoValue}
    IN  CASE found = {"not_allowed"} -> Both("no")
          [] found \cap {"allowed", "with_fee"} # {} ->
               [p \in Periods |-> Word(details[p])]
          [] OTHER -> Both(Word(status))

\* _brand_feature_status: the features of both periods give one status.
BrandStatus(features) ==
    LET applied == {features[p] : p \in Periods}
    IN  CASE "F" \in applied -> "included"
          [] "F" \notin applied /\ "C" \in applied -> "with_fee"
          [] applied \cap {"F", "C"} = {} /\ applied \cap {"N", "D"} # {} ->
               "not_allowed"
          [] OTHER -> "unknown"

\* audit_fare
RefundStatusMutant(fare) ==
    LET brand == BrandStatus(fare.refund)
    IN  CASE brand # "unknown" -> brand
          [] brand = "unknown" /\ fare.nonRefundable = TRUE -> "not_allowed"
          [] brand = "unknown" /\ fare.nonRefundable = FALSE -> "allowed"
          [] OTHER -> "unknown"
RefundStatus(fare) ==
    LET brand == BrandStatus(fare.refund)
    IN  CASE brand # "unknown" -> brand
          [] brand = "unknown" /\ fare.nonRefundable = TRUE -> "not_allowed"
          [] OTHER -> "unknown"

AuditFare(fare) ==
    [change |-> BrandStatus(fare.change), refund |-> RefundStatus(fare),
     read |-> FALSE, summary |-> NoValue]

\* enrich_fare_audit_with_air_rules
Enrich(base, text) ==
    LET status == [k \in Kinds |->
                     IF Verdict(text, k) # NoValue THEN Verdict(text, k) ELSE base[k]]
    IN  IF text = {} THEN base
        ELSE [change |-> status["change"], refund |-> status["refund"],
              read |-> TRUE,
              summary |-> [k \in Kinds |->
                             SummaryText(Details(text, k), status[k])]]

-----------------------------------------------------------------------------
(* The fares of an option that are sold: _select_commercial_fares.         *)

ByPrice(fares) == Sorted(fares, [i \in DOMAIN fares |-> <<fares[i].price>>])

OfCabin(fares, cabin) == At(fares, {i \in DOMAIN fares : fares[i].cabin = cabin})

\* _distinct_brand_ladder
Ladder(fares) ==
    LET branded == At(fares, {i \in DOMAIN fares : fares[i].brand # NoValue})
        lowest(i) == \A j \in 1..(i - 1) : branded[j].brand # branded[i].brand
    IN  IF branded = <<>> THEN First(fares, 1)
        ELSE At(branded, {i \in DOMAIN branded : lowest(i)})

\* The lowest Economy fare and then the lowest flexible one, or the next.
CompactEconomy(fares) ==
    LET rest == At(fares, DOMAIN fares \ {1})
        flexible == At(rest, {i \in DOMAIN rest : rest[i].brand = "FLEX"})
    IN  First(fares, 1) \o First(IF flexible # <<>> THEN flexible ELSE rest, 1)

CommercialFares(option, requested) ==
    LET of(cabin) == OfCabin(ByPrice(option.fares), cabin)
        upper(cabin) == IF cabin \in requested THEN Ladder(of(cabin))
                                               ELSE First(of(cabin), 1)
        selected == CompactEconomy(of("economy")) \o upper("premium")
                    \o upper("business") \o upper("first")
    IN  IF selected # <<>> THEN selected ELSE First(option.fares, 1)

ASSUME NoValueAssumption ==
    /\ NoValue \notin Statuses \cup {"charged", "F", "C", "N", "D"}
    /\ NoValue \notin BOOLEAN

\* A fare that was selected is one of those that were sold.
ASSUME RulesAssumption ==
    /\ \A code \in DOMAIN Documents : Documents[code] \subseteq Texts
    /\ \A q \in Quotes : \A i \in DOMAIN q.options :
         /\ q.options[i].fares \in Seq(FareOption)
         /\ q.selected[i] \in 0..Len(CommercialFares(q.options[i], q.requested))

-----------------------------------------------------------------------------
(* The audit                                                               *)

\* audit_stored_quote looks at the sold fares of no cabin in particular.
Audited(option) == CommercialFares(option, {})

Chosen == quote.options

BasisOf(fares) == UNION {ToSet(fares[i].basis) : i \in DOMAIN fares}

\* collect_rule_queries: each fare basis once, with the carrier of the first
\* option that has it.
Queries ==
    LET codes(i) == BasisOf(Audited(Chosen[i]))
        isNew(i, code) == code \in codes(i) /\ \A j \in 1..(i - 1) : code \notin codes(j)
    IN  UNION {{<<Chosen[i].carrier, code>> : code \in {c \in codes(i) : isNew(i, c)}} :
                  i \in DOMAIN Chosen}

\* The first basis of the fare that has an answer.
Answered(fare, answers) ==
    {n \in DOMAIN fare.basis : fare.basis[n] \in DOMAIN answers}
Answer(fare, answers) == answers[fare.basis[Min(Answered(fare, answers))]]
AuditWith(fare, answers) ==
    IF Answered(fare, answers) = {} THEN AuditFare(fare)
    ELSE Enrich(AuditFare(fare), Answer(fare, answers))

\* audit_stored_quote
AuditAll(answers) ==
    [i \in DOMAIN Chosen |->
       [k \in DOMAIN Audited(Chosen[i]) |->
          AuditWith(Audited(Chosen[i])[k], answers)]]

AnyUnknown(audits) ==
    \E i \in DOMAIN audits : \E k \in DOMAIN audits[i] :
        "unknown" \in {audits[i][k].change, audits[i][k].refund}

Baseline(audits) == IF AnyUnknown(audits) THEN "pending_authentication"
                                          ELSE "not_needed"

LookupStatus(audits, answers) ==
    CASE DOMAIN answers = {} -> "lookup_failed"
      [] DOMAIN answers # {} /\ AnyUnknown(audits) -> "partial"
      [] OTHER -> "resolved"

NoAnswers == <<>>
With(f, x, value) == [y \in DOMAIN f \cup {x} |-> IF y = x THEN value ELSE f[y]]

\* What the client is told of a fare: the summary of the audited fare with
\* the same brand and price, the last of them, or else the brand.
BrandText(fare) ==
    [k \in Kinds |-> Both(Word(IF k = "change" THEN AuditFare(fare).change
                                               ELSE AuditFare(fare).refund))]

TextMutant(fare, audited, audits) ==
    LET same == {k \in DOMAIN audited : /\ audited[k] = fare
                                        /\ audits[k].read}
    IN  IF same = {} \/ BrandStatus(fare.change) # "unknown" THEN BrandText(fare)
        ELSE audits[CHOOSE k \in same : TRUE].summary
Text(fare, audited, audits) ==
    LET same == {k \in DOMAIN audited :
                   /\ audited[k].brand = fare.brand
                   /\ audited[k].price = fare.price
                   /\ audits[k].read}
    IN  IF same = {} THEN BrandText(fare) ELSE audits[Max(same)].summary

\* build_commercial_quote: the sold fares of the cabins asked for, or the one
\* that was selected of them.
Shown(i) ==
    LET fares == CommercialFares(Chosen[i], quote.requested)
        selected == quote.selected[i]
    IN  IF selected = 0 THEN fares ELSE <<fares[selected]>>

Telling ==
    [i \in DOMAIN Chosen |->
       [k \in DOMAIN Shown(i) |->
          Text(Shown(i)[k], Audited(Chosen[i]), audit[i])]]

-----------------------------------------------------------------------------
RulesInit ==
    /\ quote \in Quotes
    /\ rules = NoAnswers /\ todo = {} /\ parsed = NoAnswers /\ phase = "start"
    /\ audit = <<>> /\ lookup = "not_needed" /\ told = <<>>

\* Without a fare basis the audit is the baseline, without a session too.
OpenSession ==
    /\ phase = "start"
    /\ \/ /\ Queries # {} /\ todo' = Queries /\ phase' = "lookup"
          /\ UNCHANGED <<audit, lookup>>
       \/ /\ phase' = "audited" /\ audit' = AuditAll(NoAnswers)
          /\ lookup' = IF Queries = {} THEN Baseline(AuditAll(NoAnswers))
                                       ELSE "lookup_failed"
          /\ UNCHANGED todo
    /\ UNCHANGED <<quote, rules, parsed, told>>

\* A call that fails, or an answer that is a fault or empty, is passed over;
\* an answer may lack category 16.
LookUp ==
    /\ phase = "lookup" /\ todo # {}
    /\ LET query == CHOOSE q \in todo : TRUE
           Received(text) == parsed' = With(parsed, query[2], text)
       IN  /\ todo' = todo \ {query}
           /\ \/ UNCHANGED <<rules, parsed>>
              \/ Received({}) /\ UNCHANGED rules
              \/ \E document \in Documents[query[2]] :
                   /\ Received(Lines(document))
                   /\ rules' = With(rules, query, document)
    /\ UNCHANGED <<quote, phase, audit, lookup, told>>

Conclude ==
    /\ phase = "lookup" /\ todo = {} /\ phase' = "audited"
    /\ audit' = AuditAll(parsed)
    /\ lookup' = LookupStatus(audit', parsed)
    /\ UNCHANGED <<quote, rules, todo, parsed, told>>

Tell ==
    /\ phase = "audited" /\ phase' = "told"
    /\ told' = Telling
    /\ UNCHANGED <<quote, rules, todo, parsed, audit, lookup>>

RulesNext == OpenSession \/ LookUp \/ Conclude \/ Tell

RulesSpec == RulesInit /\ [][RulesNext]_ruleVars

-----------------------------------------------------------------------------
(* What must hold                                                          *)

\* What a document says of a kind in a period.
Meant(document, kind, period) ==
    LET part == Part(document, kind)
    IN  IF part.form = "none" THEN "silent" ELSE part[period]

\* The parser of the periods does not find a part without heading, nor the
\* cancellations behind the changes or under REFUNDS.
PeriodsLost(document, kind) ==
    \/ ~document.headed
    \/ /\ kind = "refund"
       /\ \/ document.title = "REFUNDS"
          \/ document.changesFirst /\ document.changes.form # "none"

\* What may stand for a fare in its option: fares of its brand and price.
Alike(option, fare) ==
    {f \in ToSet(option.fares) : f.brand = fare.brand /\ f.price = fare.price}

\* The brand permits in some period.
BrandGrants(features) == \E p \in Periods : features[p] \in {"F", "C"}

\* The rules permit in a period: the client's parser reads so of that period,
\* or has an amount for it; where it has lost the periods or reads no
\* permission at all, the audit's parser reads a permission somewhere.
RulesGrant(document, kind, p) ==
    IF ~PeriodsLost(document, kind)
       /\ \E q \in Periods : Meant(document, kind, q) \in Permissions("client")
    THEN Meant(document, kind, p) \in Permissions("client") \cup Charges
    ELSE \E q \in Periods : Meant(document, kind, q) \in Permissions("audit")

\* Nothing is promised without a source: if the client reads that a fare can
\* be changed or refunded in a period, its brand says so, or rules that were
\* read for one of its fare bases say so for that period.  Silence, a failed
\* call or a fare that is merely not marked as non-refundable is no permission.
\* (Rules are read once for a fare basis, with the carrier of the first option
\* that has it, and are told for all fares of an option with one brand and
\* price.)
PermissionHasASource ==
    \A i \in DOMAIN told : \A k \in DOMAIN told[i] :
        \A kind \in Kinds, p \in Periods :
          told[i][k][kind][p] \in {"yes", "fee"} =>
            \E fare \in Alike(Chosen[i], Shown(i)[k]) :
              \/ BrandGrants(fare[kind])
              \/ \E query \in DOMAIN rules :
                   /\ query[2] \in ToSet(fare.basis)
                   /\ RulesGrant(rules[query], kind, p)

\* A document forbids: it says so before and after the departure, in words
\* that one of the parsers knows, the audit's where the periods are lost.
Forbids(document, kind) ==
    /\ \A p \in Periods :
         Meant(document, kind, p) \in Prohibitions("audit") \cup Prohibitions("client")
    /\ PeriodsLost(document, kind) =>
         \E p \in Periods : Meant(document, kind, p) \in Prohibitions("audit")

\* Rules that were read win over the brand: if category 16 of the fare basis
\* of an audited fare forbids, the client reads no, unless another fare of the
\* option has its brand and price.
RuleBeatsBrand ==
    \A i \in DOMAIN told : \A k \in DOMAIN told[i] :
        LET fare == Shown(i)[k]
            code == fare.basis[1]
        IN  \A kind \in Kinds :
              /\ fare \in ToSet(Audited(Chosen[i])) /\ Alike(Chosen[i], fare) = {fare}
              /\ Len(fare.basis) = 1 /\ code \in DOMAIN parsed
              /\ parsed[code] # {}
              /\ \A query \in DOMAIN rules :
                   query[2] = code => Forbids(rules[query], kind)
              => told[i][k][kind] = Both("no")

\* The audit's parser finds a statement on the kind that it knows.
AuditKnows(text, kind) ==
    Says(text, kind, Prohibitions("audit") \cup Permissions("audit"))

\* The two parsers agree wherever the audit's knows what the text says: the
\* client does not read that something can be done at any time when the agent's
\* audit of the fare says that it cannot, nor the reverse.  (Where it does not
\* know, the agent has the brand's status and the client may have the rules'.)
AgentAndClientAgree ==
    \A i \in DOMAIN audit : \A k \in DOMAIN audit[i] : audit[i][k].read =>
        \A kind \in Kinds :
            LET words == {audit[i][k].summary[kind][p] : p \in Periods}
            IN  AuditKnows(Answer(Audited(Chosen[i])[k], parsed), kind) =>
                  /\ words \subseteq {"yes", "fee"} => audit[i][k][kind] # "not_allowed"
                  /\ words = {"no"} => audit[i][k][kind] = "not_allowed"
=============================================================================
