-------------------------------- MODULE Pricing --------------------------------
(***************************************************************************)
(* Rate cards, what the timesheets of one project and date are worth by    *)
(* them, and what each engineer is shown of it (TimesheetsService).  The    *)
(* life of a sheet is Timesheets; here it has a price.                     *)
(*                                                                         *)
(* timesheetData finds the cards of a sheet before it is written, and      *)
(* removeRateCard looks for a sheet that uses the card before it deletes   *)
(* it.  One action is one call with the code up to the next await.         *)
(*                                                                         *)
(* Money is in pence and quantities in hundredths.  A double next to half  *)
(* a penny lies on either side of it, so that toFixed(2) may round it up   *)
(* or down; amounts are small enough for every other one to round well.    *)
(*                                                                         *)
(* Left out: descriptions and units, several sheets of an engineer for the *)
(* project on that date, and when a past date is locked (Timesheets).      *)
(***************************************************************************)
EXTENDS Integers, FiniteSetsExt

CONSTANTS Crew,         \* engineers assigned to the project on the date
          Codes,        \* rate codes
          Prices, Quantities,  \* what the office and the engineers enter: a bound
          Jobs,         \* job numbers
          BlankJob,
          PriceSlots    \* slots for requests in flight

ASSUME PricingConstants ==
  /\ Prices \subseteq Nat
  /\ Quantities \subseteq Nat \ {0}
  /\ BlankJob \notin Jobs
  /\ IsFiniteSet(Crew) /\ IsFiniteSet(Codes)

VARIABLES cards,     \* the rate cards, by code
          claims,    \* the timesheets, by engineer
          priceReq   \* the requests in flight

priceVars == <<cards, claims, priceReq>>
-------------------------------------------------------------------------------
RateCard == [price : Prices, active : BOOLEAN]

NoCard == [price |-> 0, active |-> FALSE, removed |-> TRUE]

ClaimStatuses == {"DRAFT", "SUBMITTED", "APPROVED", "REJECTED"}

\* What timesheetData makes of a request.  codes: the rate codes of the items.
\* An off day has none.
Claimed == [working : BOOLEAN, job : Jobs \union {BlankJob}, total : Nat, codes : SUBSET Codes]

\* raced: history, the codes whose card was gone, or past the check for its use
\* and about to be deleted, when the sheet was written.
Claim == [status : ClaimStatuses, data : Claimed, raced : SUBSET Codes]

NoClaim == [status |-> "NONE",
            data |-> [working |-> FALSE, job |-> BlankJob, total |-> 0, codes |-> {}],
            raced |-> {}]

\* prices: of the cards that were found, by code.  The rest of a sheet (job number,
\* quantities) matters only when it is written, and is chosen there.
PriceRequest ==
  [pc : {"create", "update"}, by : Crew, prices : UNION {[codes -> Prices] : codes \in SUBSET Codes}]
    \union [pc : {"exists", "delete", "deactivate"}, code : Codes, active : BOOLEAN]

NoPriceRequest == [pc |-> "idle"]

PriceTypeOK ==
  /\ cards \in [Codes -> RateCard \union {NoCard}]
  /\ claims \in [Crew -> Claim \union {NoClaim}]
  /\ priceReq \in [PriceSlots -> PriceRequest \union {NoPriceRequest}]

PriceInit ==
  /\ cards = [c \in Codes |-> NoCard]
  /\ claims = [e \in Crew |-> NoClaim]
  /\ priceReq = [r \in PriceSlots |-> NoPriceRequest]
-------------------------------------------------------------------------------
PriceAt(r, pc) == priceReq[r].pc = pc

BeginPrice(r, request) ==
  /\ priceReq[r] = NoPriceRequest
  /\ priceReq' = [priceReq EXCEPT ![r] = request]

AnswerPrice(r) == priceReq' = [priceReq EXCEPT ![r] = NoPriceRequest]

\* Faulty: amounts are cut off instead of rounded.
NearestBelow(a, b) == {a \div b}

\* toFixed(2) of a quotient: the nearest penny, or either at half a penny.
Nearest(a, b) == {n \in {a \div b, a \div b + 1} : 2 * (a - n * b) <= b /\ 2 * (n * b - a) <= b}

SumOver(f, S) == MapThenSumSet(LAMBDA x : f[x], S)

\* timesheetData up to the write: every rate code needs an active card.
PriceClaim(r, e, codes) ==
  /\ claims[e].status \in {"NONE", "DRAFT", "REJECTED"}
  /\ \A c \in codes : cards[c].active
  /\ BeginPrice(r, [pc |-> IF claims[e] = NoClaim THEN "create" ELSE "update",
                    by |-> e, prices |-> [c \in codes |-> cards[c].price]])
  /\ UNCHANGED <<cards, claims>>

\* timesheetData, the result: every item is rounded, then added up.
Priced(prices, quantities, job) ==
  LET codes == DOMAIN prices
  IN  {[working |-> codes # {}, job |-> job, codes |-> codes, total |-> SumOver(totals, codes)] :
         totals \in {f \in [codes -> UNION {Nearest(p * q, 100) : p \in Prices, q \in Quantities}] :
                       \A c \in codes : f[c] \in Nearest(prices[c] * quantities[c], 100)}}

\* Of these codes, those whose card is not there or will not be for long.
Leaving(codes) ==
  {c \in codes : cards[c] = NoCard \/ \E q \in PriceSlots : PriceAt(q, "delete") /\ priceReq[q].code = c}

\* One sheet for each engineer, by the unique index.
CreateClaim(r, data) ==
  /\ PriceAt(r, "create")
  /\ LET e == priceReq[r].by
     IN  IF claims[e] # NoClaim THEN UNCHANGED claims
         ELSE claims' = [claims EXCEPT ![e] =
                [status |-> "DRAFT", data |-> data, raced |-> Leaving(data.codes)]]
  /\ AnswerPrice(r)
  /\ UNCHANGED cards

\* By id, whatever the status is by now.
UpdateClaim(r, data) ==
  /\ PriceAt(r, "update")
  /\ claims' = [claims EXCEPT ![priceReq[r].by] =
       [@ EXCEPT !.data = data, !.raced = Leaving(data.codes)]]
  /\ AnswerPrice(r)
  /\ UNCHANGED cards

WriteClaim(r) ==
  /\ PriceAt(r, "create") \/ PriceAt(r, "update")
  /\ \E job \in Jobs \union {BlankJob}, quantities \in [DOMAIN priceReq[r].prices -> Quantities] :
       \E data \in Priced(priceReq[r].prices, quantities, job) :
         CreateClaim(r, data) \/ UpdateClaim(r, data)

MoveClaim(e, from, to) ==
  /\ claims[e].status \in from
  /\ claims' = [claims EXCEPT ![e].status = to]
  /\ UNCHANGED <<cards, priceReq>>

SubmitClaim(e) == MoveClaim(e, {"DRAFT", "REJECTED"}, "SUBMITTED")

ReviewClaim(e) == \E verdict \in {"APPROVED", "REJECTED"} : MoveClaim(e, {"SUBMITTED"}, verdict)
-------------------------------------------------------------------------------
(* The office and its rate cards.                                          *)

\* createRateCard; a second card of the code is refused.
CreateCard(c, price, active) ==
  /\ cards[c] = NoCard
  /\ cards' = [cards EXCEPT ![c] = [price |-> price, active |-> active]]
  /\ UNCHANGED <<claims, priceReq>>

\* updateRateCard: any of the two may be left as it is; the code is immutable.
UpdateCard(c, price, active) ==
  /\ cards[c] # NoCard
  /\ cards' = [cards EXCEPT ![c] = [price |-> price, active |-> active]]
  /\ UNCHANGED <<claims, priceReq>>

RemoveCardFind(r, c) ==
  /\ cards[c] # NoCard
  /\ BeginPrice(r, [pc |-> "exists", code |-> c, active |-> cards[c].active])
  /\ UNCHANGED <<cards, claims>>

\* Faulty: only sheets that were submitted are looked at.
RemoveCardCheckSubmitted(r) ==
  /\ PriceAt(r, "exists")
  /\ LET used == \E e \in Crew : claims[e].status # "DRAFT" /\ priceReq[r].code \in claims[e].data.codes
     IN  priceReq' = [priceReq EXCEPT ![r].pc = IF used THEN "deactivate" ELSE "delete"]
  /\ UNCHANGED <<cards, claims>>

\* exists: any sheet that has the code.
RemoveCardCheck(r) ==
  /\ PriceAt(r, "exists")
  /\ LET used == \E e \in Crew : priceReq[r].code \in claims[e].data.codes
     IN  priceReq' = [priceReq EXCEPT ![r].pc = IF used THEN "deactivate" ELSE "delete"]
  /\ UNCHANGED <<cards, claims>>

\* deleteOne.  Other removals of that card will change nothing any more.
RemoveCardDelete(r) ==
  /\ PriceAt(r, "delete")
  /\ cards' = [cards EXCEPT ![priceReq[r].code] = NoCard]
  /\ priceReq' = [q \in PriceSlots |->
       IF \/ priceReq[q].pc \in {"create", "update", "idle"}
          \/ priceReq[q].code # priceReq[r].code
       THEN priceReq[q] ELSE NoPriceRequest]
  /\ UNCHANGED claims

\* The save; a card that was inactive when it was read is not changed.
RemoveCardDeactivate(r) ==
  /\ PriceAt(r, "deactivate")
  /\ cards' = IF priceReq[r].active THEN [cards EXCEPT ![priceReq[r].code].active = FALSE] ELSE cards
  /\ AnswerPrice(r)
  /\ UNCHANGED claims

\* A call throws, or the process dies: nothing was written yet.
RefusePrice(r) ==
  /\ priceReq[r] # NoPriceRequest
  /\ AnswerPrice(r)
  /\ UNCHANGED <<cards, claims>>

PriceNext ==
  \/ \E r \in PriceSlots :
       \/ \E e \in Crew, codes \in SUBSET Codes : PriceClaim(r, e, codes)
       \/ WriteClaim(r)
       \/ \E c \in Codes : RemoveCardFind(r, c)
       \/ RefusePrice(r)
       \/ RemoveCardCheck(r) \/ RemoveCardDelete(r) \/ RemoveCardDeactivate(r)
  \/ \E e \in Crew : SubmitClaim(e) \/ ReviewClaim(e)
  \/ \E c \in Codes, price \in Prices, active \in BOOLEAN :
       CreateCard(c, price, active) \/ UpdateCard(c, price, active)

PriceSpec == PriceInit /\ [][PriceNext]_priceVars
-------------------------------------------------------------------------------
(* What the sheets show, as functions of all sheets.                       *)

Counts(claim) == claim.data.working /\ claim.status \in {"SUBMITTED", "APPROVED"}

\* Faulty: drafts and rejected sheets count.
GroupOfAll(all, e) ==
  {x \in Crew : /\ all[x].data.working
                /\ all[e].data.job # BlankJob => all[x].data.job = all[e].data.job}

\* Faulty: whatever the job is.
GroupOfDay(all, e) == {x \in Crew : Counts(all[x])}

\* response: the sheets that share with that of e, which need not be one of them; a
\* sheet without a job number is compared with those of every job.
Group(all, e) ==
  {x \in Crew : /\ Counts(all[x])
                /\ all[e].data.job # BlankJob => all[x].data.job = all[e].data.job}

DailyTotal(all, group) == SumOver([x \in Crew |-> all[x].data.total], group)

PayableShare(all, e) ==
  LET group == Group(all, e)
  IN  IF ~ all[e].data.working \/ group = {} THEN {0}
      ELSE Nearest(DailyTotal(all, group), Cardinality(group))

\* eligibleOwn: what v is shown of the sheet of e.
Shown(all, v, e) ==
  IF all[e] = NoClaim \/ (e # v /\ all[e].status = "DRAFT")
  THEN [status |-> "NOT_SUBMITTED", contributed |-> 0, share |-> {0}]
  ELSE [status |-> all[e].status, contributed |-> all[e].data.total, share |-> PayableShare(all, e)]
-------------------------------------------------------------------------------
(* Properties.                                                             *)

\* "A draft remains private to its author" (eligibleOwn): what an engineer is shown
\* would be the same if the drafts of the others did not exist, the shares of the
\* day's total included.
DraftsPrivate ==
  \A v \in Crew :
    LET others == [x \in Crew |-> IF x # v /\ claims[x].status = "DRAFT" THEN NoClaim ELSE claims[x]]
    IN  \A e \in Crew : Shown(claims, v, e) = Shown(others, v, e)

\* The shares of the submitted and approved sheets of a job add up to what they
\* claim, give or take half a penny each (response); for sheets without a job
\* number, which are compared with every job, the code promises nothing of the kind.
SharesAddUp ==
  \A job \in Jobs :
    LET group == {x \in Crew : Counts(claims[x]) /\ claims[x].data.job = job}
        total == DailyTotal(claims, group)
        count == Cardinality(group)
    IN  \A e \in group : \A share \in PayableShare(claims, e) :
          2 * (count * share - total) <= count /\ 2 * (total - count * share) <= count

\* A rate card that a sheet uses is kept, inactive at most (removeRateCard), unless
\* that sheet was written while the card was being deleted.
UsedCardsKept ==
  \A e \in Crew : \A c \in claims[e].data.codes : cards[c] = NoCard => c \in claims[e].raced
-------------------------------------------------------------------------------
(* What every step keeps, and the proof rests on.                          *)

\* The codes of a sheet are codes; what a sheet is worth does not matter.
CodesKnown ==
  /\ claims = [e \in Crew |->
       [status |-> claims[e].status, data |-> claims[e].data, raced |-> claims[e].raced]]
  /\ \A e \in Crew : claims[e].data.codes \subseteq Codes

\* A removal past its check is of a card that only sheets written since then use.
RemovalsChecked ==
  \A r \in PriceSlots : PriceAt(r, "delete") =>
    \A e \in Crew : priceReq[r].code \in claims[e].data.codes => priceReq[r].code \in claims[e].raced

CardInv ==
  /\ cards \in [Codes -> RateCard \union {NoCard}]
  /\ priceReq \in [PriceSlots -> PriceRequest \union {NoPriceRequest}]
  /\ CodesKnown /\ RemovalsChecked /\ UsedCardsKept

\* A sheet that is to be changed was there when it was looked for, and still is.
PriceInv ==
  /\ PriceTypeOK
  /\ \A r \in PriceSlots : PriceAt(r, "update") => claims[priceReq[r].by] # NoClaim
===============================================================================
