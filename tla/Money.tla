------------------------------- MODULE Money --------------------------------
(***************************************************************************)
(* Amounts, from the decimal string of a request to the minor units of a   *)
(* bigint column: domain/money.ts and quote-pricing.ts as createQuote and  *)
(* createDeposit use them, with decimal.js computing to Precision          *)
(* significant digits, half up, and back to the string of a response.  A   *)
(* decimal is [c, e]: c / 10^e, where e may be negative.                   *)
(***************************************************************************)
EXTENDS Integers

CONSTANTS
    Precision,      \* Decimal.precision, 20
    Decimals,       \* MINOR_UNIT_DECIMALS, 8
    ToExpNeg,       \* Decimal.toExpNeg, -7
    MaxMinor,       \* the largest bigint: one digit less than Precision
    Amounts,        \* decimals that pass POSITIVE_DECIMAL_REGEX
    Prices          \* what Binance calls bid and ask

Decimal == [c: Nat, e: Nat]

\* 10^n, in a form that can be reasoned about.
TenTo[n \in Nat] == IF n = 0 THEN 1 ELSE 10 * TenTo[n - 1]

ASSUME PrecisionAssumption == Precision \in Nat \ {0}
ASSUME DecimalsAssumption == Decimals \in Nat
ASSUME ToExpNegAssumption == ToExpNeg \in Int /\ Decimals + ToExpNeg >= 0
ASSUME MaxMinorAssumption == MaxMinor \in Nat /\ MaxMinor < TenTo[Precision]
ASSUME AmountsAssumption == Amounts \subseteq Decimal
ASSUME PricesAssumption == Prices \subseteq Decimal

VARIABLES
    asked,          \* the request
    answer          \* its status, and the amounts that were stored

vars == <<asked, answer>>

NoRequest == [kind |-> "none"]
Sides == {"BUY", "SELL"}
Requests ==
    [kind: {"quote"}, side: Sides, amount: Amounts, price: Prices]
    \cup [kind: {"deposit"}, amount: Amounts]

-----------------------------------------------------------------------------
(* decimal.js.                                                             *)

Floor(c, digits) == c \div TenTo[digits]
Ceiling(c, digits) == (c + TenTo[digits] - 1) \div TenTo[digits]
HalfUp(c, digits) == (c + 5 * TenTo[digits - 1]) \div TenTo[digits]

\* Digits in excess of the precision: fewer than c, as c < 10^c.
Excess(c) ==
    IF c < TenTo[Precision] THEN 0
    ELSE CHOOSE d \in 1 .. c :
           c < TenTo[Precision + d] /\ c >= TenTo[Precision + d - 1]

\* What every operation does to its exact result.
Finalise(c, e) ==
    LET d == Excess(c) IN
    IF d = 0 THEN [c |-> c, e |-> e] ELSE [c |-> HalfUp(c, d), e |-> e - d]

Times(x, y) == Finalise(x.c * y.c, x.e + y.e)

IsInteger(x) == x.e <= 0 \/ x.c % TenTo[x.e] = 0
Integral(x) == IF x.e <= 0 THEN x.c * TenTo[-x.e] ELSE Floor(x.c, x.e)
-----------------------------------------------------------------------------
(* domain/money.ts.                                                        *)

Nothing == -1

\* Bug: no check that the scaled amount is whole.
ToMinorUnitsUnchecked(x) == Integral(Times(x, [c |-> 1, e |-> -Decimals]))

\* The minor units of a decimal, or Nothing where the code throws.
ToMinorUnits(x) ==
    LET scaled == Times(x, [c |-> 1, e |-> -Decimals])
    IN  IF IsInteger(scaled) THEN Integral(scaled) ELSE Nothing

FromMinorUnits(minor) == Finalise(minor, Decimals)

\* toString writes the decimals whose leading digit is worth 10^ToExpNeg or
\* less with an exponent, as in 1e-8.
Exponential(x) == x.c # 0 /\ x.c < TenTo[x.e + ToExpNeg + 1]

\* Bug: Number(minor) / 1e8, with the fewer digits of a float.
FormatOfNumber(minor) ==
    LET x == FromMinorUnits(minor)
    IN  [decimal |-> IF x.c < TenTo[Precision - 2] THEN x
                     ELSE [c |-> HalfUp(x.c, 1), e |-> x.e - 1],
         exponential |-> Exponential(x)]

FormatMinorUnits(minor) ==
    LET x == FromMinorUnits(minor)
    IN  [decimal |-> x, exponential |-> Exponential(x)]

\* POSITIVE_DECIMAL_REGEX knows no exponent.
Parsed(text) == IF text.exponential THEN Nothing ELSE ToMinorUnits(text.decimal)

\* toDecimalPlaces(Decimals, ROUND_UP or ROUND_DOWN), then minor units.
RoundToMinorUnits(x, up) ==
    ToMinorUnits(IF x.e <= Decimals THEN x
                 ELSE [c |-> IF up THEN Ceiling(x.c, x.e - Decimals)
                                   ELSE Floor(x.c, x.e - Decimals),
                       e |-> Decimals])

\* Bug: the price is cut to the decimals of an amount first.
QuoteAmountOfCutPrice(side, baseMinor, price) ==
    RoundToMinorUnits(
        Times(FromMinorUnits(baseMinor),
              IF price.e <= Decimals THEN price
              ELSE [c |-> Floor(price.c, price.e - Decimals), e |-> Decimals]),
        side = "BUY")

\* computeQuoteAmount: a BUY owes, rounded up; a SELL receives, rounded down.
QuoteAmount(side, baseMinor, price) ==
    RoundToMinorUnits(Times(FromMinorUnits(baseMinor), price), side = "BUY")

-----------------------------------------------------------------------------
(* The handlers.                                                           *)

\* Bug: a column that takes any amount.
StoredAnyway(base, quote) == [code |-> 201, base |-> base, quote |-> quote]

\* The row is inserted, unless an amount is out of range of its column.
Stored(base, quote) ==
    IF base > MaxMinor \/ quote > MaxMinor
    THEN [code |-> 500, base |-> 0, quote |-> 0]
    ELSE [code |-> 201, base |-> base, quote |-> quote]

BadRequest == [code |-> 400, base |-> 0, quote |-> 0]

CreateQuote(r) ==
    LET base == ToMinorUnits(r.amount)
        quote == QuoteAmount(r.side, base, r.price)
    IN  /\ r.kind = "quote"
        /\ asked' = r
        /\ answer' = IF base = Nothing \/ base <= 0 THEN BadRequest
                     ELSE IF quote <= 0 THEN BadRequest
                     ELSE Stored(base, quote)

\* quote is the amount credited, base is not used.
CreateDeposit(r) ==
    LET minor == ToMinorUnits(r.amount) IN
    /\ r.kind = "deposit"
    /\ asked' = r
    /\ answer' = IF minor = Nothing \/ minor <= 0 THEN BadRequest
                 ELSE Stored(minor, minor)

Init == asked = NoRequest /\ answer = BadRequest

Next ==
    /\ asked = NoRequest
    /\ \E r \in Requests : CreateQuote(r) \/ CreateDeposit(r)

Spec == Init /\ [][Next]_vars

-----------------------------------------------------------------------------
(* Properties.  Exact arithmetic on the request is the reference.          *)

Quoted == asked # NoRequest /\ asked.kind = "quote" /\ answer.code = 201
Accepted == asked # NoRequest /\ answer.code = 201

\* base * price in units of 10^-price.e minor units
ExactProduct == answer.base * asked.price.c

Owed ==
    IF asked.side = "BUY" THEN Ceiling(ExactProduct, asked.price.e)
                          ELSE Floor(ExactProduct, asked.price.e)

\* Whatever is stored fits its column and is a positive amount.
TypeOK ==
    /\ asked \in Requests \cup {NoRequest}
    /\ answer.code \in {201, 400, 500}
    /\ answer.code = 201 => {answer.base, answer.quote} \subseteq 1 .. MaxMinor
    /\ answer.code # 201 => answer.base = 0 /\ answer.quote = 0

\* Where the product of amount and price needs no more digits than decimal.js
\* keeps, a BUY owes the exact product rounded up to a minor unit, and a SELL
\* receives it rounded down.
RoundedForTheHouseWhenItFits ==
    Quoted /\ ExactProduct < TenTo[Precision] => answer.quote = Owed

\* And where it needs more, the two roundings together lose one minor unit at
\* most, for either party.
OffByAtMostOne == Quoted => answer.quote - Owed \in -1 .. 1

\* An amount that is written with no more digits than decimal.js keeps is
\* accepted only as exactly what was written.
AcceptedAsWritten ==
    Accepted /\ asked.amount.c < TenTo[Precision] =>
        answer.base * TenTo[asked.amount.e] = asked.amount.c * TenTo[Decimals]

\* An amount that an answer shows and the client sends back is read as the
\* same amount, up to the largest that fits a column; amounts so small that
\* they are shown with an exponent are refused, and no others.
ShownAmountReadsBack ==
    Accepted => \A minor \in {answer.base, answer.quote} :
        LET back == Parsed(FormatMinorUnits(minor))
        IN  /\ back \in {minor, Nothing}
            /\ back = Nothing <=> minor < TenTo[Decimals + ToExpNeg + 1]
=============================================================================
