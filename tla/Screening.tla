------------------------------- MODULE Screening -------------------------------
(***************************************************************************)
(* The Shariah screen as operators: what the data sources answer, how the  *)
(* answers are merged, and the verdict.  Amounts are parts of a market     *)
(* capitalisation of Cap, 0 where a source has no figure; ratios are per   *)
(* mille, a buffer is in percentage points.  A company may report in       *)
(* another currency, of which a unit is worth so many tenths of one of the *)
(* currency it trades in.                                                  *)
(***************************************************************************)
EXTENDS Integers

Cap == 1000

\* A certifier's answer; "none" without a key, a report or an HTTP 200.
Answers == {"none", "halal", "haram", "doubtful"}

\* Zoya first; where Musaffa contradicts it the verdict is doubtful.
FetchShariahVerdict(zoya, musaffa) ==
    IF zoya = "none" THEN musaffa
    ELSE IF musaffa # "none" /\ (zoya = "halal") # (musaffa = "halal") THEN "doubtful"
    ELSE zoya

\* What the fetchers return: figures, a business that is "clean", named by a prohibited
\* "word", known by its "slug" alone, or that of an exempted Islamic bank, and a fund's
\* certification.
Kinds == {"none", "ETF", "MUTUALFUND", "EQUITY"}
Businesses == {"clean", "word", "slug", "islamic bank"}
NoData == [kind |-> "none", cap |-> 0, debt |-> 0, cash |-> 0, ibs |-> 0, revenue |-> 0,
           impure |-> 0, statements |-> FALSE, business |-> "clean", certified |-> FALSE]

\* FMP and Alpha Vantage without a key, without the symbol, or in error.
NoFmp == [known |-> FALSE, cap |-> 0, debt |-> 0, cash |-> 0, revenue |-> 0]
NoAv == [known |-> FALSE, debt |-> 0, revenue |-> 0]

\* Zoya's word goes before the family, the name and the keyword of a fund.
IsShariahEtf(islamic, zoya) == IF zoya = "none" THEN islamic ELSE zoya = "halal"

FetchMorningstar(y) == [NoData EXCEPT !.kind = "MUTUALFUND", !.certified = y.islamic]

Fund(y, zoya) == [NoData EXCEPT !.kind = "ETF", !.certified = IsShariahEtf(y.islamic, zoya)]
Reported(y) == [f \in DOMAIN NoData |-> IF f = "certified" THEN FALSE ELSE y[f]]

\* In the trading currency: a figure stays one, however small.
Converted(n, y) == IF y.foreign THEN (n * y.worth + 9) \div 10 ELSE n

\* Mutant: the balance sheet is taken as it is reported.
FetchUnconverted(y, zoya) ==
    CASE y.kind = "ETF" -> Fund(y, zoya)
      [] y.kind = "EQUITY" /\ y.cap > 0 /\ (y.foreign => y.rate) -> Reported(y)
      [] OTHER -> NoData

\* No answer for a company without a market capitalisation, nor for one that reports in
\* another currency when the rate is missing.  Debt, cash and revenue are converted; the
\* securities of the balance sheet and the impure income of the statements are not.
FetchYfinance(y, zoya) ==
    CASE y.kind = "ETF" -> Fund(y, zoya)
      [] y.kind = "EQUITY" /\ y.cap > 0 /\ (y.foreign => y.rate) ->
            [Reported(y) EXCEPT !.debt = Converted(y.debt, y), !.cash = Converted(y.cash, y),
                                !.revenue = Converted(y.revenue, y)]
      [] OTHER -> NoData

\* A profile of FMP has no statements and no slug; its amounts are taken as they come.
FmpProfile(y, fmp) ==
    [NoData EXCEPT !.kind = "EQUITY", !.cap = fmp.cap, !.debt = fmp.debt, !.cash = fmp.cash,
                   !.revenue = fmp.revenue,
                   !.business = IF y.business = "word" THEN "word" ELSE "clean"]

OrElse(n, m) == IF n = 0 THEN m ELSE n

\* What Yahoo has no figure for is filled in from FMP, or else from Alpha Vantage, whose
\* debt is the ratio of debt to equity taken for an amount.
Supplement(base, fmp, av) ==
    IF base.debt > 0 /\ base.cash > 0 /\ base.revenue > 0 THEN base
    ELSE IF fmp.known
    THEN [base EXCEPT !.debt = OrElse(@, fmp.debt), !.cash = OrElse(@, fmp.cash),
                      !.revenue = OrElse(@, fmp.revenue)]
    ELSE IF av.known
    THEN [base EXCEPT !.debt = OrElse(@, av.debt), !.revenue = OrElse(@, av.revenue)]
    ELSE base

FetchFinancialData(y, fmp, av, zoya) ==
    LET base == FetchYfinance(y, zoya) IN
    CASE base.kind = "ETF" -> base
      [] base.kind = "EQUITY" -> Supplement(base, fmp, av)
      [] y.kind = "MUTUALFUND" -> FetchMorningstar(y)
      [] OTHER -> IF fmp.known /\ fmp.cap > 0 THEN FmpProfile(y, fmp) ELSE NoData

----------------------------------------------------------------------------
PerMille(n, m) == IF m > 0 THEN (n * 1000) \div m ELSE 0

DebtLimit(buffer) == 300 - 10 * buffer
LiquidityLimit(buffer) == 300 - 10 * buffer

ImpureLimit(buffer) == IF 50 - 10 * buffer < 5 THEN 5 ELSE 50 - 10 * buffer

\* A negative buffer never loosens.
Tightening(buffer) == IF buffer < 0 THEN 0 ELSE buffer

\* Mutant: debt, cash and securities must all be missing.
GapsAllMissing(d) ==
    (IF d.cap <= 0 THEN {"market cap"} ELSE {})
        \cup (IF d.revenue <= 0 THEN {"revenue"} ELSE {})
        \cup (IF d.debt <= 0 /\ d.cash <= 0 /\ d.ibs <= 0 THEN {"debt"} ELSE {})

\* What cannot be determined.
Gaps(d) ==
    (IF d.cap <= 0 THEN {"market cap"} ELSE {})
        \cup (IF d.revenue <= 0 THEN {"revenue"} ELSE {})
        \cup (IF d.debt <= 0 THEN {"debt"} ELSE {})
        \cup (IF d.cash <= 0 /\ d.ibs <= 0 THEN {"liquidity"} ELSE {})

\* The AAOIFI limits it reaches; cash and interest-bearing securities count together.
Excesses(d, buffer) ==
    (IF PerMille(d.debt, d.cap) >= DebtLimit(buffer) THEN {"debt ratio"} ELSE {})
        \cup (IF PerMille(d.cash + d.ibs, d.cap) >= LiquidityLimit(buffer)
              THEN {"liquidity ratio"} ELSE {})
        \cup (IF PerMille(d.impure, d.revenue) >= ImpureLimit(buffer) THEN {"impure ratio"} ELSE {})

BusinessReasons(d) == IF d.business \in {"word", "slug"} THEN {"sector"} ELSE {}

\* Mutant: a negative buffer is taken as it is.
CheckUnclamped(d, buffer) == Gaps(d) \cup Excesses(d, buffer) \cup BusinessReasons(d) = {}

\* POST /screen: the ratio screen alone.
CheckShariahCompliance(d, buffer) ==
    Gaps(d) \cup Excesses(d, Tightening(buffer)) \cup BusinessReasons(d) = {}

\* Income statements that are absent leave the impure income undeterminable, unless a
\* certifier vouches for the company.
StatementGap(d, answer, buffer) ==
    IF ~d.statements /\ answer # "halal" /\ "impure ratio" \notin Excesses(d, buffer)
    THEN {"statements"} ELSE {}

RatioReasons(d, answer, buffer) ==
    Gaps(d) \cup Excesses(d, buffer) \cup StatementGap(d, answer, buffer)

\* Mutant: a certifier that vouches overrules the ratios.
CertifierDecides(d, answer, buffer) ==
    IF answer = "halal" THEN {} ELSE
    RatioReasons(d, answer, buffer)
        \cup IF answer \in {"haram", "doubtful"} THEN {"certifier"} ELSE {}

\* A certifier may tighten the verdict and never loosen it.
CertifierReasons(d, answer, buffer) ==
    LET ours == RatioReasons(d, answer, buffer) IN
    ours \cup IF ours = {} /\ answer \in {"haram", "doubtful"} THEN {"certifier"} ELSE {}

EquityReasons(d, answer, buffer) ==
    CertifierReasons(d, answer, buffer) \cup BusinessReasons(d)

CertifierVerdict(answer) ==
    CASE answer = "none" -> "UNKNOWN"
      [] answer = "halal" -> "COMPLIANT"
      [] answer = "doubtful" -> "DOUBTFUL"
      [] OTHER -> "NON_COMPLIANT"

\* _live_shariah_screen_uncached past the allowlists and the manual verifications.
ScreenBySources(d, answer, buffer) ==
    CASE d.kind = "none" -> CertifierVerdict(answer)
      [] d.kind = "ETF" -> IF d.certified THEN "COMPLIANT" ELSE "NON_COMPLIANT"
      [] d.kind = "MUTUALFUND" -> IF d.certified THEN "COMPLIANT" ELSE "UNKNOWN"
      [] OTHER -> IF EquityReasons(d, answer, Tightening(buffer)) = {}
                  THEN "COMPLIANT" ELSE "NON_COMPLIANT"

\* The allowlist, then a manual verification, then the sources.  An exception ends in the
\* default verdict of ComplianceStatus.
LiveShariahScreen(c, buffer) ==
    IF c.raises THEN "NON_COMPLIANT"
    ELSE IF c.allowlisted \/ c.verified THEN "COMPLIANT"
    ELSE ScreenBySources(FetchFinancialData(c.yahoo, c.fmp, c.av, c.zoya),
                         FetchShariahVerdict(c.zoya, c.musaffa), buffer)

\* vix_to_ratio_buffer, and the larger of it and the setting.
VixBuffer(vix) == IF vix < 20 THEN 0 ELSE IF vix < 30 THEN 2 ELSE 5
FallbackVix == 20
AuditBuffer(setting, vix) ==
    IF VixBuffer(vix) > setting THEN VixBuffer(vix) ELSE setting

----------------------------------------------------------------------------
Merged(c) == FetchFinancialData(c.yahoo, c.fmp, c.av, c.zoya)
Passes(c, buffer) == LiveShariahScreen(c, buffer) = "COMPLIANT"

\* No figure of the company's is made up: each comes from a source that has one.
Sourced(c) ==
    LET y == FetchYfinance(c.yahoo, c.zoya) IN
    /\ y.debt > 0 \/ (c.fmp.known /\ c.fmp.debt > 0) \/ (c.av.known /\ c.av.debt > 0)
    /\ y.revenue > 0 \/ (c.fmp.known /\ c.fmp.revenue > 0) \/ (c.av.known /\ c.av.revenue > 0)
    /\ y.cash + y.ibs > 0 \/ (c.fmp.known /\ c.fmp.cash > 0)

\* Below the limits of the standard, with no buffer to help.
WithinLimits(d) ==
    /\ 10 * d.debt < 3 * d.cap /\ 10 * (d.cash + d.ibs) < 3 * d.cap
    /\ 20 * d.impure < d.revenue

\* Whether the cap and the figures that are compared with it are in one currency: those of
\* a foreign reporter only where Yahoo has all three that it converts, so that none is
\* FMP's, and neither of the two that it does not.
InOneCurrency(c) ==
    LET y == c.yahoo IN
    y.foreign => /\ y.kind = "EQUITY" /\ y.cap > 0 /\ y.rate
                 /\ y.debt > 0 /\ y.cash > 0 /\ y.revenue > 0
                 /\ y.ibs = 0 /\ y.impure = 0

\* The figures as they are: a foreign reporter's at the rate, all of them, in tenths.
TrueFigures(c) ==
    LET y == c.yahoo IN
    IF ~y.foreign THEN Merged(c)
    ELSE [Merged(c) EXCEPT !.cap = 10 * y.cap, !.debt = y.worth * y.debt,
                           !.cash = y.worth * y.cash, !.ibs = y.worth * y.ibs,
                           !.revenue = y.worth * y.revenue, !.impure = y.worth * y.impure]

\* COMPLIANCE.md's fail-closed rule, for a company that was not allowed by hand: whatever
\* the sources leave out, and in whichever order they are merged, only one whose figures
\* exist, keep the limits and meet no objection passes, a foreign reporter's among them
\* where they were all converted; POST /screen, which writes the rules a second time,
\* passes no figures that are missing or beyond them either.
FailsClosed(c, buffer) ==
    LET d == Merged(c)
        live == Passes(c, buffer) /\ ~c.allowlisted /\ ~c.verified
        posted == CheckShariahCompliance(d, buffer)
    IN
    /\ d.kind = "EQUITY" /\ (live \/ posted) =>
          Sourced(c) /\ (InOneCurrency(c) => WithinLimits(TrueFigures(c)))
    /\ d.kind = "EQUITY" /\ live =>
          /\ d.business \notin {"word", "slug"}
          /\ {c.zoya, c.musaffa} \cap {"haram", "doubtful"} = {}
          /\ d.statements \/ "halal" \in {c.zoya, c.musaffa}
    /\ d.kind = "ETF" /\ live => c.zoya \notin {"haram", "doubtful"}

\* data_fetcher.py:547, "For ADRs of foreign companies [...] this inflates ratios by the FX
\* factor. Convert to trading currency.": a foreign reporter with all its figures passes
\* only within the limits.
ForeignKeepsLimits(c, buffer) ==
    c.yahoo.foreign /\ Merged(c).kind = "EQUITY" /\ c.yahoo.kind = "EQUITY"
      /\ Passes(c, buffer) /\ ~c.allowlisted /\ ~c.verified
        => WithinLimits(TrueFigures(c))

\* Buffers and certifiers tighten and never loosen: what passes under a buffer, negative
\* ones included, passes without one; and a company whose statements are there and that
\* passes with certifiers passes without them.
NothingLoosens(c, buffer) ==
    Passes(c, buffer) =>
        /\ Passes(c, 0)
        /\ Merged(c).kind = "EQUITY" /\ Merged(c).statements
              => Passes([c EXCEPT !.zoya = "none", !.musaffa = "none"], buffer)
============================================================================
