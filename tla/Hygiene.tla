---- MODULE Hygiene ----
(***************************************************************************)
(* src/utils/hygiene.py: the certificate that a result needs before it is  *)
(* reported.  Each check looks in the data for the trace that a step left  *)
(* out would leave.                                                        *)
(*                                                                         *)
(* A row is [fiscal_year, fiscal_quarter, operating_cash_flow, month_end]  *)
(* of one company, where month_end tells whether its report date is the    *)
(* last day of a month; prices is the set of prices of all bars.           *)
(***************************************************************************)
EXTENDS Integers, FiniteSets

CONSTANT MIN_FIRM_YEARS

\* The firm-years with three quarters or more.
CompleteYears(rows) ==
    {series \in {{r \in rows : r.fiscal_year = year} : year \in {r.fiscal_year : r \in rows}} :
       Cardinality(series) >= 3}

\* Each quarter above the one before it, of those on file.
Rising(series) ==
    \A r, s \in series :
       r.fiscal_quarter < s.fiscal_quarter => r.operating_cash_flow < s.operating_cash_flow

PricesAbsoluteValued(prices) == prices # {} /\ \A p \in prices : p > 0

FundamentalsLaggedToRdq(rows) == 2 * Cardinality({r \in rows : r.month_end}) <= Cardinality(rows)

\* A slip of YtdItemsDifferenced, for the runs to refute.
TooFewAreFine(rows) ==
    2 * Cardinality({s \in CompleteYears(rows) : Rising(s)}) <= Cardinality(CompleteYears(rows))

YtdItemsDifferenced(rows) ==
    rows # {} =>
      /\ Cardinality(CompleteYears(rows)) >= MIN_FIRM_YEARS
      /\ 2 * Cardinality({s \in CompleteYears(rows) : Rising(s)}) <= Cardinality(CompleteYears(rows))

CcmLinkFiltered(usable, rejected) == usable + rejected > 0 => 2 * rejected >= usable + rejected

\* The verdicts; require_clean lets results out when none is FALSE.
Certify(prices, fundamentals, merged, usable, rejected) ==
    [prices_absolute_valued     |-> PricesAbsoluteValued(prices),
     delisting_returns_merged   |-> merged,
     fundamentals_lagged_to_rdq |-> FundamentalsLaggedToRdq(fundamentals),
     ytd_items_differenced      |-> YtdItemsDifferenced(fundamentals),
     ccm_link_filtered          |-> CcmLinkFiltered(usable, rejected)]

RequireClean(certificate) == \A check \in DOMAIN certificate : certificate[check]
====
