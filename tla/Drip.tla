--------------------------------- MODULE Drip ---------------------------------
(***************************************************************************)
(* halal_drip_loop over one holding: the dividends of the past twelve      *)
(* months per share, times the shares held now, less what drip_state.json  *)
(* says was reinvested, buys more of it.  Amounts are whole dividends of   *)
(* one share; purification, min_trade_size and the price only make the     *)
(* order smaller and are left out.                                         *)
(***************************************************************************)
EXTENDS Integers

CONSTANTS
    MaxShares,
    MaxPerShare,   \* bound on the dividends of twelve months
    MaxReceived,   \* bound on all that are ever paid
    MaxSlips       \* bound on the BUYs and entries that the ledger loses

ASSUME DripAssumption ==
    /\ MaxShares \in Nat /\ MaxPerShare \in Nat /\ MaxReceived \in Nat /\ MaxSlips \in Nat

VARIABLES
    shares,        \* what is held
    perShare,      \* ticker.dividends.past12Months
    ledger,        \* the symbol's entry in drip_state.json
    drip,          \* where the loop is
    dues,          \* total_received and already_reinvested as it read them
    unfilled,      \* BUYs it sent that have not executed
    reinvested,    \* amount of all BUYs that reached the broker
    received,      \* amount of all dividends paid on what was held
    slips          \* BUYs sent and not booked, entries written over: a history only

dripVars == <<shares, perShare, ledger, drip, dues, unfilled, reinvested, received, slips>>

MaxTotal == MaxShares * MaxPerShare
NoDues == [total |-> 0, already |-> 0]

DripTypeOK ==
    /\ shares \in 0..MaxShares /\ perShare \in 0..MaxPerShare
    /\ ledger \in 0..MaxTotal
    /\ drip \in {"asleep", "read", "sent"}
    /\ dues \in [total : 0..MaxTotal, already : 0..MaxTotal]
    /\ unfilled \in Nat /\ reinvested \in Nat /\ received \in Nat
    /\ slips \in Nat

DripInit ==
    /\ shares = 0 /\ perShare = 0
    /\ ledger = 0 /\ drip = "asleep" /\ dues = NoDues
    /\ unfilled = 0 /\ reinvested = 0 /\ received = 0
    /\ slips = 0

Unreinvested == dues.total - dues.already

MaySlip == slips < MaxSlips
Slip == slips' = slips + 1

\* Every six hours; a drip_state.json that cannot be read is taken for an empty one.  The
\* screen, the session and the price are awaited after it.
ReadDues ==
    /\ drip = "asleep" /\ shares > 0
    /\ \E already \in {ledger} \cup (IF MaySlip THEN {0} ELSE {}) :
          dues' = [total |-> perShare * shares, already |-> already]
    /\ drip' = "read"
    /\ UNCHANGED <<shares, perShare, ledger, unfilled, reinvested, received, slips>>

\* Nothing new, a closed market, or a BUY that was refused or failed.
SkipDues ==
    /\ drip = "read"
    /\ drip' = "asleep" /\ dues' = NoDues
    /\ UNCHANGED <<shares, perShare, ledger, unfilled, reinvested, received, slips>>

SendDrip ==
    /\ drip = "read" /\ Unreinvested > 0
    /\ reinvested' = reinvested + Unreinvested
    /\ unfilled' = unfilled + 1
    /\ drip' = "sent"
    /\ UNCHANGED <<shares, perShare, ledger, dues, received, slips>>

\* Mutant: the entry is what was bought, not the sum of it.
SaveDuesBare ==
    /\ drip = "sent"
    /\ ledger' = Unreinvested
    /\ drip' = "asleep" /\ dues' = NoDues
    /\ UNCHANGED <<shares, perShare, unfilled, reinvested, received, slips>>

\* FILLED, SUBMITTED, or still PRE_ORDER: the entry counts it as reinvested, over the one
\* in the file if that was not read.
SaveDues ==
    /\ drip = "sent"
    /\ ledger' = dues.already + Unreinvested
    /\ IF dues.already = ledger THEN UNCHANGED slips ELSE Slip
    /\ drip' = "asleep" /\ dues' = NoDues
    /\ UNCHANGED <<shares, perShare, unfilled, reinvested, received>>

\* The BUY is at the broker and has no entry.
Unbooked ==
    /\ drip = "sent" /\ MaySlip /\ Slip
    /\ drip' = "asleep" /\ dues' = NoDues
    /\ UNCHANGED <<shares, perShare, ledger, unfilled, reinvested, received>>

\* The wait for its acknowledgement raises: the trade ends IBKR_ERROR.
DripErrs == Unbooked

\* The file cannot be written: the cycle ends, the old one stays.
SaveFails == Unbooked

DripDies ==
    \/ Unbooked
    \/ SkipDues

\* In a cycle that could not read the file, another holding is booked, and the file
\* written without this one's entry.
OthersSave ==
    /\ ledger > 0 /\ MaySlip
    /\ drip # "asleep" => dues.already = 0
    /\ ledger' = 0 /\ Slip
    /\ UNCHANGED <<shares, perShare, drip, dues, unfilled, reinvested, received>>

----------------------------------------------------------------------------
DripFills ==
    /\ unfilled > 0 /\ unfilled' = unfilled - 1
    /\ shares' \in {shares, shares + 1} \cap (0..MaxShares)
    /\ UNCHANGED <<perShare, ledger, drip, dues, reinvested, received, slips>>

DripCancelled ==
    /\ unfilled > 0 /\ unfilled' = unfilled - 1
    /\ UNCHANGED <<shares, perShare, ledger, drip, dues, reinvested, received, slips>>

\* The account buys or sells for other reasons.
TradeShares ==
    /\ shares' \in {shares - 1, shares + 1} \cap (0..MaxShares)
    /\ UNCHANGED <<perShare, ledger, drip, dues, unfilled, reinvested, received, slips>>

DividendPaid ==
    /\ perShare < MaxPerShare /\ perShare' = perShare + 1
    /\ received + shares <= MaxReceived /\ received' = received + shares
    /\ UNCHANGED <<shares, ledger, drip, dues, unfilled, reinvested, slips>>

\* One leaves the twelve months.
DividendAges ==
    /\ perShare > 0 /\ perShare' = perShare - 1
    /\ UNCHANGED <<shares, ledger, drip, dues, unfilled, reinvested, received, slips>>

DripNext ==
    \/ ReadDues \/ SkipDues \/ SendDrip \/ SaveDues
    \/ DripErrs \/ SaveFails \/ DripDies \/ OthersSave
    \/ DripFills \/ DripCancelled \/ TradeShares \/ DividendPaid \/ DividendAges

DripSpec == DripInit /\ [][DripNext]_dripVars

----------------------------------------------------------------------------
\* No amount is reinvested twice but where the ledger slips: what was sent is what the
\* ledger says, plus the BUY in hand, whatever was bought, sold, paid or dropped from the
\* twelve months in between.  A BUY that ends in an error or a death before its entry, an
\* entry that cannot be saved, or one written over by a cycle that could not read it, each
\* costs at most the dividends of twelve months once more.
LedgerCovers ==
    LET booked == ledger + IF drip = "sent" THEN Unreinvested ELSE 0 IN
    booked <= reinvested /\ reinvested <= booked + slips * MaxTotal

\* alerts of the loop and HOW_THE_BOT_WORKS.md:133, "Reinvest dividends": what is
\* reinvested was received.
OnlyReceived == reinvested <= received
=============================================================================
