---------------------------- MODULE Background_proofs ----------------------------
(***************************************************************************)
(* What is proved of the parts that run beside the trading loops, for any  *)
(* number of rows, shares and dividends and whatever the sources report:   *)
(* a safe mode means tampering, what was reinvested is what the ledger     *)
(* says but for what each slip of it costs, the screening cache does not   *)
(* outlive a manual verification that was taken back, and the screen fails *)
(* closed for all figures in one currency and all buffers.  Each part's    *)
(* invariant is proved over the part's own steps, and in the end over the  *)
(* composition's.                                                          *)
(***************************************************************************)
EXTENDS MCBackground, Hawl_proofs, SequenceTheorems, TLAPS

----------------------------------------------------------------------------
\* The audit chain.

\* The hash a new row names is one.
LEMMA HashTypes ==
    ASSUME NEW rows \in Seq(Rows), NEW i \in 0..Len(rows)
    PROVE  HashAt(rows, i) \in Nat
<1>1. CASE i = 0
  BY <1>1 DEF HashAt, GENESIS
<1>2. CASE i # 0
  <2>1. rows[i] \in Rows
    BY <1>2, ElementOfSeq
  <2>2. QED
    BY <1>2, <2>1 DEF HashAt, Rows
<1>3. QED
  BY <1>1, <1>2

\* A log without one of its rows is a log.
LEMMA RemovedTypes ==
    ASSUME NEW rows \in Seq(Rows), NEW i \in 1..Len(rows)
    PROVE  /\ SubSeq(rows, 1, i - 1) \in Seq(Rows)
           /\ SubSeq(rows, 1, i - 1) \o SubSeq(rows, i + 1, Len(rows)) \in Seq(Rows)
<1>1. Len(rows) \in Nat
  BY LenProperties
<1>2. \A j \in 1..Len(rows) : rows[j] \in Rows
  BY ElementOfSeq
<1>3. SubSeq(rows, 1, i - 1) \in Seq(Rows)
  <2>1. \A j \in 1..(i - 1) : rows[j] \in Rows
    BY <1>1, <1>2
  <2>2. 1 \in Int /\ i - 1 \in Int
    OBVIOUS
  <2>3. QED
    BY <2>1, <2>2, SubSeqProperties
<1>4. SubSeq(rows, i + 1, Len(rows)) \in Seq(Rows)
  <2>1. \A j \in (i + 1)..Len(rows) : rows[j] \in Rows
    BY <1>1, <1>2
  <2>2. i + 1 \in Int /\ Len(rows) \in Int
    BY <1>1
  <2>3. QED
    BY <2>1, <2>2, SubSeqProperties
<1>5. QED
  BY <1>3, <1>4, ConcatProperties

\* A row that names the last hash keeps the chain.
LEMMA AppendedHolds ==
    ASSUME NEW rows \in Seq(Rows), NEW row \in Rows,
           verify_audit_chain(rows), row.sound, row.previous = HashAt(rows, Len(rows))
    PROVE  verify_audit_chain(Append(rows, row))
<1> DEFINE longer == Append(rows, row)
<1>1. Len(rows) \in Nat /\ Len(longer) = Len(rows) + 1
  BY LenProperties, AppendProperties
<1>2. \A i \in 1..Len(rows) : longer[i] = rows[i]
  BY AppendProperties
<1>3. longer[Len(rows) + 1] = row
  BY AppendProperties
<1> HIDE DEF longer
<1>4. \A i \in 0..Len(rows) : HashAt(longer, i) = HashAt(rows, i)
  BY <1>1, <1>2 DEF HashAt
<1>5. ASSUME NEW i \in 1..Len(longer)
      PROVE  longer[i].sound /\ longer[i].previous = HashAt(longer, i - 1)
  <2>1. i - 1 \in 0..Len(rows)
    BY <1>1
  <2>2. HashAt(longer, i - 1) = HashAt(rows, i - 1)
    BY <1>4, <2>1
  <2>3. CASE i \in 1..Len(rows)
    BY <1>2, <2>2, <2>3 DEF verify_audit_chain
  <2>4. CASE i = Len(rows) + 1
    <3>1. i - 1 = Len(rows)
      BY <1>1, <2>4
    <3>2. QED
      BY <1>3, <2>2, <2>4, <3>1
  <2>5. QED
    BY <1>1, <2>3, <2>4
<1>6. verify_audit_chain(longer)
  BY <1>5 DEF verify_audit_chain
<1>7. QED
  BY <1>6 DEF longer

\* So does a log that lost its last row.
LEMMA ShortenedHolds ==
    ASSUME NEW rows \in Seq(Rows), NEW i \in 1..Len(rows), ~(i < Len(rows)),
           verify_audit_chain(rows)
    PROVE  verify_audit_chain(SubSeq(rows, 1, i - 1) \o SubSeq(rows, i + 1, Len(rows)))
<1> DEFINE shorter == SubSeq(rows, 1, i - 1)
<1>1. Len(rows) \in Nat
  BY LenProperties
<1>2. shorter \o SubSeq(rows, i + 1, Len(rows)) = shorter
  <2>1. Len(rows) < i + 1 /\ i + 1 \in Int /\ Len(rows) \in Int
    BY <1>1
  <2>2. SubSeq(rows, i + 1, Len(rows)) = <<>>
    BY <2>1, SubSeqEmpty
  <2>3. shorter \in Seq(Rows)
    BY RemovedTypes
  <2>4. QED
    BY <2>2, <2>3, ConcatEmptySeq
<1>3. Len(shorter) = i - 1 /\ \A j \in 1..(i - 1) : shorter[j] = rows[j]
  <2>1. \A j \in 1..(i - 1) : rows[j] \in Rows
    BY <1>1, ElementOfSeq
  <2>2. /\ Len(shorter) = IF 1 <= i - 1 THEN (i - 1) - 1 + 1 ELSE 0
        /\ \A j \in 1..((i - 1) - 1 + 1) : shorter[j] = rows[1 + j - 1]
    <3>1. 1 \in Int /\ i - 1 \in Int
      OBVIOUS
    <3>2. QED
      BY <2>1, <3>1, SubSeqProperties
  <2>3. QED
    BY <2>2
<1> HIDE DEF shorter
<1>4. \A j \in 0..(i - 1) : HashAt(shorter, j) = HashAt(rows, j)
  BY <1>3 DEF HashAt
<1>5. ASSUME NEW j \in 1..Len(shorter)
      PROVE  shorter[j].sound /\ shorter[j].previous = HashAt(shorter, j - 1)
  <2>1. j \in 1..(i - 1) /\ j - 1 \in 0..(i - 1) /\ j \in 1..Len(rows)
    BY <1>1, <1>3
  <2>2. rows[j].sound /\ rows[j].previous = HashAt(rows, j - 1)
    BY <2>1 DEF verify_audit_chain
  <2>3. shorter[j] = rows[j] /\ HashAt(shorter, j - 1) = HashAt(rows, j - 1)
    BY <1>3, <1>4, <2>1
  <2>4. QED
    BY <2>2, <2>3
<1>6. verify_audit_chain(shorter)
  BY <1>5 DEF verify_audit_chain
<1>7. QED
  BY <1>2, <1>6 DEF shorter

LEMMA LoggedTypes ==
    ASSUME ChainTypeOK, secure_log_entry
    PROVE  /\ log' \in Seq(Rows) /\ logged' \in Nat
           /\ verify_audit_chain(log) => verify_audit_chain(log')
<1> DEFINE row == [hash |-> logged + 1, previous |-> HashAt(log, Len(log)), sound |-> TRUE]
<1>1. Len(log) \in 0..Len(log)
  BY LenProperties DEF ChainTypeOK
<1>2. HashAt(log, Len(log)) \in Nat
  BY <1>1, HashTypes DEF ChainTypeOK
<1>3. logged + 1 \in Nat \ {GENESIS}
  BY DEF ChainTypeOK, GENESIS
<1>4. row \in Rows
  BY <1>2, <1>3 DEF Rows
<1>5. log' = Append(log, row) /\ logged' = logged + 1
  BY DEF secure_log_entry
<1>6. row.sound /\ row.previous = HashAt(log, Len(log))
  OBVIOUS
<1> HIDE DEF row
<1>7. log' \in Seq(Rows)
  BY <1>4, <1>5, AppendProperties DEF ChainTypeOK
<1>8. verify_audit_chain(log) => verify_audit_chain(log')
  BY <1>4, <1>5, <1>6, AppendedHolds DEF ChainTypeOK
<1>9. QED
  BY <1>5, <1>7, <1>8 DEF ChainTypeOK

\* The log keeps its type, it verifies until somebody tampers, and the alarm is raised by
\* a log that does not.
ChainInv == ChainTypeOK /\ ChainHolds /\ AlarmIsTrue

LEMMA ChainBegins == ChainInit => ChainInv
<1> SUFFICES ASSUME ChainInit PROVE ChainInv
  OBVIOUS
<1>1. log \in Seq(Rows) /\ Len(log) = 0
  BY EmptySeq DEF ChainInit
<1>2. verify_audit_chain(log)
  BY <1>1 DEF verify_audit_chain
<1>3. QED
  BY <1>1, <1>2 DEF ChainInit, ChainInv, ChainTypeOK, ChainHolds, AlarmIsTrue

LEMMA ChainStep == ChainInv /\ [ChainNext]_chainVars => ChainInv'
<1> SUFFICES ASSUME ChainInv, [ChainNext]_chainVars PROVE ChainInv'
  OBVIOUS
<1>0. ChainTypeOK /\ ChainHolds /\ AlarmIsTrue
  BY DEF ChainInv
<1>1. CASE LoggedTrade
  <2>1. secure_log_entry /\ working' \in BOOLEAN /\ UNCHANGED <<reachable, guard, tampered>>
    BY <1>0, <1>1 DEF LoggedTrade, ChainTypeOK
  <2>2. ChainTypeOK'
    BY <1>0, <2>1, LoggedTypes DEF ChainTypeOK
  <2>3. ChainHolds'
    BY <1>0, <2>1, LoggedTypes DEF ChainHolds
  <2>4. QED
    BY <1>0, <2>1, <2>2, <2>3 DEF ChainInv, AlarmIsTrue
<1>2. CASE ChangeRow
  <2>1. PICK i \in 1..Len(log) : log' = [log EXCEPT ![i] = [log[i] EXCEPT !.sound = FALSE]]
    BY <1>2 DEF ChangeRow
  <2>2. log[i] \in Rows
    BY <1>0, ElementOfSeq DEF ChainTypeOK
  <2>3. [log[i] EXCEPT !.sound = FALSE] \in Rows
    BY <2>2 DEF Rows
  <2>4. log' \in Seq(Rows)
    BY <1>0, <2>1, <2>3, ExceptSeq DEF ChainTypeOK
  <2>5. tampered' = TRUE /\ UNCHANGED <<logged, working, reachable, guard>>
    BY <1>2 DEF ChangeRow
  <2>6. QED
    BY <1>0, <2>4, <2>5 DEF ChainInv, ChainTypeOK, ChainHolds, AlarmIsTrue
<1>3. CASE RemoveRow
  <2>1. PICK i \in 1..Len(log) :
           /\ log' = SubSeq(log, 1, i - 1) \o SubSeq(log, i + 1, Len(log))
           /\ tampered' = (tampered \/ i < Len(log))
    BY <1>3 DEF RemoveRow
  <2>2. log' \in Seq(Rows)
    BY <1>0, <2>1, RemovedTypes DEF ChainTypeOK
  <2>3. tampered' \in BOOLEAN /\ (tampered => tampered')
        /\ (~tampered' => ~tampered /\ ~(i < Len(log)))
    BY <2>1, Zenon
  <2>4. UNCHANGED <<logged, working, reachable, guard>>
    BY <1>3 DEF RemoveRow
  <2>5. ChainTypeOK'
    BY <1>0, <2>2, <2>3, <2>4 DEF ChainTypeOK
  <2>6. ChainHolds'
    BY <1>0, <2>1, <2>3, ShortenedHolds DEF ChainHolds, ChainTypeOK
  <2>7. AlarmIsTrue'
    BY <1>0, <2>3, <2>4 DEF AlarmIsTrue
  <2>8. QED
    BY <2>5, <2>6, <2>7 DEF ChainInv
<1>4. CASE VerifyFinds
  <2>1. tampered
    BY <1>0, <1>4 DEF VerifyFinds, ChainHolds
  <2>2. UNCHANGED <<log, logged, reachable, tampered>> /\ guard' = "safe"
        /\ working' = (working /\ ~reachable)
    BY <1>4 DEF VerifyFinds
  <2>3. working' \in BOOLEAN
    BY <1>0, <2>2 DEF ChainTypeOK
  <2>4. QED
    BY <1>0, <2>1, <2>2, <2>3 DEF ChainInv, ChainTypeOK, ChainHolds, AlarmIsTrue
<1>5. CASE OrdersEnd
  BY <1>0, <1>5 DEF OrdersEnd, ChainInv, ChainTypeOK, ChainHolds, AlarmIsTrue
<1>6. CASE LoseOrRegain
  BY <1>0, <1>6 DEF LoseOrRegain, ChainInv, ChainTypeOK, ChainHolds, AlarmIsTrue
<1>7. CASE RestartGuard
  BY <1>0, <1>7 DEF RestartGuard, ChainInv, ChainTypeOK, ChainHolds, AlarmIsTrue
<1>8. CASE UNCHANGED chainVars
  BY <1>0, <1>8 DEF chainVars, ChainInv, ChainTypeOK, ChainHolds, AlarmIsTrue
<1>9. QED
  BY <1>1, <1>2, <1>3, <1>4, <1>5, <1>6, <1>7, <1>8 DEF ChainNext

\* SAFE MODE is entered for tampering alone, however many trades are logged.
THEOREM AlarmsAreTrue == ChainSpec => []AlarmIsTrue
<1>1. ChainInv => AlarmIsTrue
  BY DEF ChainInv
<1>2. QED
  BY <1>1, ChainBegins, ChainStep, PTL DEF ChainSpec

----------------------------------------------------------------------------
\* The DRIP loop.

LEMMA DripTypesInit == DripInit => DripTypeOK
<1>1. MaxTotal \in Nat
  BY DripAssumption DEF MaxTotal
<1>2. NoDues \in [total : 0..MaxTotal, already : 0..MaxTotal]
  BY <1>1 DEF NoDues
<1>3. 0 \in 0..MaxShares /\ 0 \in 0..MaxPerShare /\ 0 \in 0..MaxTotal /\ 0 \in Nat
  BY <1>1, DripAssumption
<1> QED BY <1>2, <1>3 DEF DripInit, DripTypeOK

\* The dividends of all shares are no more than the bounds allow.
LEMMA DuesBounded ==
    ASSUME NEW m \in 0..MaxPerShare, NEW n \in 0..MaxShares
    PROVE  m * n \in 0..MaxTotal
<1> USE DripAssumption
<1>1. m * n \in Nat /\ MaxPerShare * n \in Nat /\ MaxTotal \in Nat
  BY DEF MaxTotal
<1>2. m * n <= MaxPerShare * n
  OBVIOUS
<1>3. MaxPerShare * n <= MaxPerShare * MaxShares
  OBVIOUS
<1>4. MaxTotal = MaxPerShare * MaxShares
  BY DEF MaxTotal
<1> QED BY <1>1, <1>2, <1>3, <1>4

LEMMA DripTypesStep == DripTypeOK /\ [DripNext]_dripVars => DripTypeOK'
<1> SUFFICES ASSUME DripTypeOK, [DripNext]_dripVars PROVE DripTypeOK'
  OBVIOUS
<1> USE DripAssumption DEF DripTypeOK
<1>0. MaxTotal \in Nat /\ NoDues \in [total : 0..MaxTotal, already : 0..MaxTotal]
  BY DEF MaxTotal, NoDues
<1>u. /\ dues.total \in 0..MaxTotal /\ dues.already \in 0..MaxTotal
      /\ Unreinvested \in Int
      /\ dues.already + Unreinvested = dues.total
  BY <1>0 DEF Unreinvested
<1>1. CASE ReadDues
  <2>1. perShare * shares \in 0..MaxTotal
    BY DuesBounded
  <2>2. PICK already \in {ledger, 0} : dues' = [total |-> perShare * shares, already |-> already]
    BY <1>1 DEF ReadDues
  <2>3. dues' \in [total : 0..MaxTotal, already : 0..MaxTotal]
    BY <1>0, <2>1, <2>2
  <2> QED BY <1>1, <2>3 DEF ReadDues
<1>2. CASE SkipDues
  BY <1>0, <1>2 DEF SkipDues
<1>3. CASE SendDrip
  <2>1. reinvested' \in Nat /\ unfilled' \in Nat
    BY <1>3, <1>u DEF SendDrip
  <2> QED BY <1>3, <2>1 DEF SendDrip
<1>4. CASE SaveDues
  <2>1. ledger' \in 0..MaxTotal /\ slips' \in Nat
    BY <1>4, <1>u DEF SaveDues, Slip
  <2> QED BY <1>0, <1>4, <2>1 DEF SaveDues
<1>5. CASE Unbooked \/ OthersSave
  <2>1. slips' \in Nat /\ ledger' \in 0..MaxTotal
    BY <1>0, <1>5 DEF Unbooked, OthersSave, Slip
  <2> QED BY <1>0, <1>5, <2>1 DEF Unbooked, OthersSave
<1>6. CASE DripFills \/ DripCancelled
  <2>1. unfilled' \in Nat /\ shares' \in 0..MaxShares
    BY <1>6 DEF DripFills, DripCancelled
  <2> QED BY <1>6, <2>1 DEF DripFills, DripCancelled
<1>7. CASE TradeShares
  BY <1>7 DEF TradeShares
<1>8. CASE DividendPaid \/ DividendAges
  <2>1. perShare' \in 0..MaxPerShare /\ received' \in Nat
    BY <1>8 DEF DividendPaid, DividendAges
  <2> QED BY <1>8, <2>1 DEF DividendPaid, DividendAges
<1>9. CASE UNCHANGED dripVars
  BY <1>9 DEF dripVars
<1> QED BY <1>1, <1>2, <1>3, <1>4, <1>5, <1>6, <1>7, <1>8, <1>9
        DEF DripNext, DripErrs, SaveFails, DripDies

\* What the ledger says, and the BUY in hand.
Booked == ledger + IF drip = "sent" THEN Unreinvested ELSE 0

\* What LedgerCovers rests on: the entry the loop read is still the ledger's, or none, and a
\* BUY is for something.
DripInv ==
    /\ DripTypeOK
    /\ drip # "asleep" => dues.already \in {ledger, 0}
    /\ drip = "sent" => Unreinvested > 0
    /\ LedgerCovers

LEMMA DripBegins == DripInit => DripInv
<1>1. SUFFICES ASSUME DripInit PROVE DripInv
  OBVIOUS
<1>2. MaxTotal \in Nat /\ 0 * MaxTotal = 0
  BY DripAssumption DEF MaxTotal
<1>3. LedgerCovers
  BY <1>1, <1>2 DEF DripInit, LedgerCovers
<1>4. QED
  BY <1>1, <1>3, DripTypesInit DEF DripInit, DripInv

\* One slip more allows the dividends of twelve months more.
LEMMA OneMoreSlip ==
    ASSUME NEW n \in Nat
    PROVE  n * MaxTotal \in Nat /\ (n + 1) * MaxTotal = n * MaxTotal + MaxTotal
BY DripAssumption DEF MaxTotal

LEMMA DripStep == DripInv /\ [DripNext]_dripVars => DripInv'
<1> SUFFICES ASSUME DripInv, [DripNext]_dripVars PROVE DripInv'
  OBVIOUS
<1>t. DripTypeOK /\ DripTypeOK'
  BY DripTypesStep DEF DripInv
<1> DEFINE lost == slips * MaxTotal
<1>n. /\ MaxTotal \in Nat /\ lost \in Nat
      /\ slips' = slips => lost' = lost
      /\ slips' = slips + 1 => lost' = lost + MaxTotal
  <2>1. slips \in Nat /\ MaxTotal \in Nat /\ UNCHANGED MaxTotal
    BY <1>t, DripAssumption DEF DripTypeOK, MaxTotal
  <2>2. slips * MaxTotal \in Nat /\ (slips + 1) * MaxTotal = slips * MaxTotal + MaxTotal
    BY <2>1, OneMoreSlip
  <2>3. QED
    BY <2>1, <2>2
<1>u. /\ ledger \in 0..MaxTotal /\ reinvested \in Nat
      /\ dues.already \in 0..MaxTotal /\ dues.total \in 0..MaxTotal
      /\ Unreinvested \in Int /\ Unreinvested <= MaxTotal
      /\ dues.already + Unreinvested = dues.total
  BY <1>t, <1>n DEF DripTypeOK, Unreinvested
<1>c. /\ Booked <= reinvested /\ reinvested <= Booked + lost
      /\ Booked \in Int
  BY <1>u DEF DripInv, LedgerCovers, Booked
<1>p. Booked' <= reinvested' /\ reinvested' <= Booked' + lost' => LedgerCovers'
  BY DEF Booked, LedgerCovers, MaxTotal
<1> HIDE DEF lost
<1>1. CASE ReadDues
  <2>1. /\ dues'.already \in {ledger, 0} /\ drip' = "read" /\ drip = "asleep"
        /\ UNCHANGED <<ledger, reinvested, slips>>
    BY <1>1 DEF ReadDues
  <2>2. LedgerCovers'
    BY <1>c, <1>n, <1>p, <2>1 DEF Booked
  <2>3. QED
    BY <1>t, <2>1, <2>2 DEF DripInv
<1>2. CASE SkipDues
  <2>1. drip = "read" /\ drip' = "asleep" /\ UNCHANGED <<ledger, reinvested, slips>>
    BY <1>2 DEF SkipDues
  <2>2. LedgerCovers'
    BY <1>c, <1>n, <1>p, <2>1 DEF Booked
  <2>3. QED
    BY <1>t, <2>1, <2>2 DEF DripInv
<1>3. CASE SendDrip
  <2>1. /\ reinvested' = reinvested + Unreinvested /\ drip = "read" /\ drip' = "sent"
        /\ Unreinvested > 0 /\ UNCHANGED <<ledger, dues, slips>>
    BY <1>3 DEF SendDrip
  <2>2. Unreinvested' = Unreinvested
    BY <2>1 DEF Unreinvested
  <2>3. Booked' = Booked + Unreinvested
    BY <1>u, <2>1, <2>2 DEF Booked
  <2>4. LedgerCovers'
    BY <1>c, <1>n, <1>p, <1>u, <2>1, <2>3
  <2>5. QED
    BY <1>t, <2>1, <2>2, <2>4 DEF DripInv
<1>4. CASE SaveDues
  <2>1. /\ ledger' = dues.already + Unreinvested /\ drip = "sent" /\ drip' = "asleep"
        /\ reinvested' = reinvested
        /\ slips' = IF dues.already = ledger THEN slips ELSE slips + 1
    BY <1>4 DEF SaveDues, Slip
  <2>2. Booked = ledger + Unreinvested /\ Booked' = dues.already + Unreinvested
    BY <1>u, <2>1 DEF Booked
  <2>3. CASE dues.already = ledger
    BY <1>c, <1>n, <1>p, <1>t, <2>1, <2>2, <2>3 DEF DripInv
  <2>4. CASE dues.already # ledger
    <3>1. dues.already = 0 /\ slips' = slips + 1
      BY <2>1, <2>4 DEF DripInv
    <3>2. LedgerCovers'
      BY <1>c, <1>n, <1>p, <1>u, <2>1, <2>2, <3>1
    <3>3. QED
      BY <1>t, <2>1, <3>2 DEF DripInv
  <2>5. QED
    BY <2>3, <2>4
<1>5. CASE Unbooked
  <2>1. /\ drip = "sent" /\ drip' = "asleep" /\ slips' = slips + 1
        /\ UNCHANGED <<ledger, reinvested>>
    BY <1>5 DEF Unbooked, Slip
  <2>2. Booked = ledger + Unreinvested /\ Booked' = ledger /\ Unreinvested > 0
    BY <1>u, <2>1 DEF Booked, DripInv
  <2>3. LedgerCovers'
    BY <1>c, <1>n, <1>p, <1>u, <2>1, <2>2
  <2>4. QED
    BY <1>t, <2>1, <2>3 DEF DripInv
<1>6. CASE OthersSave
  <2>1. /\ ledger' = 0 /\ slips' = slips + 1
        /\ drip # "asleep" => dues.already = 0
        /\ UNCHANGED <<drip, dues, reinvested>>
    BY <1>6 DEF OthersSave, Slip
  <2>2. Unreinvested' = Unreinvested
    BY <2>1 DEF Unreinvested
  <2>3. Booked' = Booked - ledger
    BY <1>u, <2>1, <2>2 DEF Booked
  <2>4. LedgerCovers'
    BY <1>c, <1>n, <1>p, <1>u, <2>1, <2>3
  <2>5. QED
    BY <1>t, <2>1, <2>2, <2>4 DEF DripInv
<1>7. CASE UNCHANGED <<ledger, drip, dues, reinvested, slips>>
  <2>1. Unreinvested' = Unreinvested
    BY <1>7 DEF Unreinvested
  <2>2. LedgerCovers'
    BY <1>7, <1>c, <1>n, <1>p, <2>1 DEF Booked
  <2>3. QED
    BY <1>7, <1>t, <2>1, <2>2 DEF DripInv
<1>8. QED
  BY <1>1, <1>2, <1>3, <1>4, <1>5, <1>6, <1>7
     DEF DripNext, DripErrs, SaveFails, DripDies, DripFills, DripCancelled, TradeShares,
         DividendPaid, DividendAges, dripVars

\* The ledger accounts for every amount sent, for any number of shares, dividends and slips,
\* but for the dividends of twelve months at each slip: a BUY without an entry, or an entry
\* written over.
THEOREM LedgerAccounts == DripSpec => []LedgerCovers
<1>1. DripInv => LedgerCovers
  BY DEF DripInv
<1>2. QED
  BY <1>1, DripBegins, DripStep, PTL DEF DripSpec

----------------------------------------------------------------------------
\* The screening cache.

Vouches(entry) == entry.manual /\ ~entry.late

\* A verdict on its way to the cache was manual, and is not marked late, only while the
\* verification stands.
CacheInv ==
    /\ "late" \in DOMAIN fill
    /\ UnverifiedIsForgotten
    /\ Vouches(fill) => verified # "none"

LEMMA AbsentVouchesNot == ~Vouches(Absent) /\ "late" \in DOMAIN Absent
BY DEF Vouches, Absent

LEMMA CacheBegins == AuditInit => CacheInv
BY AbsentVouchesNot DEF AuditInit, CacheInv, UnverifiedIsForgotten, Vouches

\* Dropping the entry and marking the fill leaves nothing that vouches.
LEMMA InvalidateForgets ==
    ASSUME "late" \in DOMAIN fill, Invalidate
    PROVE  "late" \in DOMAIN fill' /\ ~Vouches(cached') /\ ~Vouches(fill')
<1>1. ~Vouches(cached')
  BY AbsentVouchesNot DEF Invalidate
<1>2. CASE fill = Absent
  BY <1>1, <1>2, AbsentVouchesNot DEF Invalidate
<1>3. CASE fill # Absent
  <2>1. fill' = [fill EXCEPT !.late = TRUE]
    BY <1>3 DEF Invalidate
  <2>2. fill'.late = TRUE /\ "late" \in DOMAIN fill'
    BY <2>1
  <2>3. QED
    BY <1>1, <2>2 DEF Vouches
<1>4. QED
  BY <1>2, <1>3

LEMMA CacheStep == CacheInv /\ [AuditNext]_auditVars => CacheInv'
<1> SUFFICES ASSUME CacheInv, [AuditNext]_auditVars PROVE CacheInv'
  OBVIOUS
<1> USE DEF auditEnv, loopVars, cacheVars
<1>0. /\ "late" \in DOMAIN fill
      /\ Vouches(cached) => verified # "none"
      /\ Vouches(fill) => verified # "none"
  BY DEF CacheInv, UnverifiedIsForgotten, Vouches
<1>a. ASSUME "late" \in DOMAIN fill', Vouches(cached') => verified' # "none",
             Vouches(fill') => verified' # "none"
      PROVE  CacheInv'
  BY <1>a DEF CacheInv, UnverifiedIsForgotten, Vouches
<1>1. CASE StartFill
  <2>1. "late" \in DOMAIN fill' /\ (fill'.manual => verified = "valid")
    BY <1>1 DEF StartFill
  <2>2. Vouches(fill') => verified' # "none"
    BY <1>1, <2>1 DEF StartFill, Vouches
  <2>3. cached' = cached /\ verified' = verified
    BY <1>1 DEF StartFill
  <2>4. QED
    BY <1>0, <1>a, <2>1, <2>2, <2>3
<1>2. CASE EndFill
  <2>1. cached' = fill /\ fill' = Absent /\ verified' = verified
    BY <1>2 DEF EndFill
  <2>2. QED
    BY <1>0, <1>a, <2>1, AbsentVouchesNot
<1>3. CASE DropCached
  <2>1. cached' = Absent /\ fill' = fill /\ verified' = verified
    BY <1>3 DEF DropCached
  <2>2. QED
    BY <1>0, <1>a, <2>1, AbsentVouchesNot
<1>4. CASE ManualVerify \/ ManualUnverify
  <2>1. Invalidate
    BY <1>4 DEF ManualVerify, ManualUnverify
  <2>2. QED
    BY <1>0, <1>a, <2>1, InvalidateForgets
<1>5. CASE VerificationExpires
  <2>1. verified' = "expired" /\ UNCHANGED <<cached, fill>>
    BY <1>5 DEF VerificationExpires
  <2>2. QED
    BY <1>0, <1>a, <2>1
<1>6. CASE UNCHANGED <<verified, cached, fill>>
  BY <1>0, <1>a, <1>6
<1>7. CASE BuyScreened
  BY <1>6, <1>7 DEF BuyScreened
<1>8. CASE AuditStep
  BY <1>6, <1>8 DEF AuditStep, WakeUp, ScreenHeld, JudgeHeld, Liquidate, AuditRaises
<1>9. CASE Publish \/ OpenOrClose \/ FailOrMend
  BY <1>6, <1>9 DEF Publish, OpenOrClose, FailOrMend
<1>10. CASE UNCHANGED auditVars
  BY <1>6, <1>10 DEF auditVars
<1>11. QED
  BY <1>1, <1>2, <1>3, <1>4, <1>5, <1>7, <1>8, <1>9, <1>10 DEF AuditNext

\* Whatever the sources report and however the audit runs, a cached verdict rests on a
\* manual verification that stands, or on one removed during the screen that stored it.
THEOREM CacheForgets == AuditSpec => []UnverifiedIsForgotten
<1>1. CacheInv => UnverifiedIsForgotten
  BY DEF CacheInv
<1>2. QED
  BY <1>1, CacheBegins, CacheStep, PTL DEF AuditSpec

----------------------------------------------------------------------------
\* The screen.

\* Every symbol the sources may describe: any amounts, any business, any answers.
Data == [kind : Kinds, cap : Nat, debt : Nat, cash : Nat, ibs : Nat, revenue : Nat,
         impure : Nat, statements : BOOLEAN, business : Businesses, certified : BOOLEAN]
YahooData ==
    [kind : Kinds, cap : Nat, debt : Nat, cash : Nat, ibs : Nat, revenue : Nat, impure : Nat,
     statements : BOOLEAN, business : Businesses, certified : BOOLEAN,
     foreign : BOOLEAN, rate : BOOLEAN, worth : Nat \ {0}, islamic : BOOLEAN]
FmpData == [known : BOOLEAN, cap : Nat, debt : Nat, cash : Nat, revenue : Nat]
AvData == [known : BOOLEAN, debt : Nat, revenue : Nat]
Symbols ==
    [raises : BOOLEAN, allowlisted : BOOLEAN, verified : BOOLEAN, yahoo : YahooData,
     fmp : FmpData, av : AvData, zoya : Answers, musaffa : Answers]

LEMMA NoDataIsData == NoData \in Data /\ NoData.kind = "none"
BY DEF Data, NoData, Kinds, Businesses

\* At the rate, rounded up: no less than it is, and nothing vanishes.
LEMMA ConvertedTypes ==
    ASSUME NEW n \in Nat, NEW y \in YahooData
    PROVE  /\ Converted(n, y) \in Nat
           /\ y.foreign => y.worth * n <= 10 * Converted(n, y)
           /\ n > 0 => Converted(n, y) > 0
<1>1. y.worth \in Nat /\ y.worth > 0
  BY DEF YahooData
<1>2. y.worth * n \in Nat /\ (n > 0 => y.worth * n > 0) /\ n * y.worth = y.worth * n
  BY <1>1
<1>3. \A m \in Nat : /\ (m + 9) \div 10 \in Nat /\ m <= 10 * ((m + 9) \div 10)
                      /\ m > 0 => (m + 9) \div 10 > 0
  OBVIOUS
<1>4. CASE y.foreign
  BY <1>2, <1>3, <1>4 DEF Converted
<1>5. CASE ~y.foreign
  BY <1>5 DEF Converted
<1>6. QED
  BY <1>4, <1>5

Replaced(r, debt, cash, revenue) ==
    [r EXCEPT !.debt = debt, !.cash = cash, !.revenue = revenue]

LEMMA ReplacedTypes ==
    ASSUME NEW r \in Data, NEW debt \in Nat, NEW cash \in Nat, NEW revenue \in Nat
    PROVE  LET d == Replaced(r, debt, cash, revenue) IN
           /\ d \in Data /\ d.kind = r.kind /\ d.cap = r.cap /\ d.debt = debt /\ d.cash = cash
           /\ d.revenue = revenue /\ d.ibs = r.ibs /\ d.impure = r.impure
<1>1. Replaced(r, debt, cash, revenue) \in Data
  BY DEF Replaced, Data
<1>2. QED
  BY <1>1 DEF Replaced, Data

\* What Yahoo has of a company, as the fetcher returns it.
InCurrency(y) ==
    Replaced(Reported(y), Converted(y.debt, y), Converted(y.cash, y), Converted(y.revenue, y))

LEMMA CompanyTypes ==
    ASSUME NEW y \in YahooData
    PROVE  LET d == InCurrency(y) IN
           /\ d \in Data /\ d.kind = y.kind /\ d.cap = y.cap
           /\ d.debt = Converted(y.debt, y) /\ d.cash = Converted(y.cash, y)
           /\ d.revenue = Converted(y.revenue, y) /\ d.ibs = y.ibs /\ d.impure = y.impure
<1>1. /\ Reported(y) \in Data /\ Reported(y).kind = y.kind /\ Reported(y).cap = y.cap
      /\ Reported(y).ibs = y.ibs /\ Reported(y).impure = y.impure
  BY DEF Reported, Data, YahooData, NoData
<1>2. /\ Converted(y.debt, y) \in Nat /\ Converted(y.cash, y) \in Nat
      /\ Converted(y.revenue, y) \in Nat
  BY ConvertedTypes DEF YahooData
<1>3. LET d == InCurrency(y) IN
      /\ d \in Data /\ d.kind = Reported(y).kind /\ d.cap = Reported(y).cap
      /\ d.debt = Converted(y.debt, y) /\ d.cash = Converted(y.cash, y)
      /\ d.revenue = Converted(y.revenue, y)
      /\ d.ibs = Reported(y).ibs /\ d.impure = Reported(y).impure
  <2> DEFINE r == Reported(y)
             debt == Converted(y.debt, y)
             cash == Converted(y.cash, y)
             revenue == Converted(y.revenue, y)
  <2>1. r \in Data /\ debt \in Nat /\ cash \in Nat /\ revenue \in Nat
    BY <1>1, <1>2
  <2>2. InCurrency(y) = Replaced(r, debt, cash, revenue)
    BY DEF InCurrency
  <2> HIDE DEF r, debt, cash, revenue
  <2>3. LET d == Replaced(r, debt, cash, revenue) IN
        /\ d \in Data /\ d.kind = r.kind /\ d.cap = r.cap /\ d.debt = debt /\ d.cash = cash
        /\ d.revenue = revenue /\ d.ibs = r.ibs /\ d.impure = r.impure
    BY <2>1, ReplacedTypes
  <2> QED BY <2>2, <2>3 DEF r, debt, cash, revenue
<1>4. QED
  BY <1>1, <1>3

\* What Yahoo's fetcher returns has the types of its figures; a company is one of Yahoo's.
LEMMA FetchedTypes ==
    ASSUME NEW y \in YahooData, NEW zoya \in Answers
    PROVE  LET base == FetchYfinance(y, zoya) IN
           /\ base \in Data
           /\ base.kind \in {"none", "ETF", "EQUITY"}
           /\ base.kind = "ETF" => base.certified = IsShariahEtf(y.islamic, zoya)
           /\ base.kind # "none" => base.kind = y.kind
           /\ base.kind = "none" => base = NoData
<1> DEFINE base == FetchYfinance(y, zoya)
           company == InCurrency(y)
           fund == Fund(y, zoya)
<1>1. company \in Data /\ company.kind = y.kind /\ company.cap = y.cap
  BY CompanyTypes
<1>2. IsShariahEtf(y.islamic, zoya) \in BOOLEAN
  BY DEF IsShariahEtf, YahooData
<1>3. fund \in Data /\ fund.kind = "ETF" /\ fund.certified = IsShariahEtf(y.islamic, zoya)
  BY <1>2 DEF Fund, Data, NoData, Kinds, Businesses
<1>4. y.cap \in Nat
  BY DEF YahooData
<1>5. CASE y.kind = "ETF"
  <2>1. base = fund
    BY <1>5 DEF FetchYfinance
  <2> HIDE DEF fund, base
  <2> QED BY <1>3, <1>5, <2>1 DEF base
<1>6. CASE y.kind = "EQUITY" /\ y.cap > 0 /\ (y.foreign => y.rate)
  <2>1. base = company
    BY <1>6 DEF FetchYfinance, InCurrency, Replaced
  <2> HIDE DEF company, base
  <2> QED BY <1>1, <1>6, <2>1 DEF base
<1>7. CASE y.kind # "ETF" /\ ~(y.kind = "EQUITY" /\ y.cap > 0 /\ (y.foreign => y.rate))
  <2>1. base = NoData
    BY <1>7 DEF FetchYfinance
  <2> HIDE DEF base
  <2> QED BY <2>1, NoDataIsData DEF base
<1> QED BY <1>5, <1>6, <1>7

\* A gap is filled from one of the two sources that are asked, or stays.
LEMMA SupplementTypes ==
    ASSUME NEW base \in Data, NEW fmp \in FmpData, NEW av \in AvData
    PROVE  LET d == Supplement(base, fmp, av) IN
           /\ d \in Data /\ d.kind = base.kind
           /\ d.debt > 0 => \/ base.debt > 0 \/ (fmp.known /\ fmp.debt > 0)
                            \/ (av.known /\ av.debt > 0)
           /\ d.revenue > 0 => \/ base.revenue > 0 \/ (fmp.known /\ fmp.revenue > 0)
                               \/ (av.known /\ av.revenue > 0)
           /\ d.cash + d.ibs > 0 => base.cash + base.ibs > 0 \/ (fmp.known /\ fmp.cash > 0)
<1> DEFINE full == base.debt > 0 /\ base.cash > 0 /\ base.revenue > 0
           withFmp == [base EXCEPT !.debt = OrElse(@, fmp.debt), !.cash = OrElse(@, fmp.cash),
                                   !.revenue = OrElse(@, fmp.revenue)]
           withAv == [base EXCEPT !.debt = OrElse(@, av.debt), !.revenue = OrElse(@, av.revenue)]
<1>1. CASE full \/ (~fmp.known /\ ~av.known)
  <2>1. Supplement(base, fmp, av) = base
    BY <1>1 DEF Supplement
  <2> QED BY <2>1
<1>2. CASE ~full /\ fmp.known
  <2>1. Supplement(base, fmp, av) = withFmp
    BY <1>2 DEF Supplement
  <2>2. /\ withFmp \in Data /\ withFmp.kind = base.kind
        /\ withFmp.debt = OrElse(base.debt, fmp.debt)
        /\ withFmp.cash = OrElse(base.cash, fmp.cash) /\ withFmp.ibs = base.ibs
        /\ withFmp.revenue = OrElse(base.revenue, fmp.revenue)
    BY DEF Data, FmpData, OrElse
  <2> HIDE DEF withFmp
  <2>3. base.cash \in Nat /\ base.ibs \in Nat /\ fmp.cash \in Nat /\ base.debt \in Nat
        /\ base.revenue \in Nat
    BY DEF Data, FmpData
  <2> QED BY <1>2, <2>1, <2>2, <2>3 DEF OrElse
<1>3. CASE ~full /\ ~fmp.known /\ av.known
  <2>1. Supplement(base, fmp, av) = withAv
    BY <1>3 DEF Supplement
  <2>2. /\ withAv \in Data /\ withAv.kind = base.kind
        /\ withAv.debt = OrElse(base.debt, av.debt)
        /\ withAv.cash = base.cash /\ withAv.ibs = base.ibs
        /\ withAv.revenue = OrElse(base.revenue, av.revenue)
    BY DEF Data, AvData, OrElse
  <2> HIDE DEF withAv
  <2>3. base.debt \in Nat /\ base.revenue \in Nat
    BY DEF Data
  <2> QED BY <1>3, <2>1, <2>2, <2>3 DEF OrElse
<1> QED BY <1>1, <1>2, <1>3

LEMMA GapsFilled ==
    ASSUME NEW d \in Data, Gaps(d) = {}
    PROVE  d.cap > 0 /\ d.debt > 0 /\ d.revenue > 0 /\ d.cash + d.ibs > 0
<1>1. /\ d.cap \in Nat /\ d.debt \in Nat /\ d.revenue \in Nat
      /\ d.cash \in Nat /\ d.ibs \in Nat
  BY DEF Data
<1>2. /\ "market cap" \notin Gaps(d) /\ "debt" \notin Gaps(d) /\ "revenue" \notin Gaps(d)
      /\ "liquidity" \notin Gaps(d)
  OBVIOUS
<1>3. ~(d.cap <= 0) /\ ~(d.debt <= 0) /\ ~(d.revenue <= 0) /\ ~(d.cash <= 0 /\ d.ibs <= 0)
  BY <1>2 DEF Gaps
<1> QED BY <1>1, <1>3

\* What the sources come to: figures with their types, each of a company's from a source
\* that has it, and a fund's certification from the islamic names or from Zoya.
LEMMA MergedTypes ==
    ASSUME NEW c \in Symbols
    PROVE  /\ Merged(c) \in Data
           /\ Merged(c).kind = "ETF" => Merged(c).certified = IsShariahEtf(c.yahoo.islamic, c.zoya)
           /\ Merged(c).kind = "EQUITY" /\ Gaps(Merged(c)) = {} => Sourced(c)
<1> DEFINE base == FetchYfinance(c.yahoo, c.zoya)
           d == Merged(c)
<1>1. c.yahoo \in YahooData /\ c.fmp \in FmpData /\ c.av \in AvData /\ c.zoya \in Answers
  BY DEF Symbols
<1>2. /\ base \in Data /\ base.kind \in {"none", "ETF", "EQUITY"}
      /\ base.kind = "ETF" => base.certified = IsShariahEtf(c.yahoo.islamic, c.zoya)
      /\ base.kind = "none" => base = NoData
      /\ base.kind # "none" => base.kind = c.yahoo.kind
  BY <1>1, FetchedTypes
<1>3. d \in Data /\ Gaps(d) = {} => d.debt > 0 /\ d.revenue > 0 /\ d.cash + d.ibs > 0
  BY GapsFilled
<1>d. d = CASE base.kind = "ETF" -> base
            [] base.kind = "EQUITY" -> Supplement(base, c.fmp, c.av)
            [] c.yahoo.kind = "MUTUALFUND" -> FetchMorningstar(c.yahoo)
            [] OTHER -> IF c.fmp.known /\ c.fmp.cap > 0 THEN FmpProfile(c.yahoo, c.fmp) ELSE NoData
  BY DEF Merged, FetchFinancialData
<1> HIDE DEF base, d
<1>4. CASE base.kind = "ETF"
  <2>1. d = base
    BY <1>2, <1>4, <1>d
  <2> QED BY <1>2, <1>4, <2>1 DEF d, base
<1>5. CASE base.kind = "EQUITY"
  <2>1. d = Supplement(base, c.fmp, c.av)
    BY <1>2, <1>5, <1>d
  <2>2. d \in Data /\ d.kind = "EQUITY"
    BY <1>1, <1>2, <1>5, <2>1, SupplementTypes
  <2>3. Gaps(d) = {} =>
           /\ base.debt > 0 \/ (c.fmp.known /\ c.fmp.debt > 0) \/ (c.av.known /\ c.av.debt > 0)
           /\ base.revenue > 0 \/ (c.fmp.known /\ c.fmp.revenue > 0)
                \/ (c.av.known /\ c.av.revenue > 0)
           /\ base.cash + base.ibs > 0 \/ (c.fmp.known /\ c.fmp.cash > 0)
    BY <1>1, <1>2, <1>3, <2>1, <2>2, SupplementTypes
  <2> QED BY <2>2, <2>3 DEF d, base, Sourced
<1>6. CASE base.kind = "none" /\ c.yahoo.kind = "MUTUALFUND"
  <2>1. d = FetchMorningstar(c.yahoo)
    BY <1>6, <1>d
  <2>2. FetchMorningstar(c.yahoo) \in Data /\ FetchMorningstar(c.yahoo).kind = "MUTUALFUND"
    BY <1>1 DEF FetchMorningstar, Data, NoData, Kinds, Businesses, YahooData
  <2> QED BY <2>1, <2>2 DEF d
<1>7. CASE base.kind = "none" /\ c.yahoo.kind # "MUTUALFUND" /\ c.fmp.known /\ c.fmp.cap > 0
  <2>1. d = FmpProfile(c.yahoo, c.fmp)
    BY <1>7, <1>d
  <2>2. /\ FmpProfile(c.yahoo, c.fmp) \in Data
        /\ FmpProfile(c.yahoo, c.fmp).kind = "EQUITY"
        /\ FmpProfile(c.yahoo, c.fmp).debt = c.fmp.debt
        /\ FmpProfile(c.yahoo, c.fmp).cash = c.fmp.cash
        /\ FmpProfile(c.yahoo, c.fmp).ibs = 0
        /\ FmpProfile(c.yahoo, c.fmp).revenue = c.fmp.revenue
    BY <1>1 DEF FmpProfile, Data, NoData, Kinds, Businesses, FmpData
  <2>3. c.fmp.cash \in Nat
    BY <1>1 DEF FmpData
  <2>4. Gaps(d) = {} => c.fmp.debt > 0 /\ c.fmp.revenue > 0 /\ c.fmp.cash > 0
    BY <1>3, <2>1, <2>2, <2>3
  <2> QED BY <1>7, <2>1, <2>2, <2>4 DEF d, Sourced
<1>8. CASE /\ base.kind = "none" /\ c.yahoo.kind # "MUTUALFUND"
           /\ ~(c.fmp.known /\ c.fmp.cap > 0)
  <2>1. d = NoData
    BY <1>8, <1>d
  <2> QED BY <2>1, NoDataIsData DEF d
<1> QED BY <1>2, <1>4, <1>5, <1>6, <1>7, <1>8

\* Yahoo's funds stay funds, whatever the other sources say of the symbol.
LEMMA CompanyIsNoFund ==
    ASSUME NEW c \in Symbols, Merged(c).kind = "EQUITY"
    PROVE  c.yahoo.kind # "ETF"
<1> DEFINE base == FetchYfinance(c.yahoo, c.zoya)
<1>1. SUFFICES ASSUME c.yahoo.kind = "ETF" PROVE Merged(c).kind = "ETF"
  OBVIOUS
<1>2. base.kind = "ETF"
  BY <1>1 DEF FetchYfinance, Fund, NoData
<1> HIDE DEF base
<1>3. Merged(c) = base
  BY <1>1, <1>2 DEF Merged, FetchFinancialData, base
<1> QED BY <1>2, <1>3

\* A share of a whole that stays below a limit of so many per mille, in whole numbers.
LEMMA BelowLimit ==
    ASSUME NEW n \in Nat, NEW m \in Nat, m > 0
    PROVE  /\ PerMille(n, m) \in Nat
           /\ PerMille(n, m) < 300 => 10 * n < 3 * m
           /\ PerMille(n, m) < 50 => 20 * n < m
BY DEF PerMille

LEMMA BufferTightens ==
    ASSUME NEW b \in Int
    PROVE  /\ Tightening(b) \in Nat /\ Tightening(0) = 0
           /\ \A t \in Nat : /\ DebtLimit(t) \in Int /\ DebtLimit(t) <= 300
                             /\ LiquidityLimit(t) \in Int /\ LiquidityLimit(t) <= 300
                             /\ ImpureLimit(t) \in Int /\ ImpureLimit(t) <= 50
           /\ DebtLimit(0) = 300 /\ LiquidityLimit(0) = 300 /\ ImpureLimit(0) = 50
BY DEF Tightening, DebtLimit, LiquidityLimit, ImpureLimit

\* What exceeds a limit without a buffer exceeds it with one, and figures that exceed none
\* keep the standard's.
LEMMA ExcessesGrow ==
    ASSUME NEW d \in Data, NEW t \in Nat
    PROVE  /\ Excesses(d, 0) \subseteq Excesses(d, t)
           /\ Gaps(d) = {} /\ Excesses(d, t) = {} => WithinLimits(d)
<1>1. /\ d.cap \in Nat /\ d.debt \in Nat /\ d.cash + d.ibs \in Nat /\ d.revenue \in Nat
      /\ d.impure \in Nat
  BY DEF Data
<1>2. /\ PerMille(d.debt, d.cap) \in Nat /\ PerMille(d.cash + d.ibs, d.cap) \in Nat
      /\ PerMille(d.impure, d.revenue) \in Nat
  <2>1. \A n, m \in Nat : PerMille(n, m) \in Nat
    BY BelowLimit DEF PerMille
  <2> QED BY <1>1, <2>1
<1>3. Excesses(d, 0) \subseteq Excesses(d, t)
  <2>1. "debt ratio" \in Excesses(d, 0) => "debt ratio" \in Excesses(d, t)
    BY <1>2, BufferTightens DEF Excesses
  <2>2. "liquidity ratio" \in Excesses(d, 0) => "liquidity ratio" \in Excesses(d, t)
    BY <1>2, BufferTightens DEF Excesses
  <2>3. "impure ratio" \in Excesses(d, 0) => "impure ratio" \in Excesses(d, t)
    BY <1>2, BufferTightens DEF Excesses
  <2>4. Excesses(d, 0) \subseteq {"debt ratio", "liquidity ratio", "impure ratio"}
    BY DEF Excesses
  <2> QED BY <2>1, <2>2, <2>3, <2>4
<1>4. ASSUME Gaps(d) = {}, Excesses(d, t) = {} PROVE WithinLimits(d)
  <2>1. d.cap > 0 /\ d.revenue > 0
    BY <1>4, GapsFilled, <1>1
  <2>2. /\ "debt ratio" \notin Excesses(d, t) /\ "liquidity ratio" \notin Excesses(d, t)
        /\ "impure ratio" \notin Excesses(d, t)
    BY <1>4
  <2>3. /\ ~(PerMille(d.debt, d.cap) >= DebtLimit(t))
        /\ ~(PerMille(d.cash + d.ibs, d.cap) >= LiquidityLimit(t))
        /\ ~(PerMille(d.impure, d.revenue) >= ImpureLimit(t))
    BY <2>2 DEF Excesses
  <2>4. /\ PerMille(d.debt, d.cap) < 300 /\ PerMille(d.cash + d.ibs, d.cap) < 300
        /\ PerMille(d.impure, d.revenue) < 50
    BY <1>2, <2>3, BufferTightens
  <2>5. 10 * d.debt < 3 * d.cap
    <3> DEFINE n == d.debt
               m == d.cap
    <3>1. n \in Nat /\ m \in Nat /\ m > 0 /\ PerMille(n, m) < 300
      BY <1>1, <2>1, <2>4
    <3> HIDE DEF n, m
    <3>2. 10 * n < 3 * m
      BY <3>1, BelowLimit
    <3> QED BY <3>2 DEF n, m
  <2>6. 10 * (d.cash + d.ibs) < 3 * d.cap
    <3> DEFINE n == d.cash + d.ibs
               m == d.cap
    <3>1. n \in Nat /\ m \in Nat /\ m > 0 /\ PerMille(n, m) < 300
      BY <1>1, <2>1, <2>4
    <3> HIDE DEF n, m
    <3>2. 10 * n < 3 * m
      BY <3>1, BelowLimit
    <3> QED BY <3>2 DEF n, m
  <2>7. 20 * d.impure < d.revenue
    <3> DEFINE n == d.impure
               m == d.revenue
    <3>1. n \in Nat /\ m \in Nat /\ m > 0 /\ PerMille(n, m) < 50
      BY <1>1, <2>1, <2>4
    <3> HIDE DEF n, m
    <3>2. 20 * n < m
      BY <3>1, BelowLimit
    <3> QED BY <3>2 DEF n, m
  <2> QED BY <2>5, <2>6, <2>7 DEF WithinLimits
<1> QED BY <1>3, <1>4

\* Nothing is held against a company that passes.
LEMMA NoReasons ==
    ASSUME NEW d \in Data, NEW answer, NEW t \in Nat, EquityReasons(d, answer, t) = {}
    PROVE  /\ Gaps(d) = {} /\ Excesses(d, t) = {}
           /\ d.business \notin {"word", "slug"}
           /\ answer \notin {"haram", "doubtful"}
           /\ d.statements \/ answer = "halal"
<1>1. /\ CertifierReasons(d, answer, t) = {} /\ BusinessReasons(d) = {}
  BY DEF EquityReasons
<1>2. RatioReasons(d, answer, t) = {}
  BY <1>1 DEF CertifierReasons
<1>3. Gaps(d) = {} /\ Excesses(d, t) = {} /\ StatementGap(d, answer, t) = {}
  BY <1>2 DEF RatioReasons
<1>4. "sector" \notin BusinessReasons(d) /\ "certifier" \notin CertifierReasons(d, answer, t)
      /\ "statements" \notin StatementGap(d, answer, t) /\ "impure ratio" \notin Excesses(d, t)
  BY <1>1, <1>3
<1>5. d.business \notin {"word", "slug"}
  BY <1>4 DEF BusinessReasons
<1>6. answer \notin {"haram", "doubtful"}
  BY <1>2, <1>4 DEF CertifierReasons
<1>7. d.statements \/ answer = "halal"
  BY <1>4 DEF StatementGap
<1> QED BY <1>3, <1>5, <1>6, <1>7

\* A foreign reporter whose figures were all converted keeps the limits by its true ones.
LEMMA TrueFiguresKeep ==
    ASSUME NEW c \in Symbols, InOneCurrency(c), WithinLimits(Merged(c))
    PROVE  WithinLimits(TrueFigures(c))
<1>1. CASE ~c.yahoo.foreign
  BY <1>1 DEF TrueFigures
<1>2. CASE c.yahoo.foreign
  <2> DEFINE y == c.yahoo
             base == InCurrency(y)
  <2>1. /\ y \in YahooData /\ y.cap \in Nat /\ y.debt \in Nat /\ y.cash \in Nat
        /\ y.revenue \in Nat /\ y.worth \in Nat /\ y.worth > 0
    BY DEF Symbols, YahooData
  <2>2. /\ y.kind = "EQUITY" /\ y.cap > 0 /\ y.rate /\ y.debt > 0 /\ y.cash > 0
        /\ y.revenue > 0 /\ y.ibs = 0 /\ y.impure = 0
    BY <1>2 DEF InOneCurrency
  <2>3. FetchYfinance(y, c.zoya) = base
    BY <2>2 DEF FetchYfinance, InCurrency, Replaced
  <2>4. /\ base \in Data /\ base.kind = "EQUITY" /\ base.cap = y.cap
        /\ base.debt = Converted(y.debt, y) /\ base.cash = Converted(y.cash, y)
        /\ base.revenue = Converted(y.revenue, y) /\ base.ibs = 0 /\ base.impure = 0
    BY <2>1, <2>2, CompanyTypes
  <2>5. /\ base.debt > 0 /\ base.cash > 0 /\ base.revenue > 0
        /\ base.debt \in Nat /\ base.cash \in Nat
        /\ y.worth * y.debt <= 10 * base.debt /\ y.worth * y.cash <= 10 * base.cash
    BY <1>2, <2>1, <2>2, <2>4, ConvertedTypes
  <2>6. Merged(c) = base
    <3>1. Merged(c) =
            CASE base.kind = "ETF" -> base
              [] base.kind = "EQUITY" -> Supplement(base, c.fmp, c.av)
              [] y.kind = "MUTUALFUND" -> FetchMorningstar(y)
              [] OTHER -> IF c.fmp.known /\ c.fmp.cap > 0 THEN FmpProfile(y, c.fmp) ELSE NoData
      BY <2>3 DEF Merged, FetchFinancialData
    <3> HIDE DEF base
    <3>2. Supplement(base, c.fmp, c.av) = base
      BY <2>5 DEF Supplement
    <3> QED BY <2>2, <2>4, <3>1, <3>2
  <2>7. 10 * base.debt < 3 * y.cap /\ 10 * base.cash < 3 * y.cap
    BY <2>1, <2>4, <2>5, <2>6 DEF WithinLimits
  <2>8. /\ y.worth * y.debt \in Nat /\ y.worth * y.cash \in Nat /\ y.worth * y.ibs = 0
        /\ y.worth * y.revenue \in Nat /\ y.worth * y.revenue > 0 /\ y.worth * y.impure = 0
    BY <2>1, <2>2
  <2>9. /\ TrueFigures(c).cap = 10 * y.cap /\ TrueFigures(c).debt = y.worth * y.debt
        /\ TrueFigures(c).cash = y.worth * y.cash /\ TrueFigures(c).ibs = y.worth * y.ibs
        /\ TrueFigures(c).revenue = y.worth * y.revenue
        /\ TrueFigures(c).impure = y.worth * y.impure
    BY <1>2, <2>4, <2>6 DEF TrueFigures, Data
  <2> HIDE DEF base
  <2>10. 10 * (y.worth * y.debt) < 3 * (10 * y.cap) /\ 10 * (y.worth * y.cash) < 3 * (10 * y.cap)
    BY <2>1, <2>5, <2>7, <2>8
  <2> QED BY <2>8, <2>9, <2>10 DEF WithinLimits
<1> QED BY <1>1, <1>2

\* The screen fails closed for every symbol the sources may describe, under any buffer: a
\* company that passes has its figures from some source, and keeps the limits by them, and,
\* reporting in another currency, by its true ones where Yahoo's were all converted.
THEOREM ScreenClosed ==
    ASSUME NEW c \in Symbols, NEW b \in Int
    PROVE  FailsClosed(c, b)
<1> DEFINE d == Merged(c)
           answer == FetchShariahVerdict(c.zoya, c.musaffa)
           t == Tightening(b)
           live == Passes(c, b) /\ ~c.allowlisted /\ ~c.verified
           posted == CheckShariahCompliance(d, b)
<1>1. d \in Data /\ t \in Nat /\ c.zoya \in Answers /\ c.musaffa \in Answers
  BY MergedTypes, BufferTightens DEF Symbols
<1>2. ASSUME d.kind = "EQUITY", live PROVE EquityReasons(d, answer, t) = {}
  BY <1>2 DEF Passes, LiveShariahScreen, ScreenBySources, Merged
<1>3. ASSUME posted PROVE Gaps(d) = {} /\ Excesses(d, t) = {}
  BY <1>3 DEF CheckShariahCompliance
<1>4. ASSUME d.kind = "ETF", live PROVE d.certified
  BY <1>4 DEF Passes, LiveShariahScreen, ScreenBySources, Merged
<1>5. d.kind = "ETF" /\ live => c.zoya \notin {"haram", "doubtful"}
  BY <1>4, MergedTypes DEF IsShariahEtf
<1>6. d.kind = "EQUITY" /\ Gaps(d) = {} => Sourced(c)
  BY MergedTypes
<1> HIDE DEF d, t, live, posted
<1>7. d.kind = "EQUITY" /\ (live \/ posted) =>
        Sourced(c) /\ (InOneCurrency(c) => WithinLimits(TrueFigures(c)))
  <2>1. Gaps(d) = {} /\ Excesses(d, t) = {} => WithinLimits(d)
    BY <1>1, ExcessesGrow
  <2>2. d.kind = "EQUITY" /\ (live \/ posted) => Gaps(d) = {} /\ Excesses(d, t) = {}
    BY <1>1, <1>2, <1>3, NoReasons
  <2>3. InOneCurrency(c) /\ WithinLimits(d) => WithinLimits(TrueFigures(c))
    BY TrueFiguresKeep DEF d
  <2> QED BY <1>6, <2>1, <2>2, <2>3
<1>8. d.kind = "EQUITY" /\ live =>
        /\ d.business \notin {"word", "slug"}
        /\ {c.zoya, c.musaffa} \cap {"haram", "doubtful"} = {}
        /\ d.statements \/ "halal" \in {c.zoya, c.musaffa}
  <2>1. SUFFICES ASSUME d.kind = "EQUITY", live
                 PROVE  /\ d.business \notin {"word", "slug"}
                        /\ {c.zoya, c.musaffa} \cap {"haram", "doubtful"} = {}
                        /\ d.statements \/ "halal" \in {c.zoya, c.musaffa}
    OBVIOUS
  <2>2. /\ d.business \notin {"word", "slug"}
        /\ answer \notin {"haram", "doubtful"}
        /\ d.statements \/ answer = "halal"
    BY <1>1, <1>2, <2>1, NoReasons
  <2>3. c.zoya \notin {"haram", "doubtful"} /\ c.musaffa \notin {"haram", "doubtful"}
    BY <1>1, <2>2 DEF FetchShariahVerdict, Answers
  <2>4. answer \in {c.zoya, c.musaffa}
    BY <2>2 DEF FetchShariahVerdict
  <2> QED BY <2>2, <2>3, <2>4
<1> QED BY <1>5, <1>7, <1>8 DEF FailsClosed, d, live, posted

\* Neither a buffer nor a certifier lets anything pass that would not pass without.
THEOREM ScreenOnlyTightens ==
    ASSUME NEW c \in Symbols, NEW b \in Int
    PROVE  NothingLoosens(c, b)
<1> DEFINE d == Merged(c)
           answer == FetchShariahVerdict(c.zoya, c.musaffa)
           t == Tightening(b)
           bare == [c EXCEPT !.zoya = "none", !.musaffa = "none"]
<1>1. d \in Data /\ t \in Nat /\ Tightening(0) = 0
  BY MergedTypes, BufferTightens
<1>2. SUFFICES ASSUME Passes(c, b)
               PROVE  /\ Passes(c, 0)
                      /\ d.kind = "EQUITY" /\ d.statements => Passes(bare, b)
  BY DEF NothingLoosens
<1>3. /\ ~c.raises
      /\ c.allowlisted \/ c.verified \/ ScreenBySources(d, answer, b) = "COMPLIANT"
  BY <1>2 DEF Passes, LiveShariahScreen, Merged
<1>4. ASSUME EquityReasons(d, answer, t) = {}
      PROVE  /\ EquityReasons(d, answer, 0) = {}
             /\ d.statements => EquityReasons(d, "none", t) = {}
  <2> HIDE DEF d, t, answer
  <2>1. /\ Gaps(d) = {} /\ Excesses(d, t) = {} /\ d.business \notin {"word", "slug"}
        /\ answer \notin {"haram", "doubtful"} /\ (d.statements \/ answer = "halal")
    BY <1>1, <1>4, NoReasons
  <2>2. Excesses(d, 0) = {}
    BY <1>1, <2>1, ExcessesGrow
  <2>3. StatementGap(d, answer, 0) = {} /\ (d.statements => StatementGap(d, "none", t) = {})
    BY <2>1 DEF StatementGap
  <2>4. BusinessReasons(d) = {}
    BY <2>1 DEF BusinessReasons
  <2>5. RatioReasons(d, answer, 0) = {} /\ (d.statements => RatioReasons(d, "none", t) = {})
    BY <2>1, <2>2, <2>3 DEF RatioReasons
  <2>6. CertifierReasons(d, answer, 0) = {} /\ (d.statements => CertifierReasons(d, "none", t) = {})
    BY <2>1, <2>5 DEF CertifierReasons
  <2> QED BY <2>4, <2>6 DEF EquityReasons
<1>5. Passes(c, 0)
  <2>1. CASE c.allowlisted \/ c.verified
    BY <1>3, <2>1 DEF Passes, LiveShariahScreen
  <2>2. CASE ~(c.allowlisted \/ c.verified)
    <3>1. ScreenBySources(d, answer, b) = "COMPLIANT"
      BY <1>3, <2>2
    <3>2. ScreenBySources(d, answer, 0) = "COMPLIANT"
      BY <1>1, <1>4, <3>1 DEF ScreenBySources
    <3> QED BY <1>3, <2>2, <3>2 DEF Passes, LiveShariahScreen, Merged
  <2> QED BY <2>1, <2>2
<1>6. ASSUME d.kind = "EQUITY", d.statements PROVE Passes(bare, b)
  <2>1. /\ bare.raises = c.raises /\ bare.allowlisted = c.allowlisted
        /\ bare.verified = c.verified /\ bare.yahoo = c.yahoo /\ bare.fmp = c.fmp
        /\ bare.av = c.av /\ bare.zoya = "none" /\ bare.musaffa = "none"
    BY DEF Symbols
  <2>2. Merged(bare) = d
    <3>1. FetchYfinance(c.yahoo, "none") = FetchYfinance(c.yahoo, c.zoya)
      <4>1. c.yahoo.kind # "ETF"
        <5>1. c.yahoo \in YahooData /\ c.fmp \in FmpData /\ c.av \in AvData /\ c.zoya \in Answers
          BY DEF Symbols
        <5> QED BY <1>6, <5>1, CompanyIsNoFund
      <4> QED BY <4>1 DEF FetchYfinance
    <3> QED BY <2>1, <3>1 DEF Merged, FetchFinancialData
  <2>3. CASE c.allowlisted \/ c.verified
    BY <1>3, <2>1, <2>3 DEF Passes, LiveShariahScreen
  <2>4. CASE ~(c.allowlisted \/ c.verified)
    <3>1. ScreenBySources(d, answer, b) = "COMPLIANT"
      BY <1>3, <2>4
    <3>2. EquityReasons(d, "none", t) = {}
      BY <1>4, <1>6, <3>1 DEF ScreenBySources
    <3>3. ScreenBySources(d, "none", b) = "COMPLIANT"
      BY <1>6, <3>2 DEF ScreenBySources
    <3>4. FetchShariahVerdict("none", "none") = "none"
      BY DEF FetchShariahVerdict
    <3>5. LiveShariahScreen(bare, b) = ScreenBySources(Merged(bare), "none", b)
      BY <1>3, <2>1, <2>4, <3>4 DEF LiveShariahScreen, Merged
    <3> QED BY <2>2, <3>3, <3>5 DEF Passes
  <2> QED BY <2>3, <2>4
<1> QED BY <1>5, <1>6

----------------------------------------------------------------------------
\* The composition.

LEMMA AuditTypesInit == AuditInit => AuditTypeOK
BY DEF AuditInit, AuditTypeOK, Entries, Absent, Holders, NoFinding

\* Every verdict is one of the four.
LEMMA VerdictTypes ==
    ASSUME NEW c, NEW b
    PROVE  LiveShariahScreen(c, b) \in Verdicts
<1>1. \A answer : CertifierVerdict(answer) \in Verdicts
  BY DEF CertifierVerdict, Verdicts
<1>2. \A d, answer : ScreenBySources(d, answer, b) \in Verdicts
  BY <1>1 DEF ScreenBySources, Verdicts
<1> QED BY <1>2 DEF LiveShariahScreen, Verdicts

LEMMA AuditTypesStep == AuditTypeOK /\ [AuditNext]_auditVars => AuditTypeOK'
<1> SUFFICES ASSUME AuditTypeOK, [AuditNext]_auditVars PROVE AuditTypeOK'
  OBVIOUS
<1> USE DEF AuditTypeOK, auditEnv, loopVars, cacheVars
<1>0. /\ NoFinding \in [verdict : Verdicts, proven : BOOLEAN, holder : Holders] \cup {NoFinding}
      /\ Absent \in Entries
  BY DEF Entries
<1>1. CASE StartFill
  <2>1. LiveShariahScreen(Case, Setting) \in Verdicts
    BY VerdictTypes
  <2>2. (verified = "valid" /\ ~report.raises /\ ~report.allowlisted) \in BOOLEAN
    OBVIOUS
  <2>3. fill' \in Entries
    BY <1>1, <2>1, <2>2 DEF StartFill, Entries
  <2> QED BY <1>1, <2>3 DEF StartFill
<1>2. CASE EndFill \/ DropCached
  BY <1>0, <1>2 DEF EndFill, DropCached
<1>3. CASE ManualVerify \/ ManualUnverify
  <2>1. cached' \in Entries
    BY <1>0, <1>3 DEF ManualVerify, ManualUnverify, Invalidate
  <2>2. fill' \in Entries
    BY <1>0, <1>3 DEF ManualVerify, ManualUnverify, Invalidate, Entries
  <2>3. verified' \in {"none", "valid", "expired"}
    BY <1>3 DEF ManualVerify, ManualUnverify
  <2> QED BY <1>3, <2>1, <2>2, <2>3 DEF ManualVerify, ManualUnverify
<1>4. CASE VerificationExpires
  BY <1>4 DEF VerificationExpires
<1>5. CASE BuyScreened
  BY <1>5 DEF BuyScreened, Holders
<1>6. CASE WakeUp \/ JudgeHeld \/ AuditRaises
  BY <1>0, <1>6 DEF WakeUp, JudgeHeld, AuditRaises
<1>7. CASE ScreenHeld
  <2>1. PICK level \in Levels \cup {FallbackVix} :
           finding' = [verdict |-> LiveShariahScreen(Case, AuditBuffer(Setting, level)),
                       proven |-> Proven(Case, AuditBuffer(Setting, level)),
                       holder |-> holding]
    BY <1>7 DEF ScreenHeld
  <2>2. LiveShariahScreen(Case, AuditBuffer(Setting, level)) \in Verdicts
    BY VerdictTypes
  <2>3. Proven(Case, AuditBuffer(Setting, level)) \in BOOLEAN
    BY DEF Proven
  <2>4. finding' \in [verdict : Verdicts, proven : BOOLEAN, holder : Holders]
    BY <2>1, <2>2, <2>3
  <2> QED BY <1>7, <2>4 DEF ScreenHeld
<1>8. CASE Liquidate
  <2>1. holding' \in Holders
    BY <1>8 DEF Liquidate, Holders
  <2> QED BY <1>0, <1>8, <2>1 DEF Liquidate
<1>9. CASE Publish \/ OpenOrClose \/ FailOrMend
  BY <1>9 DEF Publish, OpenOrClose, FailOrMend
<1>10. CASE UNCHANGED auditVars
  BY <1>10 DEF auditVars
<1> QED BY <1>1, <1>2, <1>3, <1>4, <1>5, <1>6, <1>7, <1>8, <1>9, <1>10 DEF AuditNext, AuditStep

LEMMA BreakerTypesInit == BreakerInit => BreakerTypeOK
<1>1. MaxValue \in 1..MaxValue /\ 0 \in Values
  BY BreakerAssumption DEF Values
<1>2. BreakerInit => cycle \in [Loops -> {"guards", "trading"}]
  BY DEF BreakerInit
<1> QED BY <1>1, <1>2 DEF BreakerInit, BreakerTypeOK

LEMMA BreakerTypesStep == BreakerTypeOK /\ [BreakerNext]_breakerVars => BreakerTypeOK'
<1> SUFFICES ASSUME BreakerTypeOK, [BreakerNext]_breakerVars PROVE BreakerTypeOK'
  OBVIOUS
<1> USE BreakerAssumption DEF BreakerTypeOK, worldVars, recordVars
<1>0. /\ 0 \in Values /\ GetNetLiquidation \in Values
      /\ \A m, n \in Values : Larger(m, n) \in Values
  BY DEF Values, GetNetLiquidation, Larger
<1>1. CASE StartSnapshots
  BY <1>0, <1>1 DEF StartSnapshots
<1>2. CASE TakeSnapshot
  <2>1. seen' \in Values /\ peak' \in Values
    BY <1>0, <1>2 DEF TakeSnapshot
  <2>2. triggered' \in BOOLEAN /\ snapshot' \in {"alerting", "saving"}
    BY <1>2 DEF TakeSnapshot
  <2> QED BY <1>2, <2>1, <2>2 DEF TakeSnapshot
<1>3. CASE AlertDone
  BY <1>0, <1>3 DEF AlertDone
<1>4. CASE SaveSnapshot
  <2>1. recorded' \in Values /\ dayOpen' \in Values \cup {NoSnapshot}
    BY <1>0, <1>4 DEF SaveSnapshot
  <2> QED BY <1>0, <1>4, <2>1 DEF SaveSnapshot
<1>5. ASSUME NEW loop \in Loops, PassesGuards(loop) PROVE BreakerTypeOK'
  BY <1>5 DEF PassesGuards
<1>6. ASSUME NEW loop \in Loops, EndCycle(loop) PROVE BreakerTypeOK'
  BY <1>6 DEF EndCycle
<1>7. CASE MoveValue
  BY <1>7 DEF MoveValue
<1>8. CASE ConnectOrLose \/ ValuesArrive
  BY <1>8 DEF ConnectOrLose, ValuesArrive
<1>9. CASE NewDay
  BY <1>9 DEF NewDay
<1>10. CASE RestartBreaker
  BY <1>0, <1>10 DEF RestartBreaker
<1>11. CASE UNCHANGED breakerVars
  BY <1>11 DEF breakerVars
<1>12. ASSUME MainPasses \/ SweepPasses \/ DiscoveryPasses PROVE BreakerTypeOK'
  BY <1>5, <1>12 DEF MainPasses, SweepPasses, DiscoveryPasses, Loops
<1> QED BY <1>1, <1>2, <1>3, <1>4, <1>6, <1>7, <1>8, <1>9, <1>10, <1>11, <1>12
        DEF BreakerNext, SnapshotStep

\* The cases that are screened are symbols.

LEMMA AnswersKnown ==
    /\ NoFmp \in FmpData /\ NoAv \in AvData
    /\ FmpAnswers \subseteq FmpData /\ AvAnswers \subseteq AvData
    /\ {"none", "halal", "haram", "doubtful"} \subseteq Answers
BY DEF NoFmp, NoAv, FmpData, AvData, FmpAnswers, AvAnswers, Answers, Cap

LEMMA CompanyIsYahoos == Company \in YahooData
BY DEF Company, YahooData, Cap, Kinds, Businesses

LEMMA SymbolIsSymbol ==
    ASSUME NEW yahoo \in YahooData, NEW fmp \in FmpData, NEW av \in AvData,
           NEW zoya \in Answers, NEW musaffa \in Answers
    PROVE  Symbol(yahoo, fmp, av, zoya, musaffa) \in Symbols
BY DEF Symbol, Symbols

LEMMA AloneIsSymbol == ASSUME NEW yahoo \in YahooData PROVE Alone(yahoo) \in Symbols
BY AnswersKnown, SymbolIsSymbol DEF Alone

LEMMA BalanceIsYahoos ==
    ASSUME NEW debt \in Nat, NEW cash \in Nat, NEW ibs \in Nat, NEW revenue \in Nat
    PROVE  Balance(debt, cash, ibs, revenue) \in YahooData
BY CompanyIsYahoos DEF Balance, YahooData

LEMMA FigureIsSymbol ==
    ASSUME NEW debt \in Nat, NEW cash \in Nat, NEW ibs \in Nat, NEW revenue \in Nat,
           NEW impure \in Nat, NEW statements \in BOOLEAN, NEW answer \in Answers
    PROVE  Figure(debt, cash, ibs, revenue, impure, statements, answer) \in Symbols
<1>1. \A y \in YahooData : [y EXCEPT !.impure = impure, !.statements = statements] \in YahooData
  BY DEF YahooData
<1> QED BY <1>1, BalanceIsYahoos, AnswersKnown, SymbolIsSymbol DEF Figure

LEMMA FiguresAreSymbols == Figures \subseteq Symbols
<1> SUFFICES ASSUME NEW c \in Figures PROVE c \in Symbols
  OBVIOUS
<1>1. PICK debt \in {0, 240, 290, 305}, cash \in {0, 200, 290}, ibs \in {0, 20},
           revenue \in {0, 1000}, impure \in {0, 29, 45, 60}, statements \in BOOLEAN,
           answer \in {"none", "halal", "doubtful"} :
        c = Figure(debt, cash, ibs, revenue, impure, statements, answer)
  BY DEF Figures
<1>2. /\ debt \in Nat /\ cash \in Nat /\ ibs \in Nat /\ revenue \in Nat /\ impure \in Nat
      /\ answer \in Answers
  BY AnswersKnown
<1> QED BY <1>1, <1>2, FigureIsSymbol

LEMMA MergeIsSymbol ==
    ASSUME NEW debt \in Nat, NEW cash \in Nat, NEW revenue \in Nat, NEW cap \in Nat,
           NEW foreign \in BOOLEAN, NEW answer \in Answers,
           NEW fmp \in FmpData, NEW av \in AvData
    PROVE  Merge(debt, cash, revenue, cap, foreign, answer, fmp, av) \in Symbols
<1>1. \A y \in YahooData :
          [y EXCEPT !.cap = cap, !.foreign = foreign, !.rate = FALSE] \in YahooData
  BY DEF YahooData
<1> QED BY <1>1, BalanceIsYahoos, AnswersKnown, SymbolIsSymbol DEF Merge

LEMMA MergesAreSymbols == Merges \subseteq Symbols
<1> SUFFICES ASSUME NEW c \in Merges PROVE c \in Symbols
  OBVIOUS
<1>1. PICK debt \in {0, 240}, cash \in {0, 200}, revenue \in {0, 1000}, cap \in {0, Cap},
           foreign \in BOOLEAN, answer \in {"none", "halal"}, fmp \in FmpAnswers,
           av \in AvAnswers : c = Merge(debt, cash, revenue, cap, foreign, answer, fmp, av)
  BY DEF Merges
<1>2. /\ debt \in Nat /\ cash \in Nat /\ revenue \in Nat /\ cap \in Nat
      /\ answer \in Answers /\ fmp \in FmpData /\ av \in AvData
  BY AnswersKnown DEF Cap
<1> QED BY <1>1, <1>2, MergeIsSymbol

LEMMA ReporterIsSymbol ==
    ASSUME NEW worth \in Nat \ {0}, NEW debt \in Nat, NEW cash \in Nat, NEW ibs \in Nat,
           NEW impure \in Nat
    PROVE  Reporter(worth, debt, cash, ibs, impure) \in Symbols
<1> DEFINE balance == Balance(debt, cash, ibs, 1000)
           y == [balance EXCEPT !.impure = impure, !.foreign = TRUE, !.worth = worth]
<1>1. balance \in YahooData
  BY BalanceIsYahoos
<1> HIDE DEF balance
<1>2. y \in YahooData
  BY <1>1 DEF YahooData
<1> HIDE DEF y
<1>3. Alone(y) \in Symbols
  BY <1>2, AloneIsSymbol
<1>4. Reporter(worth, debt, cash, ibs, impure) = Alone(y)
  BY DEF Reporter, y, balance
<1> QED BY <1>3, <1>4

LEMMA ReportersAreSymbols == Reporters \subseteq Symbols
<1> SUFFICES ASSUME NEW c \in Reporters PROVE c \in Symbols
  OBVIOUS
<1>1. PICK worth \in {5, 20}, debt \in {120, 200, 400}, cash \in {120, 200}, ibs \in {0, 50},
           impure \in {0, 60} : c = Reporter(worth, debt, cash, ibs, impure)
  BY DEF Reporters
<1>2. /\ worth \in Nat \ {0} /\ debt \in Nat /\ cash \in Nat /\ ibs \in Nat
      /\ impure \in Nat
  OBVIOUS
<1> QED BY <1>1, <1>2, ReporterIsSymbol

LEMMA CertifiedAreSymbols == Certified \subseteq Symbols
<1> SUFFICES ASSUME NEW kind \in Kinds, NEW business \in Businesses, NEW islamic \in BOOLEAN,
                    NEW statements \in BOOLEAN, NEW zoya \in Answers, NEW musaffa \in Answers
             PROVE  Judged(kind, business, islamic, statements, zoya, musaffa) \in Symbols
  BY DEF Certified
<1>1. [Company EXCEPT !.kind = kind, !.business = business, !.islamic = islamic,
                      !.statements = statements] \in YahooData
  BY CompanyIsYahoos DEF YahooData
<1> QED BY <1>1, AnswersKnown, SymbolIsSymbol DEF Judged

LEMMA FlaggedAreSymbols == Flagged \subseteq Symbols
<1>1. /\ [Company EXCEPT !.kind = "none"] \in YahooData
      /\ [Company EXCEPT !.debt = 310] \in YahooData
  BY CompanyIsYahoos DEF YahooData, Kinds
<1>2. {Sound, Unknown, Indebted} \subseteq Symbols
  BY <1>1, CompanyIsYahoos, AloneIsSymbol DEF Sound, Unknown, Indebted
<1>3. ASSUME NEW c \in Symbols, NEW raises \in BOOLEAN, NEW allowlisted \in BOOLEAN,
             NEW verification \in BOOLEAN
      PROVE  Flag(c, raises, allowlisted, verification) \in Symbols
  BY DEF Flag, Symbols
<1> QED BY <1>2, <1>3 DEF Flagged

LEMMA CasesAreSymbols == Cases \subseteq Symbols /\ Sound \in Symbols
BY FiguresAreSymbols, MergesAreSymbols, ReportersAreSymbols, CertifiedAreSymbols,
   FlaggedAreSymbols,
   CompanyIsYahoos, AloneIsSymbol DEF Cases, Sound

\* What is true of each part, and of the symbol that is screened.
BackgroundInv ==
    /\ TypeOK
    /\ subject \in Symbols /\ buffer \in Int
    /\ CacheInv /\ ClockInv /\ ChainInv /\ DripInv

\* A step of the composition is one of a part, and none of the others.
LEMMA PartsMove ==
    ASSUME [Next]_vars
    PROVE  /\ UNCHANGED subject /\ buffer' \in Buffers \cup {buffer}
           /\ [AuditNext]_auditVars /\ [BreakerNext]_breakerVars /\ [HawlNext]_hawlVars
           /\ [ChainNext]_chainVars /\ [DripNext]_dripVars
<1>1. CASE active = "screen" /\ SetBuffer /\ RestOf("screen")
  BY <1>1 DEF SetBuffer, RestOf
<1>2. CASE active = "audit" /\ AuditNext /\ RestOf("audit")
  BY <1>2 DEF RestOf, screenVars
<1>3. CASE active = "breaker" /\ BreakerNext /\ RestOf("breaker")
  BY <1>3 DEF RestOf, screenVars
<1>4. CASE active = "hawl" /\ HawlNext /\ RestOf("hawl")
  BY <1>4 DEF RestOf, screenVars
<1>5. CASE active = "chain" /\ ChainNext /\ RestOf("chain")
  BY <1>5 DEF RestOf, screenVars
<1>6. CASE active = "drip" /\ DripNext /\ RestOf("drip")
  BY <1>6 DEF RestOf, screenVars
<1>7. CASE UNCHANGED vars
  BY <1>7 DEF vars, screenVars
<1> QED BY <1>1, <1>2, <1>3, <1>4, <1>5, <1>6, <1>7 DEF Next

LEMMA BackgroundInductive == Spec => []BackgroundInv
<1>1. Init => BackgroundInv
  <2> SUFFICES ASSUME Init PROVE BackgroundInv
    OBVIOUS
  <2>1. AuditInit /\ BreakerInit /\ HawlInit /\ ChainInit /\ DripInit
    BY DEF Init
  <2>2. ChainInv
    BY <2>1, ChainBegins
  <2>3. TypeOK
    BY <2>1, <2>2, AuditTypesInit, BreakerTypesInit, TypesInit, DripTypesInit DEF TypeOK, ChainInv
  <2>4. CacheInv /\ ClockInv /\ DripInv
    BY <2>1, CacheBegins, ClockBegins, DripBegins
  <2>5. subject \in Symbols /\ buffer \in Int
    BY CasesAreSymbols DEF Init
  <2> QED BY <2>2, <2>3, <2>4, <2>5 DEF BackgroundInv
<1>2. BackgroundInv /\ [Next]_vars => BackgroundInv'
  <2> SUFFICES ASSUME BackgroundInv, [Next]_vars PROVE BackgroundInv'
    OBVIOUS
  <2>1. ChainInv' /\ DripInv' /\ CacheInv' /\ ClockInv'
    BY PartsMove, ChainStep, DripStep, CacheStep, ClockStep
       DEF BackgroundInv, TypeOK
  <2>2. TypeOK'
    BY <2>1, PartsMove, AuditTypesStep, BreakerTypesStep, TypesStep, DripTypesStep
       DEF BackgroundInv, TypeOK, ChainInv
  <2>3. subject' \in Symbols /\ buffer' \in Int
    BY PartsMove DEF BackgroundInv, Buffers
  <2> QED BY <2>1, <2>2, <2>3 DEF BackgroundInv
<1> QED BY <1>1, <1>2, PTL DEF Spec

\* Every part's variables keep their types, whichever of the parts moves.
THEOREM BackgroundTypes == Spec => []TypeOK
<1>1. BackgroundInv => TypeOK
  BY DEF BackgroundInv
<1> QED BY <1>1, BackgroundInductive, PTL

\* What the run screens is covered by ScreenClosed: the screen fails closed on it.
THEOREM ScreenedClosed == Spec => []ScreenFailsClosed
<1>1. BackgroundInv => ScreenFailsClosed
  BY ScreenClosed DEF BackgroundInv, ScreenFailsClosed
<1> QED BY <1>1, BackgroundInductive, PTL

\* And by ScreenOnlyTightens: no buffer and no certifier lets it pass.
THEOREM ScreenedTightens == Spec => []ScreenNothingLoosens
<1>1. BackgroundInv => ScreenNothingLoosens
  BY ScreenOnlyTightens DEF BackgroundInv, ScreenNothingLoosens
<1> QED BY <1>1, BackgroundInductive, PTL

\* What holds of each part alone holds of the parts together.
THEOREM PartsTogether ==
    Spec => [](UnverifiedIsForgotten /\ ClockIsEarned /\ AlarmIsTrue /\ LedgerCovers)
<1>1. BackgroundInv => UnverifiedIsForgotten /\ AlarmIsTrue /\ LedgerCovers
  BY DEF BackgroundInv, CacheInv, ChainInv, DripInv
<1>2. BackgroundInv => ClockIsEarned
  BY ClockSuffices DEF BackgroundInv, TypeOK
<1> QED BY <1>1, <1>2, BackgroundInductive, PTL
=============================================================================
