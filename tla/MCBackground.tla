------------------------------ MODULE MCBackground ------------------------------
(***************************************************************************)
(* What runs beside the trading loops: the screen, the compliance audit,   *)
(* the drawdown breaker, the lunar year, the audit chain, the DRIP loop.   *)
(* They share no state with each other, so one of them, the active one,    *)
(* moves in a behaviour, and the others stay where they began.             *)
(***************************************************************************)
EXTENDS ComplianceAudit, Breaker, Hawl, AuditChain, Drip

VARIABLES
    active,
    subject, buffer   \* a symbol to screen, and ratio_buffer

screenVars == <<subject, buffer>>
vars == <<active, screenVars, auditVars, breakerVars, hawlVars, chainVars, dripVars>>

----------------------------------------------------------------------------
\* The symbols: a sound company as Yahoo has it, and what differs from it.
Company ==
    [kind |-> "EQUITY", cap |-> Cap, debt |-> 240, cash |-> 200, ibs |-> 0, revenue |-> 1000,
     impure |-> 10, statements |-> TRUE, business |-> "clean", certified |-> FALSE,
     foreign |-> FALSE, rate |-> TRUE, worth |-> 10, islamic |-> FALSE]
Symbol(yahoo, fmp, av, zoya, musaffa) ==
    [raises |-> FALSE, allowlisted |-> FALSE, verified |-> FALSE, yahoo |-> yahoo, fmp |-> fmp,
     av |-> av, zoya |-> zoya, musaffa |-> musaffa]
Alone(yahoo) == Symbol(yahoo, NoFmp, NoAv, "none", "none")
Sound == Alone(Company)

Balance(debt, cash, ibs, revenue) ==
    [Company EXCEPT !.debt = debt, !.cash = cash, !.ibs = ibs, !.revenue = revenue]

Figure(debt, cash, ibs, revenue, impure, statements, answer) ==
    Symbol([Balance(debt, cash, ibs, revenue) EXCEPT !.impure = impure, !.statements = statements],
           NoFmp, NoAv, answer, "none")
Figures == {Figure(debt, cash, ibs, revenue, impure, statements, answer) :
    debt \in {0, 240, 290, 305}, cash \in {0, 200, 290}, ibs \in {0, 20}, revenue \in {0, 1000},
    impure \in {0, 29, 45, 60}, statements \in BOOLEAN, answer \in {"none", "halal", "doubtful"}}

Merge(debt, cash, revenue, cap, foreign, answer, fmp, av) ==
    Symbol([Balance(debt, cash, 0, revenue) EXCEPT !.cap = cap, !.foreign = foreign, !.rate = FALSE],
           fmp, av, answer, "none")
FmpAnswers ==
    {NoFmp, [known |-> TRUE, cap |-> Cap, debt |-> 0, cash |-> 200, revenue |-> 1000],
     [known |-> TRUE, cap |-> Cap, debt |-> 310, cash |-> 0, revenue |-> 1000],
     [known |-> TRUE, cap |-> 0, debt |-> 100, cash |-> 100, revenue |-> 0]}
AvAnswers ==
    {NoAv, [known |-> TRUE, debt |-> 2, revenue |-> 0], [known |-> TRUE, debt |-> 2, revenue |-> 1000]}
Merges == {Merge(debt, cash, revenue, cap, foreign, answer, fmp, av) :
    debt \in {0, 240}, cash \in {0, 200}, revenue \in {0, 1000}, cap \in {0, Cap},
    foreign \in BOOLEAN, answer \in {"none", "halal"}, fmp \in FmpAnswers, av \in AvAnswers}

\* Reported in another currency, of half or twice the worth.
Reporter(worth, debt, cash, ibs, impure) ==
    Alone([Balance(debt, cash, ibs, 1000) EXCEPT !.impure = impure, !.foreign = TRUE,
                                                 !.worth = worth])
Reporters == {Reporter(worth, debt, cash, ibs, impure) :
    worth \in {5, 20}, debt \in {120, 200, 400}, cash \in {120, 200}, ibs \in {0, 50},
    impure \in {0, 60}}

Judged(kind, business, islamic, statements, zoya, musaffa) ==
    Symbol([Company EXCEPT !.kind = kind, !.business = business, !.islamic = islamic,
                           !.statements = statements],
           NoFmp, NoAv, zoya, musaffa)
Certified == {Judged(kind, business, islamic, statements, zoya, musaffa) :
    kind \in Kinds, business \in Businesses, islamic \in BOOLEAN, statements \in BOOLEAN,
    zoya \in Answers, musaffa \in Answers}

Unknown == Alone([Company EXCEPT !.kind = "none"])
Indebted == Alone([Company EXCEPT !.debt = 310])
Flag(c, raises, allowlisted, verification) ==
    [c EXCEPT !.raises = raises, !.allowlisted = allowlisted, !.verified = verification]
Flagged == {Flag(c, raises, allowlisted, verification) :
    c \in {Sound, Unknown, Indebted},
    raises \in BOOLEAN, allowlisted \in BOOLEAN, verification \in BOOLEAN}

Cases == Figures \cup Merges \cup Reporters \cup Certified \cup Flagged
Buffers == {-1, 0, 2, 5}

\* What the sources say of the audited symbol: nothing against it, a debt that only the
\* buffer of a crisis minds, too much debt, no debt on record, no figures at all, an error.
AuditReports == {Sound,
                 Alone([Company EXCEPT !.debt = 260]),
                 Indebted,
                 Alone([Company EXCEPT !.debt = 0]),
                 Unknown,
                 [Sound EXCEPT !.raises = TRUE]}
AuditLevels == {15, 35}

----------------------------------------------------------------------------
Parts == {"screen", "audit", "breaker", "hawl", "chain", "drip"}

RestOf(part) ==
    /\ part # "screen" => UNCHANGED screenVars
    /\ part # "audit" => UNCHANGED auditVars
    /\ part # "breaker" => UNCHANGED breakerVars
    /\ part # "hawl" => UNCHANGED hawlVars
    /\ part # "chain" => UNCHANGED chainVars
    /\ part # "drip" => UNCHANGED dripVars
    /\ UNCHANGED active

Init ==
    /\ active \in Parts
    /\ subject \in IF active = "screen" THEN Cases ELSE {Sound}
    /\ buffer = 0
    /\ AuditInit /\ (active # "audit" => report = Sound /\ holding = "none")
    /\ BreakerInit /\ HawlInit /\ ChainInit /\ DripInit

SetBuffer ==
    /\ buffer' \in Buffers
    /\ UNCHANGED subject

Next ==
    \/ active = "screen" /\ SetBuffer /\ RestOf("screen")
    \/ active = "audit" /\ AuditNext /\ RestOf("audit")
    \/ active = "breaker" /\ BreakerNext /\ RestOf("breaker")
    \/ active = "hawl" /\ HawlNext /\ RestOf("hawl")
    \/ active = "chain" /\ ChainNext /\ RestOf("chain")
    \/ active = "drip" /\ DripNext /\ RestOf("drip")

\* The active part's loops go on, and its days pass.
Spec ==
    /\ Init /\ [][Next]_vars
    /\ WF_auditVars(active = "audit" /\ AuditStep)
    /\ WF_breakerVars(active = "breaker" /\ SnapshotStep)
    /\ \A loop \in Loops : WF_breakerVars(active = "breaker" /\ EndCycle(loop))
    /\ WF_hawlVars(active = "hawl" /\ HawlLoopStep)
    /\ WF_hawlVars(active = "hawl" /\ DayPasses)

TypeOK ==
    /\ AuditTypeOK /\ BreakerTypeOK /\ HawlTypeOK /\ ChainTypeOK /\ DripTypeOK

\* The screen's properties of every symbol and buffer: see module Screening.
ScreenFailsClosed == FailsClosed(subject, buffer)
ScreenNothingLoosens == NothingLoosens(subject, buffer)
ScreenForeignKeepsLimits == ForeignKeepsLimits(subject, buffer)
=============================================================================
