---------------------------- MODULE ComplianceAudit ----------------------------
(***************************************************************************)
(* One symbol's standing: the screening cache the BUY gate reads, manual   *)
(* verifications that come and go beside it, and compliance_audit_loop,    *)
(* which screens what is held past the cache with the buffer of the day    *)
(* and sells what it finds.  The symbol has no exchange suffix.  What      *)
(* execute_trade does with the SELL is module TradeExecution's business.   *)
(***************************************************************************)
EXTENDS Screening

CONSTANTS
    Reports,     \* what the sources may answer: cases without a verification
    Levels,      \* values of the VIX
    Setting,     \* ratio_buffer
    Autosell     \* critical_auto_sell

VARIABLES
    report,      \* what the sources hold now
    verified,    \* the entry in manual_compliance.json
    cached,      \* the entry in _screen_cache, younger than a day
    fill,        \* the verdict of a screen whose caller has not stored it yet
    open,
    failing,     \* the broker is away, or a step of the audit raises
    holding,     \* who holds the symbol: a whole share or more, or a fraction
    step,        \* where the audit is
    finding      \* what it has in hands

auditEnv == <<report, open, failing>>
cacheVars == <<verified, cached, fill>>
loopVars == <<step, finding>>
auditVars == <<report, verified, cached, fill, open, failing, holding, step, finding>>

Verdicts == {"COMPLIANT", "NON_COMPLIANT", "DOUBTFUL", "UNKNOWN"}
Absent == [verdict |-> "none", manual |-> FALSE, late |-> FALSE]
Entries == [verdict : Verdicts, manual : BOOLEAN, late : BOOLEAN] \cup {Absent}
NoFinding == [verdict |-> "none", proven |-> FALSE, holder |-> "none"]
Holders == {"none", "primary", "fraction", "secondary"}

AuditTypeOK ==
    /\ report \in Reports /\ verified \in {"none", "valid", "expired"}
    /\ cached \in Entries /\ fill \in Entries
    /\ open \in BOOLEAN /\ failing \in BOOLEAN
    /\ holding \in Holders
    /\ step \in {"asleep", "holding", "judging", "liquidating"}
    /\ finding \in [verdict : Verdicts, proven : BOOLEAN, holder : Holders] \cup {NoFinding}

\* The symbol as live_shariah_screen finds it.
Case ==
    [raises |-> report.raises, allowlisted |-> report.allowlisted, verified |-> verified = "valid",
     yahoo |-> report.yahoo, fmp |-> report.fmp, av |-> report.av,
     zoya |-> report.zoya, musaffa |-> report.musaffa]

\* What is known against it: a limit reached, a business, a fund without a mandate, a
\* certifier.  Data that is missing is not.
Proven(c, buffer) ==
    LET d == Merged(c)
        answer == FetchShariahVerdict(c.zoya, c.musaffa)
    IN
    /\ ~c.raises
    /\ CASE d.kind = "none" -> answer \in {"haram", "doubtful"}
         [] d.kind \in {"ETF", "MUTUALFUND"} -> ~d.certified
         [] OTHER -> \/ Excesses(d, buffer) \cup BusinessReasons(d) # {}
                     \/ answer \in {"haram", "doubtful"}

AuditInit ==
    /\ report \in Reports /\ verified = "none"
    /\ cached = Absent /\ fill = Absent
    /\ open = FALSE /\ failing = FALSE
    /\ holding \in Holders
    /\ step = "asleep" /\ finding = NoFinding

----------------------------------------------------------------------------
\* A screen without a buffer misses the cache and looks at everything ...
StartFill ==
    /\ cached = Absent /\ fill = Absent
    /\ fill' = [verdict |-> LiveShariahScreen(Case, Setting),
                manual |-> verified = "valid" /\ ~report.raises /\ ~report.allowlisted,
                late |-> FALSE]
    /\ UNCHANGED <<auditEnv, verified, cached, holding, loopVars>>

\* ... and stores what it found, whatever happened meanwhile.
EndFill ==
    /\ fill # Absent
    /\ cached' = fill /\ fill' = Absent
    /\ UNCHANGED <<auditEnv, verified, holding, loopVars>>

\* A day passes, or POST /screen/cache/clear.
DropCached ==
    /\ cached # Absent /\ cached' = Absent
    /\ UNCHANGED <<auditEnv, verified, fill, holding, loopVars>>

\* The entry is dropped; a screen that is under way does not hear of it.
Invalidate ==
    /\ cached' = Absent
    /\ fill' = IF fill = Absent THEN Absent ELSE [fill EXCEPT !.late = TRUE]

ManualVerify ==
    /\ verified' = "valid"
    /\ Invalidate
    /\ UNCHANGED <<auditEnv, holding, loopVars>>

\* Mutant: the file is written and the cache left alone.
ManualUnverifyQuiet ==
    /\ verified # "none" /\ verified' = "none"
    /\ UNCHANGED <<auditEnv, cached, fill, holding, loopVars>>

ManualUnverify ==
    /\ verified # "none" /\ verified' = "none"
    /\ Invalidate
    /\ UNCHANGED <<auditEnv, holding, loopVars>>

VerificationExpires ==
    /\ verified = "valid" /\ verified' = "expired"
    /\ UNCHANGED <<auditEnv, cached, fill, holding, loopVars>>

\* A BUY of the primary account passes the gate.
BuyScreened ==
    /\ cached.verdict = "COMPLIANT"
    /\ open /\ holding = "none"
    /\ holding' \in {"primary", "fraction"}
    /\ UNCHANGED <<auditEnv, cacheVars, loopVars>>

----------------------------------------------------------------------------
\* The audit wakes up connected and finds the symbol among the positions of any account.
WakeUp ==
    /\ step = "asleep" /\ ~failing
    /\ holding # "none"
    /\ step' = "holding"
    /\ finding' = NoFinding
    /\ UNCHANGED <<auditEnv, cacheVars, holding>>

\* It screens past the cache, with the VIX of the day, or with 20 if that cannot be had.
ScreenHeld ==
    /\ step = "holding"
    /\ \E level \in Levels \cup {FallbackVix} :
          finding' = [verdict |-> LiveShariahScreen(Case, AuditBuffer(Setting, level)),
                      proven |-> Proven(Case, AuditBuffer(Setting, level)),
                      holder |-> holding]
    /\ step' = "judging"
    /\ UNCHANGED <<auditEnv, cacheVars, holding>>

\* The kill switch: int(quantity) of a fraction is 0, and a closed market defers it to
\* the next audit.
Kills(f) ==
    /\ f.verdict \notin {"COMPLIANT", "UNKNOWN"} /\ Autosell
    /\ f.holder \in {"primary", "secondary"} /\ open

JudgeHeld ==
    /\ step = "judging"
    /\ step' = IF Kills(finding) THEN "liquidating" ELSE "asleep"
    /\ UNCHANGED <<auditEnv, cacheVars, holding, finding>>

\* The SELL goes to the primary account, whoever holds the shares.
Liquidate ==
    /\ step = "liquidating"
    /\ holding' \in IF holding = "primary" THEN {"primary", "none"} ELSE {holding}
    /\ step' = "asleep" /\ finding' = NoFinding
    /\ UNCHANGED <<auditEnv, cacheVars>>

\* Mutant: nothing catches it, and the loop is over.
AuditRaisesForGood ==
    /\ step # "asleep" /\ failing
    /\ step' = "ended" /\ finding' = NoFinding
    /\ UNCHANGED <<auditEnv, cacheVars, holding>>

\* Any exception ends the whole audit until the next one.
AuditRaises ==
    /\ step # "asleep" /\ failing
    /\ step' = "asleep" /\ finding' = NoFinding
    /\ UNCHANGED <<auditEnv, cacheVars, holding>>

AuditStep == WakeUp \/ ScreenHeld \/ JudgeHeld \/ Liquidate \/ AuditRaises

----------------------------------------------------------------------------
Publish ==
    /\ report' \in Reports \ {report}
    /\ UNCHANGED <<cacheVars, open, failing, holding, loopVars>>

OpenOrClose ==
    /\ open' = ~open
    /\ UNCHANGED <<cacheVars, report, failing, holding, loopVars>>

FailOrMend ==
    /\ failing' = ~failing
    /\ UNCHANGED <<cacheVars, report, open, holding, loopVars>>

AuditNext ==
    \/ AuditStep
    \/ StartFill \/ EndFill \/ DropCached
    \/ ManualVerify \/ ManualUnverify \/ VerificationExpires
    \/ BuyScreened
    \/ Publish \/ OpenOrClose \/ FailOrMend

AuditSpec == AuditInit /\ [][AuditNext]_auditVars

----------------------------------------------------------------------------
\* The cache vouches for a symbol by a manual verification only while there is one, unless
\* it was removed in the middle of the very screen that stored the verdict.
UnverifiedIsForgotten == cached.manual /\ ~cached.late => verified # "none"

\* What the primary account keeps holding in whole shares while the sources keep speaking
\* against it, the market is open and nothing fails.
Tainted ==
    /\ holding = "primary" /\ verified # "valid" /\ open /\ ~failing
    /\ LiveShariahScreen(Case, Setting) = "NON_COMPLIANT"

\* Such a holding is sold, and sold again after every refusal, whatever the VIX says and
\* however the buffer tightens.
TaintedIsSold == Autosell => (<>[]Tainted => []<>(step = "liquidating"))

\* compliance/loops.py:132, "Never auto-liquidate on a data gap": the kill switch moves
\* only on something known against the symbol.
GapNeverLiquidates == step = "liquidating" => finding.proven
=============================================================================
