------------------------------- MODULE Hawl_proofs -------------------------------
(***************************************************************************)
(* The clock in hawl.json is the obligation's clock, for a year of any     *)
(* length and any number of crashes, while no update crosses another.      *)
(***************************************************************************)
EXTENDS Hawl, TLAPS

USE HawlAssumption

----------------------------------------------------------------------------
\* The two operators on ages.
LEMMA AgeTypes ==
    ASSUME NEW age \in Ages, NEW isAbove \in BOOLEAN
    PROVE  Older(age) \in Ages /\ Checked(age, isAbove) \in Ages
BY DEF Ages, Older, Checked, NotStarted

LEMMA OlderIsAge == ASSUME NEW age \in Ages PROVE Older(age) \in Ages
BY DEF Ages, Older, NotStarted

LEMMA TypesInit == HawlInit => HawlTypeOK
<1> SUFFICES ASSUME HawlInit PROVE HawlTypeOK
  OBVIOUS
<1>1. NotStarted \in Ages /\ 0 \in 0..MaxDeaths
  BY DEF Ages, NotStarted
<1>2. phase \in [Updaters -> {"idle", "found", "loaded", "saving", "judging"}]
      /\ above \in [Updaters -> BOOLEAN] /\ copy \in [Updaters -> Ages]
  BY <1>1 DEF HawlInit
<1>3. QED
  BY <1>1, <1>2 DEF HawlInit, HawlTypeOK, Attachments, Fates

LEMMA TypesStep == HawlTypeOK /\ [HawlNext]_hawlVars => HawlTypeOK'
<1> SUFFICES ASSUME HawlTypeOK, [HawlNext]_hawlVars PROVE HawlTypeOK'
  OBVIOUS
<1> USE DEF HawlTypeOK, Enters
<1>0. NotStarted \in Ages
  BY DEF Ages, NotStarted
<1>1. ASSUME NEW u \in Updaters, FindValue(u) PROVE HawlTypeOK'
  <2>1. SeemsWealthy \in BOOLEAN
    BY DEF SeemsWealthy
  <2>2. due' \in Ages
    BY <1>1, <2>1, AgeTypes DEF FindValue
  <2>3. crossed' \in BOOLEAN
    BY <1>1 DEF FindValue, Crossing
  <2>4. QED
    BY <1>1, <2>1, <2>2, <2>3 DEF FindValue
<1>2. ASSUME NEW u \in Updaters, LoadHawl(u) PROVE HawlTypeOK'
  BY <1>0, <1>2 DEF LoadHawl
<1>3. ASSUME NEW u \in Updaters, TruncateHawl(u) PROVE HawlTypeOK'
  BY <1>3 DEF TruncateHawl
<1>4. ASSUME NEW u \in Updaters, WriteHawl(u) PROVE HawlTypeOK'
  <2>1. Checked(copy[u], above[u]) \in Ages
    BY AgeTypes
  <2>2. (above[u] /\ u = "loop") \in BOOLEAN
    OBVIOUS
  <2>3. phase' \in [Updaters -> {"idle", "found", "loaded", "saving", "judging"}]
    BY <1>4 DEF WriteHawl
  <2>4. above' \in [Updaters -> BOOLEAN]
    BY <1>4, <2>2 DEF WriteHawl
  <2>5. QED
    BY <1>0, <1>4, <2>1, <2>3, <2>4 DEF WriteHawl
<1>5. ASSUME NEW delivered \in BOOLEAN, JudgeHawl(delivered) PROVE HawlTypeOK'
  <2>1. IsDue \in BOOLEAN
    BY DEF IsDue, Updaters
  <2>2. message' \in Fates
    BY <1>5 DEF JudgeHawl, Fates
  <2>3. QED
    BY <1>5, <2>1, <2>2 DEF JudgeHawl
<1>6. CASE ProcessDies
  <2>1. crossed' \in BOOLEAN
    BY <1>6 DEF ProcessDies
  <2>2. deaths' \in 0..MaxDeaths
    BY <1>6 DEF ProcessDies
  <2>3. QED
    BY <1>0, <1>6, <2>1, <2>2 DEF ProcessDies, Fates
<1>7. CASE PayZakat
  <2>1. crossed' \in BOOLEAN
    BY <1>7 DEF PayZakat
  <2>2. QED
    BY <1>0, <1>7, <2>1 DEF PayZakat
<1>8. CASE DayPasses
  <2>1. Older(Torn) = Torn
    BY DEF Older, Torn
  <2>2. hawl' \in Ages \cup {Torn}
    BY <1>8, <2>1, OlderIsAge DEF DayPasses
  <2>3. copy' \in [Updaters -> Ages] /\ due' \in Ages
    BY <1>8, OlderIsAge DEF DayPasses
  <2>4. QED
    BY <1>8, <2>2, <2>3 DEF DayPasses
<1>9. CASE CrossNisab
  BY <1>9 DEF CrossNisab
<1>10. CASE AttachOrLose
  BY <1>10 DEF AttachOrLose
<1>11. CASE UNCHANGED hawlVars
  BY <1>11 DEF hawlVars
<1>12. QED
  BY <1>1, <1>2, <1>3, <1>4, <1>5, <1>6, <1>7, <1>8, <1>9, <1>10, <1>11
  DEF HawlNext, HawlLoopStep, Updaters

LEMMA HawlTypes == HawlSpec => []HawlTypeOK
<1>1. QED
  BY TypesInit, TypesStep, PTL DEF HawlSpec

----------------------------------------------------------------------------
\* Between its reading and its writing.
Busy(u) == phase[u] \notin {"idle", "judging"}

\* The clock runs with the obligation's, and is no older.
Follows(age, owed) == (age = NotStarted <=> owed = NotStarted) /\ age <= owed

\* While no update crossed another, one at most is busy, and what it is about to write
\* follows the obligation; between updates the file does.
ClockInv ==
    ~crossed =>
        /\ \A u, v \in Updaters : Busy(u) /\ Busy(v) => u = v
        /\ (\A u \in Updaters : ~Busy(u)) => hawl \in Ages /\ Follows(hawl, due)
        /\ \A u \in Updaters :
              /\ phase[u] = "found" => hawl \in Ages /\ Follows(Checked(hawl, above[u]), due)
              /\ phase[u] \in {"loaded", "saving"} => Follows(Checked(copy[u], above[u]), due)

\* A check and a passing day keep one clock behind the other.
LEMMA CheckFollows ==
    ASSUME NEW age \in Ages, NEW owed \in Ages, NEW isAbove \in BOOLEAN, Follows(age, owed)
    PROVE  Follows(Checked(age, isAbove), Checked(owed, isAbove))
BY DEF Ages, Follows, Checked, NotStarted

LEMMA DayFollows ==
    ASSUME NEW age \in Ages, NEW owed \in Ages, NEW isAbove \in BOOLEAN
    PROVE  /\ Follows(age, owed) => Follows(Older(age), Older(owed))
           /\ Follows(Checked(age, isAbove), owed) =>
                  Follows(Checked(Older(age), isAbove), Older(owed))
BY DEF Ages, Follows, Checked, Older, NotStarted

LEMMA ClockStep == HawlTypeOK /\ ClockInv /\ [HawlNext]_hawlVars => ClockInv'
<1> SUFFICES ASSUME HawlTypeOK, ClockInv, [HawlNext]_hawlVars, ~crossed' PROVE ClockInv'
  BY DEF ClockInv
<1>a. phase \in [Updaters -> {"idle", "found", "loaded", "saving", "judging"}]
      /\ above \in [Updaters -> BOOLEAN] /\ copy \in [Updaters -> Ages] /\ due \in Ages
  BY DEF HawlTypeOK
<1>1. ASSUME NEW u \in Updaters, FindValue(u) PROVE ClockInv'
  <2>1. ~crossed /\ \A v \in Updaters \ {u} : ~Busy(v)
    BY <1>1 DEF FindValue, Crossing, Busy
  <2>2. phase[u] = "idle" /\ phase' = [phase EXCEPT ![u] = "found"]
        /\ above' = [above EXCEPT ![u] = SeemsWealthy] /\ due' = Checked(due, SeemsWealthy)
        /\ hawl' = hawl /\ copy' = copy
    BY <1>1 DEF FindValue, Enters
  <2>3. hawl \in Ages /\ Follows(hawl, due)
    BY <2>1, <2>2 DEF ClockInv, Busy
  <2>4. SeemsWealthy \in BOOLEAN
    BY DEF SeemsWealthy, HawlTypeOK
  <2>5. Follows(Checked(hawl, SeemsWealthy), due')
    BY <1>a, <2>2, <2>3, <2>4, CheckFollows
  <2>6. phase'[u] = "found" /\ above'[u] = SeemsWealthy
        /\ \A v \in Updaters \ {u} : phase'[v] = phase[v]
    BY <1>a, <2>2
  <2>7. QED
    BY <2>1, <2>2, <2>3, <2>5, <2>6 DEF ClockInv, Busy
<1>2. ASSUME NEW u \in Updaters, LoadHawl(u) PROVE ClockInv'
  <2>1. phase[u] = "found" /\ phase' = [phase EXCEPT ![u] = "loaded"]
        /\ copy' = [copy EXCEPT ![u] = IF hawl = Torn THEN NotStarted ELSE hawl]
        /\ UNCHANGED <<hawl, above, due, crossed>>
    BY <1>2 DEF LoadHawl, Enters
  <2>2. hawl \in Ages /\ Follows(Checked(hawl, above[u]), due)
    BY <2>1 DEF ClockInv
  <2>3. hawl # Torn
    BY <2>2 DEF Ages, NotStarted, Torn
  <2>4. phase'[u] = "loaded" /\ copy'[u] = hawl
        /\ \A v \in Updaters \ {u} : phase'[v] = phase[v]
    BY <1>a, <2>1, <2>3
  <2>5. \A v \in Updaters \ {u} : ~Busy(v)
    BY <2>1 DEF ClockInv, Busy
  <2>6. QED
    BY <2>1, <2>2, <2>4, <2>5 DEF ClockInv, Busy
<1>3. ASSUME NEW u \in Updaters, TruncateHawl(u) PROVE ClockInv'
  <2>1. phase[u] = "loaded" /\ phase' = [phase EXCEPT ![u] = "saving"]
        /\ UNCHANGED <<above, copy, due, crossed>>
    BY <1>3 DEF TruncateHawl, Enters
  <2>2. Follows(Checked(copy[u], above[u]), due) /\ \A v \in Updaters \ {u} : ~Busy(v)
    BY <2>1 DEF ClockInv, Busy
  <2>3. phase'[u] = "saving" /\ \A v \in Updaters \ {u} : phase'[v] = phase[v]
    BY <1>a, <2>1
  <2>4. QED
    BY <2>1, <2>2, <2>3 DEF ClockInv, Busy
<1>4. ASSUME NEW u \in Updaters, WriteHawl(u) PROVE ClockInv'
  <2>1. phase[u] = "saving" /\ hawl' = Checked(copy[u], above[u])
        /\ phase' = [phase EXCEPT ![u] = IF u = "loop" THEN "judging" ELSE "idle"]
        /\ UNCHANGED <<due, crossed>>
    BY <1>4 DEF WriteHawl, Enters
  <2>2. Follows(hawl', due) /\ \A v \in Updaters \ {u} : ~Busy(v)
    BY <2>1 DEF ClockInv, Busy
  <2>3. hawl' \in Ages
    BY <1>a, <2>1, AgeTypes
  <2>4. phase'[u] \in {"judging", "idle"} /\ \A v \in Updaters \ {u} : phase'[v] = phase[v]
    BY <1>a, <2>1
  <2>5. QED
    BY <2>1, <2>2, <2>3, <2>4 DEF ClockInv, Busy
<1>5. ASSUME NEW delivered \in BOOLEAN, JudgeHawl(delivered) PROVE ClockInv'
  <2>1. phase["loop"] = "judging" /\ phase' = [phase EXCEPT !["loop"] = "idle"]
        /\ above' = [above EXCEPT !["loop"] = FALSE] /\ UNCHANGED <<hawl, copy, due, crossed>>
    BY <1>5 DEF JudgeHawl, Enters
  <2>2. phase'["loop"] = "idle" /\ \A v \in Updaters \ {"loop"} :
            phase'[v] = phase[v] /\ above'[v] = above[v]
    BY <1>a, <2>1 DEF Updaters
  <2>3. QED
    BY <2>1, <2>2 DEF ClockInv, Busy
<1>6. CASE ProcessDies
  <2>1. ~crossed /\ \A v \in Updaters : ~Busy(v)
    BY <1>6 DEF ProcessDies, Busy
  <2>2. hawl' = hawl /\ due' = due /\ \A v \in Updaters : phase'[v] = "idle"
    BY <1>6 DEF ProcessDies
  <2>3. QED
    BY <2>1, <2>2 DEF ClockInv, Busy
<1>7. CASE PayZakat
  <2>1. ~crossed /\ \A v \in Updaters : ~Busy(v)
    BY <1>7 DEF PayZakat, Busy
  <2>2. hawl' = NotStarted /\ due' = NotStarted /\ phase' = phase
    BY <1>7 DEF PayZakat
  <2>3. NotStarted \in Ages /\ Follows(NotStarted, NotStarted)
    BY DEF Ages, Follows, NotStarted
  <2>4. QED
    BY <2>1, <2>2, <2>3 DEF ClockInv, Busy
<1>8. CASE DayPasses
  <2>1. hawl' = Older(hawl) /\ due' = Older(due) /\ UNCHANGED <<phase, above, crossed>>
        /\ copy' = [u \in Updaters |-> Older(copy[u])]
    BY <1>8 DEF DayPasses
  <2>2. \A u \in Updaters : copy'[u] = Older(copy[u])
    BY <2>1
  <2>3. hawl \in Ages => hawl' \in Ages
    BY <2>1, OlderIsAge
  <2>4. hawl \in Ages /\ Follows(hawl, due) => Follows(hawl', due')
    BY <1>a, <2>1, DayFollows
  <2>5. ASSUME NEW u \in Updaters, hawl \in Ages, Follows(Checked(hawl, above[u]), due)
        PROVE  Follows(Checked(hawl', above'[u]), due')
    BY <1>a, <2>1, <2>5, DayFollows
  <2>6. ASSUME NEW u \in Updaters, Follows(Checked(copy[u], above[u]), due)
        PROVE  Follows(Checked(copy'[u], above'[u]), due')
    BY <1>a, <2>1, <2>2, <2>6, DayFollows
  <2>7. QED
    BY <2>1, <2>3, <2>4, <2>5, <2>6 DEF ClockInv, Busy
<1>9. CASE UNCHANGED <<hawl, phase, above, copy, due, crossed>>
  BY <1>9 DEF ClockInv, Busy
<1>10. CASE CrossNisab \/ AttachOrLose \/ UNCHANGED hawlVars
  BY <1>9, <1>10 DEF CrossNisab, AttachOrLose, hawlVars
<1>11. QED
  BY <1>1, <1>2, <1>3, <1>4, <1>5, <1>6, <1>7, <1>8, <1>10 DEF HawlNext, HawlLoopStep, Updaters

LEMMA ClockBegins == HawlInit => ClockInv
BY DEF HawlInit, ClockInv, Busy, Ages, Follows, NotStarted

LEMMA ClockSuffices == HawlTypeOK /\ ClockInv => ClockIsEarned
BY DEF ClockInv, ClockIsEarned, Busy, Follows

\* While no update crosses another, hawl.json runs exactly when the obligation does and is
\* never older than it.
THEOREM ClockEarned == HawlSpec => []ClockIsEarned
<1>1. QED
  BY ClockBegins, ClockSuffices, ClockStep, HawlTypes, PTL DEF HawlSpec
=============================================================================
