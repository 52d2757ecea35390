--------------------------------- MODULE Hawl ---------------------------------
(***************************************************************************)
(* The lunar year of Zakat: zakat_monitoring_loop and GET /hawl both read  *)
(* the portfolio, then read hawl.json, change it and write it back, each   *)
(* in a thread; the file is truncated before it is written.  A payment     *)
(* resets it.  Times are ages, which stop growing when the year is full.   *)
(***************************************************************************)
EXTENDS Integers

CONSTANTS
    Year,      \* _LUNAR_YEAR_DAYS
    MaxDeaths  \* bound on the crashes

ASSUME HawlAssumption == Year \in Nat \ {0} /\ MaxDeaths \in Nat

VARIABLES
    wealthy,     \* the portfolio is worth nisab or more
    attached,    \* "no" connection, an "empty" one that has no account values yet, or "yes"
    hawl,        \* hawl.json: the age of hawl_start
    phase,       \* where each updater is
    above,       \* what each found
    copy,        \* what each loaded
    alertedDue,  \* _hawl_alerted_due
    message,     \* what became of the message it stands for, a history only
    due,         \* the age of the clock as it ought to be
    crossed,     \* an updater or a payment got in the way of another
    deaths

Updaters == {"loop", "page"}
NotStarted == -1
Ages == NotStarted..Year
Torn == -2
Fates == {"none", "told", "lost"}
Attachments == {"no", "empty", "yes"}
hawlVars ==
    <<wealthy, attached, hawl, phase, above, copy, alertedDue, message, due, crossed, deaths>>

HawlTypeOK ==
    /\ wealthy \in BOOLEAN /\ attached \in Attachments
    /\ hawl \in Ages \cup {Torn}
    /\ phase \in [Updaters -> {"idle", "found", "loaded", "saving", "judging"}]
    /\ above \in [Updaters -> BOOLEAN] /\ copy \in [Updaters -> Ages]
    /\ alertedDue \in BOOLEAN /\ message \in Fates
    /\ due \in Ages /\ crossed \in BOOLEAN /\ deaths \in 0..MaxDeaths

HawlInit ==
    /\ wealthy = FALSE /\ attached = "no"
    /\ hawl = NotStarted
    /\ phase = [u \in Updaters |-> "idle"]
    /\ above = [u \in Updaters |-> FALSE] /\ copy = [u \in Updaters |-> NotStarted]
    /\ alertedDue = FALSE /\ message = "none"
    /\ due = NotStarted /\ crossed = FALSE /\ deaths = 0

Enters(u, place) == phase' = [phase EXCEPT ![u] = place]

\* hawl_start after a check: it starts, goes on or is reset.
Checked(age, isAbove) ==
    IF ~isAbove THEN NotStarted ELSE IF age = NotStarted THEN 0 ELSE age

\* Somebody else is between its reading and its writing.
Crossing(u) == crossed' = (crossed \/ \E v \in Updaters \ {u} : phase[v] \notin {"idle", "judging"})

\* The portfolio as get_net_liquidation gives it: 0 until the account values are there.
SeemsWealthy == wealthy /\ attached = "yes"

\* The loop looks while it is connected; the page takes 0 for a portfolio it cannot see.
FindValue(u) ==
    /\ phase[u] = "idle"
    /\ u = "loop" => attached # "no"
    /\ above' = [above EXCEPT ![u] = SeemsWealthy]
    /\ due' = Checked(due, SeemsWealthy)
    /\ Crossing(u)
    /\ Enters(u, "found")
    /\ UNCHANGED <<wealthy, attached, hawl, copy, alertedDue, message, deaths>>

\* _load; a file that is empty at the moment reads as a year not started.
LoadHawl(u) ==
    /\ phase[u] = "found"
    /\ copy' = [copy EXCEPT ![u] = IF hawl = Torn THEN NotStarted ELSE hawl]
    /\ Enters(u, "loaded")
    /\ UNCHANGED <<wealthy, attached, hawl, above, alertedDue, message, due, crossed, deaths>>

TruncateHawl(u) ==
    /\ phase[u] = "loaded"
    /\ hawl' = Torn
    /\ Enters(u, "saving")
    /\ UNCHANGED <<wealthy, attached, above, copy, alertedDue, message, due, crossed, deaths>>

\* Mutant: below nisab the clock is left as it is.
WriteHawlKept(u) ==
    /\ phase[u] = "saving"
    /\ hawl' = IF above[u] THEN Checked(copy[u], TRUE) ELSE copy[u]
    /\ Enters(u, IF u = "loop" THEN "judging" ELSE "idle")
    /\ above' = [above EXCEPT ![u] = above[u] /\ u = "loop"]
    /\ copy' = [copy EXCEPT ![u] = NotStarted]
    /\ UNCHANGED <<wealthy, attached, alertedDue, message, due, crossed, deaths>>

\* Mutant: every check that finds nisab starts the year.
WriteHawlAnew(u) ==
    /\ phase[u] = "saving"
    /\ hawl' = IF above[u] THEN 0 ELSE NotStarted
    /\ Enters(u, IF u = "loop" THEN "judging" ELSE "idle")
    /\ above' = [above EXCEPT ![u] = above[u] /\ u = "loop"]
    /\ copy' = [copy EXCEPT ![u] = NotStarted]
    /\ UNCHANGED <<wealthy, attached, alertedDue, message, due, crossed, deaths>>

\* update_hawl is done; the page answers, the loop judges.
WriteHawl(u) ==
    /\ phase[u] = "saving"
    /\ hawl' = Checked(copy[u], above[u])
    /\ Enters(u, IF u = "loop" THEN "judging" ELSE "idle")
    /\ above' = [above EXCEPT ![u] = above[u] /\ u = "loop"]
    /\ copy' = [copy EXCEPT ![u] = NotStarted]
    /\ UNCHANGED <<wealthy, attached, alertedDue, message, due, crossed, deaths>>

IsDue == above["loop"] /\ hawl = Year

\* get_hawl_status loads the file again; ZAKAT IS DUE goes out once for each due year, and
\* counts as said whatever send_telegram returns.
JudgeHawl(delivered) ==
    /\ phase["loop"] = "judging"
    /\ alertedDue' = IsDue
    /\ message' = IF ~IsDue THEN "none"
                  ELSE IF alertedDue THEN message
                  ELSE IF delivered THEN "told" ELSE "lost"
    /\ Enters("loop", "idle") /\ above' = [above EXCEPT !["loop"] = FALSE]
    /\ UNCHANGED <<wealthy, attached, hawl, copy, due, crossed, deaths>>

\* The process dies, in the middle of a write perhaps, and starts again.
ProcessDies ==
    /\ deaths < MaxDeaths /\ deaths' = deaths + 1
    /\ phase' = [u \in Updaters |-> "idle"]
    /\ above' = [u \in Updaters |-> FALSE] /\ copy' = [u \in Updaters |-> NotStarted]
    /\ alertedDue' = FALSE /\ message' = "none"
    /\ crossed' = (crossed \/ \E u \in Updaters : phase[u] \notin {"idle", "judging"})
    /\ UNCHANGED <<wealthy, attached, hawl, due>>

\* POST /hawl/reset.
PayZakat ==
    /\ hawl # NotStarted
    /\ hawl' = NotStarted /\ due' = NotStarted
    /\ crossed' = (crossed \/ \E u \in Updaters : phase[u] \notin {"idle", "judging"})
    /\ UNCHANGED <<wealthy, attached, phase, above, copy, alertedDue, message, deaths>>

\* A start that is older than a year is due all the same.
Older(age) == IF age \in 0..(Year - 1) THEN age + 1 ELSE age

DayPasses ==
    /\ hawl' = Older(hawl) /\ due' = Older(due)
    /\ copy' = [u \in Updaters |-> Older(copy[u])]
    /\ UNCHANGED <<wealthy, attached, phase, above, alertedDue, message, crossed, deaths>>

CrossNisab ==
    /\ wealthy' = ~wealthy
    /\ UNCHANGED <<attached, hawl, phase, above, copy, alertedDue, message, due, crossed, deaths>>

AttachOrLose ==
    /\ attached' \in Attachments \ {attached}
    /\ UNCHANGED <<wealthy, hawl, phase, above, copy, alertedDue, message, due, crossed, deaths>>

HawlLoopStep ==
    \/ FindValue("loop") \/ LoadHawl("loop") \/ TruncateHawl("loop") \/ WriteHawl("loop")
    \/ \E delivered \in BOOLEAN : JudgeHawl(delivered)

HawlNext ==
    \/ HawlLoopStep
    \/ FindValue("page") \/ LoadHawl("page") \/ TruncateHawl("page") \/ WriteHawl("page")
    \/ ProcessDies \/ PayZakat \/ DayPasses \/ CrossNisab \/ AttachOrLose

HawlSpec == HawlInit /\ [][HawlNext]_hawlVars

----------------------------------------------------------------------------
\* The clock is the obligation's: while no update crossed another, hawl.json runs exactly
\* when every look since its start found the portfolio at nisab and none was paid, and a
\* year is full in it no earlier than it is.
ClockIsEarned ==
    ~crossed /\ (\A u \in Updaters : phase[u] \in {"idle", "judging"}) =>
        /\ hawl = NotStarted <=> due = NotStarted
        /\ hawl <= due

\* Nisab is kept, a year of it has passed unpaid, and only the loop looks.
Outstanding == SeemsWealthy /\ phase["page"] = "idle" /\ due = Year

\* A year that is due and stays so is sent to the human in the end, and not given up again,
\* even where the file lost its start to a crash or to a page that saw no portfolio.  It is
\* sent once in the life of the process: Telegram may lose that message.
DueIsSent ==
    <>[]Outstanding => <>[](message \in {"told", "lost"})

\* The comment on the flag: "prevent repeat alerts once already notified".  It prevents them
\* after a message that nobody got, too.
FlagMeansTold == alertedDue => message = "told"
=============================================================================
