------------------------------ MODULE Signals ------------------------------
(***************************************************************************)
(* The human side of _dispatch_signal: signals that wait for approval, and *)
(* the Telegram buttons that approve them.  A loop queues a signal once    *)
(* and sends a message with a button; a human presses buttons, as often as *)
(* he likes; Telegram keeps the presses until the bot confirms them by     *)
(* asking for later ones; the bot starts a task for each, which resolves   *)
(* the account and executes the BUY.  The process may die anywhere.        *)
(* Which signals are confident enough to be executed without asking is     *)
(* module Cooldown; every account has a worker.                            *)
(***************************************************************************)
EXTENDS Integers, Sequences

CONSTANTS
    Accounts,
    NoAccount,    \* account_id None
    First,        \* the account of the first worker
    Loops,        \* the loops that dispatch
    Owner,        \* account of a loop
    Symbols,
    Found,        \* <<symbol, action>> a loop may find
    MaxPresses,   \* bound on what the human sends
    MaxFailures,  \* bound on insertions that fail and messages that are muted or lost
    MaxCrashes    \* bound on process deaths

ASSUME SignalsAssumption ==
    /\ NoAccount \notin Accounts
    /\ First \in Accounts
    /\ Owner \in [Loops -> Accounts \cup {NoAccount}]
    /\ Symbols # {}
    /\ Found \in [Loops -> SUBSET (Symbols \X {"BUY", "SELL"})]
    /\ MaxPresses \in Nat /\ MaxFailures \in Nat /\ MaxCrashes \in Nat

Sides == {"BUY", "SELL"}
Keys == Symbols \X Sides \X (Accounts \cup {NoAccount})

VARIABLES
    \* dispatch
    pc,          \* where a loop's _dispatch_signal is suspended
    key,         \* what it is dispatching
    open,        \* pending_signals rows not resolved, per key
    closed,      \* resolved ones
    alerted,     \* _signal_alerted: keys announced today, in memory
    chat,        \* keys whose message, with its button, is in the chat
    unsaid,      \* keys a message of which came to nothing, a history only
    failures,
    \* Telegram
    presses,     \* callbacks the human has sent, numbered from 1
    acked,       \* those up to here the server has dropped
    \* telegram_bot_loop and its tasks
    offset,      \* last callback the loop has turned to, in memory
    fetched,     \* last callback of the batch it has in hand
    saying,      \* it awaits _send_message after an account button
    selected,    \* _selected_account
    task,        \* the task of a callback
    target,      \* the account it executes on
    bought,      \* how often execute_trade was called for it, a history only
    crashes

vars == <<pc, key, open, closed, alerted, chat, unsaid, failures, presses, acked,
          offset, fetched, saying, selected, task, target, bought, crashes>>

queue == <<pc, key, open, closed, alerted, chat, unsaid, failures>>
server == <<presses, acked>>
bot == <<offset, fetched, saying, selected>>
tasks == <<task, target, bought>>

Press ==
    [kind : {"approve"}, symbol : Symbols, account : Accounts \cup {NoAccount}]
        \cup [kind : {"account"}, symbol : Symbols, account : Accounts]
Tasks == {"none", "new", "screen", "done", "killed"}
Ids == 1..MaxPresses

TypeOK ==
    /\ pc \in [Loops -> {"idle", "announce", "send"}]
    /\ key \in [Loops -> Keys]
    /\ open \in [Keys -> Nat]
    /\ closed \in [Keys -> Nat]
    /\ alerted \subseteq Keys
    /\ chat \subseteq Keys
    /\ unsaid \subseteq Keys
    /\ failures \in 0..MaxFailures
    /\ presses \in Seq(Press) /\ Len(presses) <= MaxPresses
    /\ acked \in 0..MaxPresses
    /\ offset \in 0..MaxPresses
    /\ fetched \in 0..MaxPresses
    /\ saying \in BOOLEAN
    /\ selected \in Accounts \cup {NoAccount}
    /\ task \in [Ids -> Tasks]
    /\ target \in [Ids -> Accounts \cup {NoAccount}]
    /\ bought \in [Ids -> Nat]
    /\ crashes \in 0..MaxCrashes

SomeKey == CHOOSE k \in Keys : TRUE

Init ==
    /\ pc = [l \in Loops |-> "idle"]
    /\ key = [l \in Loops |-> SomeKey]
    /\ open = [k \in Keys |-> 0]
    /\ closed = [k \in Keys |-> 0]
    /\ alerted = {} /\ chat = {} /\ unsaid = {} /\ failures = 0
    /\ presses = <<>> /\ acked = 0
    /\ offset = 0 /\ fetched = 0 /\ saying = FALSE
    /\ selected = NoAccount
    /\ task = [i \in Ids |-> "none"]
    /\ target = [i \in Ids |-> NoAccount]
    /\ bought = [i \in Ids |-> 0]
    /\ crashes = 0

----------------------------------------------------------------------------
\* Queueing

Rows(k) == open[k] + closed[k]

\* A loop is on the way to the message for k.
Saying(k) == \E l \in Loops : pc[l] # "idle" /\ key[l] = k

\* Mutant: the query asks for rows that are not resolved.
QueuedUnresolved(l, s, a) ==
    IF Owner[l] = NoAccount
    THEN \E b \in Accounts \cup {NoAccount} : open[<<s, a, b>>] > 0
    ELSE open[<<s, a, Owner[l]>>] > 0

\* The query of _dispatch_signal: rows of this account, of any when it has none,
\* resolved or not.
Queued(l, s, a) ==
    IF Owner[l] = NoAccount
    THEN \E b \in Accounts \cup {NoAccount} : Rows(<<s, a, b>>) > 0
    ELSE Rows(<<s, a, Owner[l]>>) > 0

\* One more failure, or none.
Failing(failed) ==
    /\ failed => failures < MaxFailures
    /\ failures' = IF failed THEN failures + 1 ELSE failures

\* A signal is queued unless it is in the table, and its broadcast awaited.  When
\* the insertion fails the call goes on all the same.
Queue(l, s, a, stored) ==
    LET k == <<s, a, Owner[l]>> IN
    /\ pc[l] = "idle"
    /\ ~Queued(l, s, a)
    /\ Failing(~stored)
    /\ open' = IF stored THEN [open EXCEPT ![k] = @ + 1] ELSE open
    /\ pc' = [pc EXCEPT ![l] = "announce"]
    /\ key' = [key EXCEPT ![l] = k]
    /\ UNCHANGED <<closed, alerted, chat, unsaid, server, bot, tasks, crashes>>

\* The call ends: its message has nothing after it.
Return(l) ==
    /\ pc' = [pc EXCEPT ![l] = "idle"]
    /\ key' = [key EXCEPT ![l] = SomeKey]

\* After the broadcast: a message for k is remembered and begun, once a day, unless
\* notify_signals is off.
Message(l, again, muted) ==
    /\ pc[l] = "announce"
    /\ Failing(~again /\ muted)
    /\ alerted' = alerted \cup {key[l]}
    /\ unsaid' = IF ~again /\ muted THEN unsaid \cup {key[l]} ELSE unsaid
    /\ IF again \/ muted THEN Return(l) ELSE pc' = [pc EXCEPT ![l] = "send"] /\ key' = key
    /\ UNCHANGED <<open, closed, chat, server, bot, tasks, crashes>>

\* Mutant: what was announced is remembered without the account.
AnnounceOnceForAll(l, muted) ==
    Message(l, \E k \in alerted : k[1] = key[l][1] /\ k[2] = key[l][2], muted)

Announce(l, muted) == Message(l, key[l] \in alerted, muted)

\* send_alert returns.  Telegram may not have taken the message, and nobody looks.
Sent(l, delivered) ==
    /\ pc[l] = "send"
    /\ Failing(~delivered)
    /\ chat' = IF delivered THEN chat \cup {key[l]} ELSE chat
    /\ unsaid' = IF delivered THEN unsaid ELSE unsaid \cup {key[l]}
    /\ Return(l)
    /\ UNCHANGED <<open, closed, alerted, server, bot, tasks, crashes>>

\* The date changes.
Midnight ==
    /\ alerted' = {}
    /\ UNCHANGED <<pc, key, open, closed, chat, unsaid, failures, server, bot, tasks, crashes>>

\* Mutant: a row is resolved whatever it is.
ResolveAny(k) ==
    /\ open' = [open EXCEPT ![k] = @ - 1]
    /\ closed' = [closed EXCEPT ![k] = @ + 1]
    /\ UNCHANGED <<pc, key, alerted, chat, unsaid, failures, server, bot, tasks, crashes>>

\* POST /pending/{id}/resolve: the row is dismissed and stays in the table.
Resolve(k) ==
    /\ open[k] > 0
    /\ open' = [open EXCEPT ![k] = @ - 1]
    /\ closed' = [closed EXCEPT ![k] = @ + 1]
    /\ UNCHANGED <<pc, key, alerted, chat, unsaid, failures, server, bot, tasks, crashes>>

----------------------------------------------------------------------------
\* Buttons

Send(p) ==
    /\ Len(presses) < MaxPresses
    /\ presses' = Append(presses, p)
    /\ UNCHANGED <<queue, acked, bot, tasks, crashes>>

\* A button under a message is pressed, again perhaps.
PressApprove ==
    \E k \in chat :
        /\ k[2] = "BUY"
        /\ Send([kind |-> "approve", symbol |-> k[1], account |-> k[3]])

\* An account is chosen from the list that /accounts shows.
PressAccount ==
    \E a \in Accounts :
        Send([kind |-> "account", symbol |-> CHOOSE s \in Symbols : TRUE, account |-> a])

\* Mutant: the whole batch is confirmed when it is fetched.
FetchConfirming ==
    /\ fetched = offset /\ ~saying
    /\ acked' = Len(presses)
    /\ fetched' = Len(presses)
    /\ UNCHANGED <<queue, presses, offset, saying, selected, tasks, crashes>>

\* Mutant: the offset that is sent is the last callback handled, not the one after it,
\* so that the server returns that one again.
FetchAgain ==
    /\ fetched = offset /\ ~saying
    /\ acked' = IF offset = 0 THEN 0 ELSE offset - 1
    /\ offset' = acked'
    /\ fetched' = Len(presses)
    /\ UNCHANGED <<queue, presses, saying, selected, tasks, crashes>>

\* getUpdates: the server drops what comes before the offset and returns the rest.
Fetch ==
    /\ fetched = offset /\ ~saying
    /\ acked' = offset
    /\ fetched' = Len(presses)
    /\ UNCHANGED <<queue, presses, offset, saying, selected, tasks, crashes>>

\* Mutant: the account of the button is not looked at.
HandleApproveBare ==
    /\ offset < fetched /\ ~saying
    /\ presses[offset + 1].kind = "approve"
    /\ offset' = offset + 1
    /\ task' = [task EXCEPT ![offset + 1] = "new"]
    /\ UNCHANGED <<queue, server, fetched, saying, selected, target, bought, crashes>>

\* The next callback of the batch.  An approval sets the account its button names and
\* spawns a task; the loop goes on to the next callback without an await.
HandleApprove ==
    LET p == presses[offset + 1] IN
    /\ offset < fetched /\ ~saying
    /\ p.kind = "approve"
    /\ offset' = offset + 1
    /\ selected' = IF p.account = NoAccount THEN selected ELSE p.account
    /\ task' = [task EXCEPT ![offset + 1] = "new"]
    /\ UNCHANGED <<queue, server, fetched, saying, target, bought, crashes>>

\* A choice of account is confirmed by a message, and tasks may run meanwhile.
HandleAccount ==
    /\ offset < fetched /\ ~saying
    /\ presses[offset + 1].kind = "account"
    /\ offset' = offset + 1
    /\ selected' = presses[offset + 1].account
    /\ saying' = TRUE
    /\ UNCHANGED <<queue, server, fetched, tasks, crashes>>

Said ==
    /\ saying
    /\ saying' = FALSE
    /\ UNCHANGED <<queue, server, offset, fetched, selected, tasks, crashes>>

----------------------------------------------------------------------------
\* Approval

\* The loop runs no task while it is between two callbacks of a batch.
LoopFree == offset = fetched \/ saying

\* _handle_signal_approval starts: the worker of the account selected now, or the
\* first one.  When that one is read-only, the task ends.
Resolved(i) ==
    /\ task[i] = "new" /\ LoopFree
    /\ \/ /\ task' = [task EXCEPT ![i] = "screen"]
          /\ target' = [target EXCEPT ![i] = IF selected = NoAccount THEN First ELSE selected]
       \/ /\ task' = [task EXCEPT ![i] = "done"]
          /\ UNCHANGED target
    /\ UNCHANGED <<queue, server, bot, bought, crashes>>

\* The message and the compliance screen are over: the BUY is executed or refused.
Approve(i) ==
    /\ task[i] = "screen" /\ LoopFree
    /\ task' = [task EXCEPT ![i] = "done"]
    /\ target' = [target EXCEPT ![i] = NoAccount]
    /\ \E compliant \in BOOLEAN :
        bought' = IF compliant THEN [bought EXCEPT ![i] = @ + 1] ELSE bought
    /\ UNCHANGED <<queue, server, bot, crashes>>

\* The process dies and starts again: tables and chat stay, memory does not, and the
\* server returns every callback it has not dropped.
Restart ==
    /\ crashes < MaxCrashes
    /\ crashes' = crashes + 1
    /\ pc' = [l \in Loops |-> "idle"]
    /\ key' = [l \in Loops |-> SomeKey]
    /\ alerted' = {}
    /\ unsaid' = unsaid \cup {k \in Keys : Saying(k)}
    /\ offset' = acked /\ fetched' = acked
    /\ saying' = FALSE
    /\ selected' = NoAccount
    /\ task' = [i \in Ids |-> IF task[i] \in {"new", "screen"} THEN "killed" ELSE task[i]]
    /\ target' = [i \in Ids |-> NoAccount]
    /\ UNCHANGED <<open, closed, chat, failures, server, bought>>

Dispatches ==
    \E l \in Loops :
        \/ \E f \in Found[l], stored \in BOOLEAN : Queue(l, f[1], f[2], stored)
        \/ \E muted \in BOOLEAN : Announce(l, muted)
        \/ \E delivered \in BOOLEAN : Sent(l, delivered)
Handle == HandleApprove \/ HandleAccount \/ Said
Human == PressApprove \/ PressAccount \/ \E k \in Keys : Resolve(k)

Next ==
    \/ Dispatches
    \/ Midnight
    \/ Human
    \/ Fetch \/ Handle
    \/ \E i \in Ids : Resolved(i) \/ Approve(i)
    \/ Restart

Spec == Init /\ [][Next]_vars

\* The bot polls, handles what it has fetched, and its tasks go on.
FairSpec ==
    /\ Spec
    /\ WF_vars(Fetch) /\ WF_vars(Handle)
    /\ \A i \in Ids : WF_vars(Resolved(i)) /\ WF_vars(Approve(i))
----------------------------------------------------------------------------
\* A key is queued once and for all: no two rows ask the same thing, and a signal that
\* was dismissed is never proposed again.  The lookup and the insertion have no await
\* between them, and the lookup ignores `resolved'.
OneRowPerKey == \A k \in Keys : Rows(k) <= 1

\* What a loop has queued, the human is asked about, through the account's own message,
\* unless a message of that very signal came to nothing: it was muted, Telegram did not
\* take it, or the process died before it.  The day's memory of what was announced, which
\* all loops share, never swallows another one, in this life or a later one.
QueuedIsAsked ==
    \A k \in Keys : open[k] > 0 /\ k[3] # NoAccount =>
        k \in chat \cup unsaid \/ Saying(k)

\* docs/DEPLOYMENT.md:367: below the threshold a "Telegram approval button appears".
\* A signal whose message is lost waits for ever without one.
ButtonAppears == \A k \in Keys : k \notin unsaid

\* One press executes at most one BUY in the life of a process, however batches of
\* callbacks and polls overlap with the tasks: a second one costs a crash.
OncePerLife == \A i \in Ids : bought[i] <= crashes + 1

\* A BUY is about to be executed on the account its button names, unless a later callback
\* had changed the selection by the time the task started; then on the account of that one.
NamedOrOvertaken ==
    \A i \in Ids :
        task[i] = "screen" /\ presses[i].account # NoAccount =>
            \/ target[i] = presses[i].account
            \/ \E j \in i + 1 .. offset : presses[j].account = target[i]

\* A press is acted upon, unless the process dies after the server has dropped it and
\* before its task is over.
PressAnswered ==
    \A i \in Ids :
        i <= Len(presses) /\ presses[i].kind = "approve" ~>
            task[i] = "done" \/ (task[i] = "killed" /\ i <= acked)

\* docs/DISASTER_RECOVERY.md:12: no double buy of an order from before a crash.
NoDoubleBuy == \A i \in Ids : bought[i] <= 1
============================================================================
