---------------------------- MODULE Signals_proofs ----------------------------
(***************************************************************************)
(* For all accounts, loops and symbols, any number of presses and crashes: *)
(* one row per signal, one BUY per press and life, and whose account the   *)
(* BUY lands on.                                                           *)
(***************************************************************************)
EXTENDS Signals, TLAPS

LEMMA SomeKeyIsKey == SomeKey \in Keys
<1>1. PICK s \in Symbols : TRUE
  BY SignalsAssumption
<1>2. <<s, "BUY", First>> \in Keys
  BY SignalsAssumption DEF Keys, Sides
<1> QED BY <1>2 DEF SomeKey

LEMMA FoundIsKey ==
    ASSUME NEW l \in Loops, NEW f \in Found[l]
    PROVE  <<f[1], f[2], Owner[l]>> \in Keys
BY SignalsAssumption DEF Keys, Sides

\* Counting one more row, or one less, under a key.
LEMMA AddRow ==
    ASSUME NEW f \in [Keys -> Nat], NEW k \in Keys
    PROVE  /\ [f EXCEPT ![k] = @ + 1] \in [Keys -> Nat]
           /\ \A m \in Keys : [f EXCEPT ![k] = @ + 1][m] = IF m = k THEN f[m] + 1 ELSE f[m]
OBVIOUS

\* A press has the number of its place, within the bound.
LEMMA PressInRange ==
    ASSUME TypeOK
    PROVE  /\ Len(presses) \in 0..MaxPresses
           /\ \A i \in 1..Len(presses) : presses[i] \in Press /\ i \in Ids
BY SignalsAssumption DEF TypeOK, Ids

\* Where the server, the loop's batch and the human have got to, in this order.
Progress == acked <= offset /\ offset <= fetched /\ fetched <= Len(presses)

\* A task is of a press that the loop has turned to, and has not bought in this life.
OnceEach ==
    \A i \in Ids :
        /\ bought[i] <= crashes + 1
        /\ task[i] \in {"new", "screen"} => i <= offset /\ bought[i] <= crashes
        /\ offset < i => bought[i] <= crashes

\* While a task has not started, the selection is its button's or a later callback's.
Wanted ==
    \A i \in Ids :
        task[i] = "new" /\ presses[i].account # NoAccount =>
            /\ selected # NoAccount
            /\ \/ selected = presses[i].account
               \/ \E j \in i + 1 .. offset : presses[j].account = selected

SignalsInv == TypeOK /\ Progress /\ OneRowPerKey /\ OnceEach /\ Wanted /\ NamedOrOvertaken

LEMMA Initially == Init => SignalsInv
<1> SUFFICES ASSUME Init PROVE SignalsInv
  OBVIOUS
<1> USE SignalsAssumption
<1>1. TypeOK
  <2>1. pc \in [Loops -> {"idle", "announce", "send"}] /\ key \in [Loops -> Keys]
    BY SomeKeyIsKey DEF Init
  <2>2. open \in [Keys -> Nat] /\ closed \in [Keys -> Nat]
    BY DEF Init
  <2>3. presses \in Seq(Press) /\ Len(presses) <= MaxPresses
    BY DEF Init
  <2>4. task \in [Ids -> Tasks] /\ target \in [Ids -> Accounts \cup {NoAccount}]
        /\ bought \in [Ids -> Nat]
    BY DEF Init, Tasks
  <2>5. alerted \subseteq Keys /\ chat \subseteq Keys /\ unsaid \subseteq Keys /\ saying \in BOOLEAN
        /\ selected \in Accounts \cup {NoAccount}
    BY DEF Init
  <2>6. acked \in 0..MaxPresses /\ offset \in 0..MaxPresses /\ fetched \in 0..MaxPresses
        /\ crashes \in 0..MaxCrashes /\ failures \in 0..MaxFailures
    BY DEF Init
  <2> QED BY <2>1, <2>2, <2>3, <2>4, <2>5, <2>6 DEF TypeOK
<1>2. Progress
  BY DEF Init, Progress
<1>3. OneRowPerKey
  BY DEF Init, OneRowPerKey, Rows
<1>4. OnceEach /\ Wanted /\ NamedOrOvertaken
  BY DEF Init, OnceEach, Wanted, NamedOrOvertaken
<1> QED BY <1>1, <1>2, <1>3, <1>4 DEF SignalsInv

LEMMA FailingCounts ==
    ASSUME failures \in 0..MaxFailures, NEW failed \in BOOLEAN, Failing(failed)
    PROVE  failures' \in 0..MaxFailures
BY SignalsAssumption DEF Failing

\* What the dispatching side does preserves everything, for it leaves the bot alone.
LEMMA QueueSide ==
    ASSUME SignalsInv,
           Dispatches \/ Midnight \/ \E k \in Keys : Resolve(k)
    PROVE  SignalsInv'
<1>1. UNCHANGED <<presses, acked, offset, fetched, saying, selected, task, target, bought, crashes>>
  BY DEF Dispatches, Queue, Announce, Message, Sent, Midnight, Resolve, server, bot, tasks
<1>2. Progress' /\ OnceEach' /\ Wanted' /\ NamedOrOvertaken'
  BY <1>1 DEF SignalsInv, Progress, OnceEach, Wanted, NamedOrOvertaken
<1>3. ASSUME NEW l \in Loops, NEW f \in Found[l], NEW stored \in BOOLEAN,
             Queue(l, f[1], f[2], stored)
      PROVE  TypeOK' /\ OneRowPerKey'
  <2> DEFINE k == <<f[1], f[2], Owner[l]>>
  <2>1. k \in Keys
    BY FoundIsKey
  <2>2. ~Queued(l, f[1], f[2])
    BY <1>3 DEF Queue
  <2>3. Rows(k) \in Int /\ Rows(k) >= 0
    BY <2>1 DEF SignalsInv, TypeOK, Rows
  <2>4. Rows(k) = 0
    <3>1. CASE Owner[l] = NoAccount
      BY <2>2, <2>3, <3>1 DEF Queued
    <3>2. CASE Owner[l] # NoAccount
      BY <2>2, <2>3, <3>2 DEF Queued
    <3> QED BY <3>1, <3>2
  <2>5. open' = [open EXCEPT ![k] = @ + 1] \/ open' = open
    BY <1>3 DEF Queue
  <2>6. closed' = closed
    BY <1>3 DEF Queue
  <2> HIDE DEF k
  <2>t. open \in [Keys -> Nat] /\ closed \in [Keys -> Nat]
    BY DEF SignalsInv, TypeOK
  <2>e. \A m \in Keys : open[m] + closed[m] <= 1
    BY DEF SignalsInv, OneRowPerKey, Rows
  <2>z. open[k] + closed[k] = 0
    BY <2>4 DEF Rows
  <2>8. open' \in [Keys -> Nat]
    BY <2>1, <2>5, <2>t, AddRow
  <2>7. OneRowPerKey'
    <3>1. \A m \in Keys : open'[m] = open[m] \/ (m = k /\ open'[m] = open[m] + 1)
      BY <2>1, <2>5, <2>t, AddRow
    <3> QED BY <2>z, <2>e, <2>t, <2>6, <3>1 DEF OneRowPerKey, Rows
  <2>9. key' \in [Loops -> Keys] /\ pc' \in [Loops -> {"idle", "announce", "send"}]
        /\ alerted' = alerted /\ chat' = chat /\ unsaid' = unsaid
    BY <1>3, <2>1 DEF Queue, k, SignalsInv, TypeOK
  <2>10. failures' \in 0..MaxFailures
    BY <1>3, FailingCounts DEF Queue, SignalsInv, TypeOK
  <2> QED BY <1>1, <2>6, <2>7, <2>8, <2>9, <2>10 DEF SignalsInv, TypeOK
<1>4. ASSUME NEW l \in Loops, NEW bad \in BOOLEAN, Announce(l, bad) \/ Sent(l, bad)
      PROVE  TypeOK' /\ OneRowPerKey'
  <2>1. key' \in [Loops -> Keys] /\ pc' \in [Loops -> {"idle", "announce", "send"}]
    BY <1>4, SomeKeyIsKey DEF Announce, Message, Sent, Return, SignalsInv, TypeOK
  <2>2. alerted' \subseteq Keys /\ chat' \subseteq Keys /\ unsaid' \subseteq Keys
    BY <1>4 DEF Announce, Message, Sent, SignalsInv, TypeOK
  <2>3. UNCHANGED <<open, closed>>
    BY <1>4 DEF Announce, Message, Sent
  <2>4. failures' \in 0..MaxFailures
    BY <1>4, FailingCounts DEF Announce, Message, Sent, SignalsInv, TypeOK
  <2> QED BY <1>1, <2>1, <2>2, <2>3, <2>4 DEF SignalsInv, TypeOK, OneRowPerKey, Rows
<1>5. ASSUME Midnight PROVE TypeOK' /\ OneRowPerKey'
  BY <1>1, <1>5 DEF Midnight, SignalsInv, TypeOK, OneRowPerKey, Rows
<1>6. ASSUME NEW k \in Keys, Resolve(k) PROVE TypeOK' /\ OneRowPerKey'
  <2>1. open' \in [Keys -> Nat] /\ closed' \in [Keys -> Nat]
    BY <1>6 DEF Resolve, SignalsInv, TypeOK
  <2>2. \A m \in Keys : open'[m] + closed'[m] = open[m] + closed[m]
    BY <1>6 DEF Resolve, SignalsInv, TypeOK
  <2>3. UNCHANGED <<pc, key, alerted, chat, unsaid, failures>>
    BY <1>6 DEF Resolve
  <2> QED BY <1>1, <2>1, <2>2, <2>3 DEF SignalsInv, TypeOK, OneRowPerKey, Rows
<1> QED BY <1>2, <1>3, <1>4, <1>5, <1>6 DEF SignalsInv, Dispatches

\* The part of the state that the dispatching side owns.
QueueOK ==
    /\ pc \in [Loops -> {"idle", "announce", "send"}]
    /\ key \in [Loops -> Keys]
    /\ open \in [Keys -> Nat] /\ closed \in [Keys -> Nat]
    /\ alerted \subseteq Keys /\ chat \subseteq Keys /\ unsaid \subseteq Keys
    /\ failures \in 0..MaxFailures
    /\ OneRowPerKey

LEMMA QueueAlone ==
    ASSUME SignalsInv, UNCHANGED queue
    PROVE  QueueOK'
BY DEF SignalsInv, TypeOK, OneRowPerKey, Rows, queue, QueueOK

\* Another press is sent: those before it stay what they are.
LEMMA SendSide ==
    ASSUME SignalsInv, NEW p \in Press, Send(p)
    PROVE  SignalsInv'
<1>1. QueueOK'
  BY QueueAlone DEF Send
<1>2. /\ presses' \in Seq(Press) /\ Len(presses') = Len(presses) + 1
      /\ \A i \in 1..Len(presses) : presses'[i] = presses[i]
      /\ Len(presses) \in Nat /\ Len(presses') <= MaxPresses
  BY SignalsAssumption DEF Send, SignalsInv, TypeOK
<1>3. UNCHANGED <<acked, offset, fetched, saying, selected, task, target, bought, crashes>>
  BY DEF Send, bot, tasks
<1>4. TypeOK'
  BY <1>1, <1>2, <1>3 DEF SignalsInv, TypeOK, QueueOK
<1>5. offset \in Nat /\ fetched \in Nat /\ acked \in Nat
  BY SignalsAssumption DEF SignalsInv, TypeOK
<1>6. Progress'
  BY <1>2, <1>3, <1>5 DEF SignalsInv, Progress
<1>7. OnceEach'
  BY <1>3 DEF SignalsInv, OnceEach
<1>8. \A i \in Ids : i <= offset => presses'[i] = presses[i]
  BY <1>2, <1>5 DEF SignalsInv, Progress, Ids
<1>9. \A i \in Ids : task[i] \in {"new", "screen"} => i <= offset
  BY DEF SignalsInv, OnceEach
<1>10. \A i \in Ids : \A j \in i + 1 .. offset : presses'[j] = presses[j]
  <2> SUFFICES ASSUME NEW i \in Ids, NEW j \in i + 1 .. offset
               PROVE  presses'[j] = presses[j]
    OBVIOUS
  <2>1. j \in 1..Len(presses)
    BY <1>2, <1>5, SignalsAssumption DEF SignalsInv, Progress, Ids
  <2> QED BY <1>2, <2>1
<1>11. Wanted'
  BY <1>3, <1>8, <1>9, <1>10 DEF SignalsInv, Wanted
<1>12. NamedOrOvertaken'
  BY <1>3, <1>8, <1>9, <1>10 DEF SignalsInv, NamedOrOvertaken
<1> QED BY <1>1, <1>4, <1>6, <1>7, <1>11, <1>12 DEF SignalsInv, QueueOK

\* A poll, and the end of the message after a choice of account.
LEMMA PollSide ==
    ASSUME SignalsInv, Fetch \/ Said
    PROVE  SignalsInv'
<1>1. QueueOK'
  BY QueueAlone DEF Fetch, Said
<1>2. UNCHANGED <<presses, offset, selected, task, target, bought, crashes>>
  BY DEF Fetch, Said, tasks, server
<1>3. /\ acked' \in 0..MaxPresses /\ fetched' \in 0..MaxPresses /\ saying' \in BOOLEAN
      /\ Progress'
  <2>1. Len(presses) \in 0..MaxPresses
    BY PressInRange DEF SignalsInv
  <2>2. CASE Fetch
    BY <1>2, <2>1, <2>2, SignalsAssumption DEF Fetch, SignalsInv, TypeOK, Progress
  <2>3. CASE Said
    BY <1>2, <2>3 DEF Said, server, SignalsInv, TypeOK, Progress
  <2> QED BY <2>2, <2>3
<1>4. TypeOK'
  BY <1>1, <1>2, <1>3 DEF SignalsInv, TypeOK, QueueOK
<1>5. OnceEach' /\ Wanted' /\ NamedOrOvertaken'
  BY <1>2 DEF SignalsInv, OnceEach, Wanted, NamedOrOvertaken
<1> QED BY <1>1, <1>3, <1>4, <1>5 DEF SignalsInv, QueueOK

\* The loop turns to the next callback.
LEMMA HandleSide ==
    ASSUME SignalsInv, HandleApprove \/ HandleAccount
    PROVE  SignalsInv'
<1> DEFINE n == offset + 1
           p == presses[n]
<1>1. QueueOK'
  BY QueueAlone DEF HandleApprove, HandleAccount
<1>2. /\ offset \in Nat /\ fetched \in Nat /\ acked \in Nat /\ crashes \in Nat
      /\ offset < fetched /\ offset' = n /\ n \in Ids /\ p \in Press
  BY PressInRange, SignalsAssumption
     DEF HandleApprove, HandleAccount, SignalsInv, TypeOK, Progress, Ids
<1>3. UNCHANGED <<presses, acked, fetched, target, bought, crashes>>
  BY DEF HandleApprove, HandleAccount, tasks, server
<1>4. Progress'
  BY <1>2, <1>3 DEF SignalsInv, Progress
<1>5. /\ task' = [task EXCEPT ![n] = "new"]
      /\ p.kind = "approve"
      /\ selected' = IF p.account = NoAccount THEN selected ELSE p.account
      /\ saying' = saying
      \/ /\ task' = task
         /\ p.kind = "account"
         /\ selected' = p.account
         /\ saying' = TRUE
  BY DEF HandleApprove, HandleAccount, tasks
<1>6. \A i \in Ids : task'[i] = task[i] \/ (i = n /\ task'[i] = "new")
  BY <1>2, <1>5 DEF SignalsInv, TypeOK
<1>7. task' \in [Ids -> Tasks]
  BY <1>2, <1>5 DEF SignalsInv, TypeOK, Tasks
<1>8. selected' = selected \/ (selected' = p.account /\ p.account # NoAccount)
  BY <1>2, <1>5, SignalsAssumption DEF Press
<1>9. selected' \in Accounts \cup {NoAccount} /\ saying' \in BOOLEAN
  BY <1>2, <1>5 DEF Press, SignalsInv, TypeOK
<1>10. offset' \in 0..MaxPresses
  BY <1>2, SignalsAssumption DEF Ids
<1>11. TypeOK'
  BY <1>1, <1>3, <1>7, <1>9, <1>10 DEF SignalsInv, TypeOK, QueueOK
<1>12. \A i \in Ids : i \in Int /\ bought[i] \in Nat
  BY SignalsAssumption DEF SignalsInv, TypeOK, Ids
<1>13. \A i \in Ids : task[i] \in {"new", "screen"} => i <= offset
  BY DEF SignalsInv, OnceEach
<1>14. OnceEach'
  <2> SUFFICES ASSUME NEW i \in Ids
               PROVE  /\ bought[i] <= crashes + 1
                      /\ task'[i] \in {"new", "screen"} => i <= n /\ bought[i] <= crashes
                      /\ n < i => bought[i] <= crashes
    BY <1>2, <1>3 DEF OnceEach
  <2>1. /\ bought[i] <= crashes + 1
        /\ task[i] \in {"new", "screen"} => i <= offset /\ bought[i] <= crashes
        /\ offset < i => bought[i] <= crashes
    BY DEF SignalsInv, OnceEach
  <2> QED BY <2>1, <1>2, <1>6, <1>12
<1>15. Wanted'
  <2> SUFFICES ASSUME NEW i \in Ids, task'[i] = "new", presses[i].account # NoAccount
               PROVE  /\ selected' # NoAccount
                      /\ \/ selected' = presses[i].account
                         \/ \E j \in i + 1 .. n : presses[j].account = selected'
    BY <1>2, <1>3 DEF Wanted
  <2>1. CASE i = n
    <3>1. CASE p.kind = "approve"
      <4>1. p.kind # "account"
        BY <3>1
      <4> QED BY <2>1, <4>1, <1>5
    <3>2. CASE p.kind # "approve"
      <4>1. task' = task
        BY <3>2, <1>5
      <4> QED BY <2>1, <4>1, <1>2, <1>12, <1>13
    <3> QED BY <3>1, <3>2
  <2>2. CASE i # n
    <3>1. task[i] = "new" /\ i <= offset
      BY <2>2, <1>6, <1>13
    <3>2. /\ selected # NoAccount
          /\ \/ selected = presses[i].account
             \/ \E j \in i + 1 .. offset : presses[j].account = selected
      BY <3>1 DEF SignalsInv, Wanted
    <3>3. \A j \in i + 1 .. offset : j \in i + 1 .. n
      BY <1>2, <1>12
    <3>4. CASE selected' = selected
      BY <3>2, <3>3, <3>4
    <3>5. CASE selected' = p.account /\ p.account # NoAccount
      <4>1. n \in i + 1 .. n
        BY <3>1, <1>2, <1>12
      <4> QED BY <3>5, <4>1
    <3> QED BY <3>4, <3>5, <1>8
  <2> QED BY <2>1, <2>2
<1>16. NamedOrOvertaken'
  <2> SUFFICES ASSUME NEW i \in Ids, task'[i] = "screen", presses[i].account # NoAccount
               PROVE  \/ target[i] = presses[i].account
                      \/ \E j \in i + 1 .. n : presses[j].account = target[i]
    BY <1>2, <1>3 DEF NamedOrOvertaken
  <2>1. task[i] = "screen"
    BY <1>6
  <2>2. \A j \in i + 1 .. offset : j \in i + 1 .. n
    BY <1>2, <1>12
  <2> QED BY <2>1, <2>2 DEF SignalsInv, NamedOrOvertaken
<1> QED BY <1>1, <1>4, <1>11, <1>14, <1>15, <1>16 DEF SignalsInv, QueueOK

\* A task takes the account that is selected now.
LEMMA ResolvedSide ==
    ASSUME SignalsInv, NEW i \in Ids, Resolved(i)
    PROVE  SignalsInv'
<1>1. QueueOK'
  BY QueueAlone DEF Resolved
<1>2. UNCHANGED <<presses, acked, offset, fetched, saying, selected, bought, crashes>>
  BY DEF Resolved, server, bot
<1>3. /\ task[i] = "new"
      /\ \/ /\ task' = [task EXCEPT ![i] = "screen"]
            /\ target' = [target EXCEPT ![i] = IF selected = NoAccount THEN First ELSE selected]
         \/ /\ task' = [task EXCEPT ![i] = "done"]
            /\ target' = target
  BY DEF Resolved
<1>4. task' \in [Ids -> Tasks]
  BY <1>3 DEF SignalsInv, TypeOK, Tasks
<1>5. target' \in [Ids -> Accounts \cup {NoAccount}]
  BY <1>3, SignalsAssumption DEF SignalsInv, TypeOK
<1>6. TypeOK'
  BY <1>1, <1>2, <1>4, <1>5 DEF SignalsInv, TypeOK, QueueOK
<1>7. Progress'
  BY <1>2 DEF SignalsInv, Progress
<1>8. \A k \in Ids :
        \/ task'[k] = task[k] /\ target'[k] = target[k]
        \/ k = i /\ task'[k] = "done"
        \/ /\ k = i /\ task'[k] = "screen"
           /\ target'[k] = IF selected = NoAccount THEN First ELSE selected
  BY <1>3 DEF SignalsInv, TypeOK
<1>9. OnceEach'
  <2>1. \A k \in Ids : task'[k] \in {"new", "screen"} => task[k] \in {"new", "screen"}
    BY <1>3, <1>8
  <2> QED BY <1>2, <2>1 DEF SignalsInv, OnceEach
<1>10. Wanted'
  BY <1>2, <1>8 DEF SignalsInv, Wanted
<1>11. NamedOrOvertaken'
  <2> SUFFICES ASSUME NEW k \in Ids, task'[k] = "screen", presses[k].account # NoAccount
               PROVE  \/ target'[k] = presses[k].account
                      \/ \E j \in k + 1 .. offset : presses[j].account = target'[k]
    BY <1>2 DEF NamedOrOvertaken
  <2>1. CASE task'[k] = task[k] /\ target'[k] = target[k]
    BY <2>1 DEF SignalsInv, NamedOrOvertaken
  <2>2. CASE k = i /\ target'[k] = IF selected = NoAccount THEN First ELSE selected
    <3>1. /\ selected # NoAccount
          /\ \/ selected = presses[k].account
             \/ \E j \in k + 1 .. offset : presses[j].account = selected
      BY <2>2, <1>3 DEF SignalsInv, Wanted
    <3> QED BY <2>2, <3>1
  <2> QED BY <2>1, <2>2, <1>8
<1> QED BY <1>1, <1>6, <1>7, <1>9, <1>10, <1>11 DEF SignalsInv, QueueOK

\* A task ends, with a BUY or without.
LEMMA ApproveSide ==
    ASSUME SignalsInv, NEW i \in Ids, Approve(i)
    PROVE  SignalsInv'
<1>1. QueueOK'
  BY QueueAlone DEF Approve
<1>2. UNCHANGED <<presses, acked, offset, fetched, saying, selected, crashes>>
  BY DEF Approve, server, bot
<1>3. /\ task[i] = "screen"
      /\ task' = [task EXCEPT ![i] = "done"]
      /\ target' = [target EXCEPT ![i] = NoAccount]
      /\ bought' = [bought EXCEPT ![i] = @ + 1] \/ bought' = bought
  BY DEF Approve
<1>t. bought \in [Ids -> Nat] /\ crashes \in Nat
  BY SignalsAssumption DEF SignalsInv, TypeOK
<1>4. task' \in [Ids -> Tasks]
  BY <1>3 DEF SignalsInv, TypeOK, Tasks
<1>5. target' \in [Ids -> Accounts \cup {NoAccount}] /\ bought' \in [Ids -> Nat]
  BY <1>3 DEF SignalsInv, TypeOK
<1>6. TypeOK'
  BY <1>1, <1>2, <1>4, <1>5 DEF SignalsInv, TypeOK, QueueOK
<1>7. Progress'
  BY <1>2 DEF SignalsInv, Progress
<1>8. \A k \in Ids :
        \/ task'[k] = task[k] /\ target'[k] = target[k]
        \/ k = i /\ task'[k] = "done"
  BY <1>3 DEF SignalsInv, TypeOK
<1>9. \A k \in Ids : bought'[k] = bought[k] \/ (k = i /\ bought'[k] = bought[k] + 1)
  BY <1>3, <1>t
<1>10. i <= offset /\ bought[i] <= crashes
  BY <1>3 DEF SignalsInv, OnceEach
<1>11. i \in Int /\ offset \in Nat
  BY SignalsAssumption DEF Ids, SignalsInv, TypeOK
<1>12. OnceEach'
  <2> SUFFICES ASSUME NEW k \in Ids
               PROVE  /\ bought'[k] <= crashes + 1
                      /\ task'[k] \in {"new", "screen"} => k <= offset /\ bought'[k] <= crashes
                      /\ offset < k => bought'[k] <= crashes
    BY <1>2 DEF OnceEach
  <2>1. /\ bought[k] <= crashes + 1
        /\ task[k] \in {"new", "screen"} => k <= offset /\ bought[k] <= crashes
        /\ offset < k => bought[k] <= crashes
    BY DEF SignalsInv, OnceEach
  <2>2. CASE k # i
    BY <2>1, <2>2, <1>8, <1>9
  <2>3. CASE k = i
    <3>1. task'[k] = "done"
      BY <2>3, <1>3 DEF SignalsInv, TypeOK
    <3>2. bought'[k] <= crashes + 1 /\ ~(offset < k)
      BY <2>3, <1>9, <1>10, <1>11, <1>t
    <3> QED BY <3>1, <3>2
  <2> QED BY <2>2, <2>3
<1>13. Wanted' /\ NamedOrOvertaken'
  BY <1>2, <1>8 DEF SignalsInv, Wanted, NamedOrOvertaken
<1> QED BY <1>1, <1>6, <1>7, <1>12, <1>13 DEF SignalsInv, QueueOK

\* A new life may buy once more; the tasks of the old one are gone.
LEMMA RestartSide ==
    ASSUME SignalsInv, Restart
    PROVE  SignalsInv'
<1>1. QueueOK'
  BY SomeKeyIsKey DEF Restart, SignalsInv, TypeOK, QueueOK, OneRowPerKey, Rows
<1>2. /\ crashes' = crashes + 1 /\ crashes' \in 0..MaxCrashes /\ crashes \in Nat
      /\ acked \in Nat /\ bought \in [Ids -> Nat]
  BY SignalsAssumption DEF Restart, SignalsInv, TypeOK
<1>3. /\ UNCHANGED <<presses, acked, bought>>
      /\ offset' = acked /\ fetched' = acked /\ saying' = FALSE /\ selected' = NoAccount
  BY DEF Restart, server
<1>4. /\ task' = [i \in Ids |-> IF task[i] \in {"new", "screen"} THEN "killed" ELSE task[i]]
      /\ target' = [i \in Ids |-> NoAccount]
  BY DEF Restart
<1>5. task' \in [Ids -> Tasks] /\ target' \in [Ids -> Accounts \cup {NoAccount}]
  BY <1>4 DEF SignalsInv, TypeOK, Tasks
<1>6. TypeOK'
  BY <1>1, <1>2, <1>3, <1>5 DEF SignalsInv, TypeOK, QueueOK
<1>7. Progress'
  BY <1>3, <1>2, PressInRange, SignalsAssumption DEF SignalsInv, TypeOK, Progress
<1>8. \A i \in Ids : task'[i] \notin {"new", "screen"}
  BY <1>4
<1>9. OnceEach'
  BY <1>2, <1>3, <1>8 DEF SignalsInv, OnceEach
<1>10. Wanted' /\ NamedOrOvertaken'
  BY <1>8 DEF Wanted, NamedOrOvertaken
<1> QED BY <1>1, <1>6, <1>7, <1>9, <1>10 DEF SignalsInv, QueueOK

LEMMA SignalsStep == SignalsInv /\ [Next]_vars => SignalsInv'
<1> SUFFICES ASSUME SignalsInv, [Next]_vars PROVE SignalsInv'
  OBVIOUS
<1>1. CASE Dispatches \/ Midnight \/ \E k \in Keys : Resolve(k)
  BY <1>1, QueueSide
<1>2. CASE PressApprove
  <2>1. PICK k \in chat : Send([kind |-> "approve", symbol |-> k[1], account |-> k[3]])
    BY <1>2 DEF PressApprove
  <2>2. [kind |-> "approve", symbol |-> k[1], account |-> k[3]] \in Press
    BY DEF SignalsInv, TypeOK, Keys, Press
  <2> QED BY <2>1, <2>2, SendSide
<1>3. CASE PressAccount
  <2> DEFINE s == CHOOSE x \in Symbols : TRUE
  <2>1. PICK a \in Accounts : Send([kind |-> "account", symbol |-> s, account |-> a])
    BY <1>3 DEF PressAccount
  <2>2. s \in Symbols
    BY SignalsAssumption
  <2>3. [kind |-> "account", symbol |-> s, account |-> a] \in Press
    BY <2>2 DEF Press
  <2> QED BY <2>1, <2>3, SendSide
<1>4. CASE Fetch \/ Said
  BY <1>4, PollSide
<1>5. CASE HandleApprove \/ HandleAccount
  BY <1>5, HandleSide
<1>6. CASE \E i \in Ids : Resolved(i) \/ Approve(i)
  BY <1>6, ResolvedSide, ApproveSide
<1>7. CASE Restart
  BY <1>7, RestartSide
<1>8. CASE UNCHANGED vars
  <2>1. QueueOK'
    BY <1>8, QueueAlone DEF vars, queue
  <2>2. UNCHANGED <<presses, acked, offset, fetched, saying, selected, task, target, bought, crashes>>
    BY <1>8 DEF vars
  <2>3. TypeOK'
    BY <2>1, <2>2 DEF SignalsInv, TypeOK, QueueOK
  <2>4. Progress' /\ OnceEach' /\ Wanted' /\ NamedOrOvertaken'
    BY <2>2 DEF SignalsInv, Progress, OnceEach, Wanted, NamedOrOvertaken
  <2> QED BY <2>1, <2>3, <2>4 DEF SignalsInv, QueueOK
<1> QED BY <1>1, <1>2, <1>3, <1>4, <1>5, <1>6, <1>7, <1>8 DEF Next, Human, Handle

LEMMA Inductive == Spec => []SignalsInv
<1>1. Init => SignalsInv
  BY Initially
<1>2. SignalsInv /\ [Next]_vars => SignalsInv'
  BY SignalsStep
<1> QED BY <1>1, <1>2, PTL DEF Spec

\* Every variable keeps its type, however many loops dispatch and presses are redelivered.
THEOREM TypeCorrect == Spec => []TypeOK
<1>1. SignalsInv => TypeOK
  BY DEF SignalsInv
<1> QED BY <1>1, Inductive, PTL

\* No signal has two rows in pending_signals, dismissed ones counted: _dispatch_signal
\* does not await between its query and the commit.
THEOREM QueuedOnce == Spec => []OneRowPerKey
<1>1. SignalsInv => OneRowPerKey
  BY DEF SignalsInv
<1> QED BY <1>1, Inductive, PTL

\* A press buys at most once in each life of the process: telegram_bot_loop starts one
\* task for it, whatever is polled, selected or pressed meanwhile.
THEOREM BoughtOncePerLife == Spec => []OncePerLife
<1>1. SignalsInv => OncePerLife
  BY DEF SignalsInv, OnceEach, OncePerLife
<1> QED BY <1>1, Inductive, PTL

\* An approval is executed on the account its button names or on that of a callback the
\* loop has handled after it.
THEOREM LandsWhereNamed == Spec => []NamedOrOvertaken
<1>1. SignalsInv => NamedOrOvertaken
  BY DEF SignalsInv
<1> QED BY <1>1, Inductive, PTL

\* What today's memory holds has been said, is being said, or came to nothing.
RememberedIsSaid ==
    \A k \in alerted :
        k \in chat \cup unsaid \/ \E l \in Loops : pc[l] = "send" /\ key[l] = k

AskedInv == SignalsInv /\ RememberedIsSaid /\ QueuedIsAsked

\* A queued signal is announced next, and those other loops announce stay so.
LEMMA QueueAsks ==
    ASSUME AskedInv, NEW l \in Loops, NEW f \in Found[l], NEW stored \in BOOLEAN,
           Queue(l, f[1], f[2], stored)
    PROVE  RememberedIsSaid' /\ QueuedIsAsked'
<1> DEFINE k == <<f[1], f[2], Owner[l]>>
<1>1. k \in Keys
  BY FoundIsKey
<1>2. /\ UNCHANGED <<alerted, chat, unsaid>>
      /\ pc[l] = "idle"
      /\ pc' = [pc EXCEPT ![l] = "announce"]
      /\ key' = [key EXCEPT ![l] = k]
      /\ open' = [open EXCEPT ![k] = @ + 1] \/ open' = open
  BY DEF Queue
<1> HIDE DEF k
<1>3. /\ pc'[l] = "announce" /\ key'[l] = k
      /\ \A j \in Loops : j # l => pc'[j] = pc[j] /\ key'[j] = key[j]
  BY <1>2 DEF AskedInv, SignalsInv, TypeOK
<1>4. \A j \in Loops : pc[j] # "idle" => pc'[j] = pc[j] /\ key'[j] = key[j]
  BY <1>2, <1>3
<1>5. \A m \in Keys : m # k => open'[m] = open[m]
  BY <1>2 DEF AskedInv, SignalsInv, TypeOK
<1>6. RememberedIsSaid'
  BY <1>2, <1>4 DEF AskedInv, RememberedIsSaid
<1>7. ASSUME NEW m \in Keys, open'[m] > 0, m[3] # NoAccount
      PROVE  m \in chat \cup unsaid \/ Saying(m)'
  <2>1. CASE m = k
    BY <1>3, <2>1 DEF Saying
  <2>2. CASE m # k
    BY <1>4, <1>5, <1>7, <2>2 DEF AskedInv, QueuedIsAsked, Saying
  <2> QED BY <2>1, <2>2
<1> QED BY <1>2, <1>6, <1>7 DEF QueuedIsAsked

\* The memory makes a call return early only when the same message was said, is being
\* said or came to nothing.
LEMMA AnnounceAsks ==
    ASSUME AskedInv, NEW l \in Loops, NEW muted \in BOOLEAN, Announce(l, muted)
    PROVE  RememberedIsSaid' /\ QueuedIsAsked'
<1> DEFINE k == key[l]
           Held(m) == \/ m \in chat \cup unsaid'
                      \/ \E j \in Loops : pc'[j] = "send" /\ key'[j] = m
<1>1. /\ UNCHANGED <<open, chat>>
      /\ pc[l] = "announce"
      /\ alerted' = alerted \cup {k}
      /\ unsaid \subseteq unsaid'
      /\ \A j \in Loops : j # l => pc'[j] = pc[j] /\ key'[j] = key[j]
  BY DEF Announce, Message, Return, AskedInv, SignalsInv, TypeOK
<1>2. \A m \in alerted : Held(m)
  BY <1>1 DEF AskedInv, RememberedIsSaid
<1>3. Held(k)
  <2>1. CASE k \in alerted
    BY <1>2, <2>1
  <2>2. CASE k \notin alerted /\ muted
    BY <2>2 DEF Announce, Message
  <2>3. CASE k \notin alerted /\ ~muted
    <3>1. pc'[l] = "send" /\ key'[l] = k
      BY <2>3 DEF Announce, Message, AskedInv, SignalsInv, TypeOK
    <3> QED BY <3>1
  <2> QED BY <2>1, <2>2, <2>3
<1>4. RememberedIsSaid'
  BY <1>1, <1>2, <1>3 DEF RememberedIsSaid
<1>5. ASSUME NEW m \in Keys, open[m] > 0, m[3] # NoAccount
      PROVE  m \in chat \cup unsaid' \/ Saying(m)'
  <2>1. CASE m = k
    BY <1>3, <2>1 DEF Saying
  <2>2. CASE m # k
    BY <1>1, <1>5, <2>2 DEF AskedInv, QueuedIsAsked, Saying
  <2> QED BY <2>1, <2>2
<1> QED BY <1>1, <1>4, <1>5 DEF QueuedIsAsked

\* A message that was being said is in the chat, or came to nothing.
LEMMA SentAsks ==
    ASSUME AskedInv, NEW l \in Loops, NEW delivered \in BOOLEAN, Sent(l, delivered)
    PROVE  RememberedIsSaid' /\ QueuedIsAsked'
<1>1. /\ UNCHANGED <<open, alerted>>
      /\ chat \cup unsaid \cup {key[l]} \subseteq chat' \cup unsaid'
      /\ \A j \in Loops : j # l => pc'[j] = pc[j] /\ key'[j] = key[j]
  BY DEF Sent, Return, AskedInv, SignalsInv, TypeOK
<1>2. RememberedIsSaid'
  BY <1>1 DEF AskedInv, RememberedIsSaid
<1>3. QueuedIsAsked'
  BY <1>1 DEF AskedInv, QueuedIsAsked, Saying
<1> QED BY <1>2, <1>3

\* Every other step leaves these alone, closes a row, forgets the day or is a crash.
LEMMA OthersAsk ==
    ASSUME AskedInv,
           \/ Midnight \/ UNCHANGED vars \/ Human \/ Fetch \/ Handle \/ Restart
           \/ \E i \in Ids : Resolved(i) \/ Approve(i)
    PROVE  RememberedIsSaid' /\ QueuedIsAsked'
<1>1. CASE Midnight
  BY <1>1 DEF Midnight, AskedInv, RememberedIsSaid, QueuedIsAsked, Saying
<1>2. CASE Restart
  <2>1. /\ alerted' = {} /\ UNCHANGED <<open, chat>>
        /\ unsaid' = unsaid \cup {k \in Keys : Saying(k)}
    BY <1>2 DEF Restart
  <2> QED BY <2>1 DEF AskedInv, RememberedIsSaid, QueuedIsAsked
<1>3. CASE \E k \in Keys : Resolve(k)
  <2>1. PICK k \in Keys : Resolve(k)
    BY <1>3
  <2>2. UNCHANGED <<pc, key, alerted, chat, unsaid>>
    BY <2>1 DEF Resolve
  <2>3. \A m \in Keys : open'[m] > 0 => open[m] > 0
    BY <2>1 DEF Resolve, AskedInv, SignalsInv, TypeOK
  <2> QED BY <2>2, <2>3 DEF AskedInv, RememberedIsSaid, QueuedIsAsked, Saying
<1>4. CASE UNCHANGED queue
  BY <1>4 DEF queue, AskedInv, RememberedIsSaid, QueuedIsAsked, Saying
<1>5. ASSUME \/ UNCHANGED vars \/ PressApprove \/ PressAccount \/ Fetch \/ Handle
             \/ \E i \in Ids : Resolved(i) \/ Approve(i)
      PROVE  UNCHANGED queue
  BY <1>5 DEF vars, queue, PressApprove, PressAccount, Send, Fetch, Handle,
              HandleApprove, HandleAccount, Said, Resolved, Approve
<1> QED BY <1>1, <1>2, <1>3, <1>4, <1>5 DEF Human

\* A queued signal of an account goes unasked only when a message of that signal was
\* muted, lost or cut by a crash: the memory of the day, shared by all loops and accounts,
\* never swallows another.
THEOREM QueuedAreAsked == Spec => []QueuedIsAsked
<1>1. Init => AskedInv
  BY Initially DEF Init, AskedInv, RememberedIsSaid, QueuedIsAsked
<1>2. AskedInv /\ [Next]_vars => AskedInv'
  <2> SUFFICES ASSUME AskedInv, [Next]_vars PROVE AskedInv'
    OBVIOUS
  <2>1. SignalsInv'
    BY SignalsStep DEF AskedInv
  <2>2. RememberedIsSaid' /\ QueuedIsAsked'
    BY QueueAsks, AnnounceAsks, SentAsks, OthersAsk DEF Next, Dispatches
  <2> QED BY <2>1, <2>2 DEF AskedInv
<1>3. AskedInv => QueuedIsAsked
  BY DEF AskedInv
<1> QED BY <1>1, <1>2, <1>3, PTL DEF Spec
===============================================================================
