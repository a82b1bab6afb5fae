------------------------------ MODULE BotProofs ------------------------------
(***************************************************************************)
(* Lemmas about the steps of Bot, for any number of updates, polls and     *)
(* processes; ManagementProofs makes theorems about the panel of them.     *)
(***************************************************************************)
EXTENDS Bot, SequenceTheorems, TLAPS

(* What happens to the bot within the life of a process.                   *)
BotStep ==
  \/ Send \/ PollLost \/ Poll \/ Disable \/ Handled \/ HandleFails
  \/ UNCHANGED botVars

(* What became of an update.                                               *)
Settled(i) == done[i] > 0 \/ i \in Waiting \cup failed \cup dropped

(* The tasks are of different updates, up to last_update_id; and what this *)
(* process has seen is settled, confirmed or not.                          *)
BotInv ==
  /\ BotTypeOK
  /\ \A m, n \in DOMAIN tasks : tasks[m] = tasks[n] => m = n
  /\ \A n \in DOMAIN tasks : tasks[n] <= last
  /\ \A i \in 1..last : Settled(i)
  /\ NothingElseLost

(* How often an update was carried out, n processes having ended.          *)
Carried(i, n) ==
  done[i] <= n + (IF i <= last /\ i \notin Waiting THEN 1 ELSE 0)

LEMMA BotInit == InitBot => BotInv /\ \A i \in Updates : Carried(i, 0)
<1>. SUFFICES ASSUME InitBot PROVE BotInv /\ \A i \in Updates : Carried(i, 0)
  OBVIOUS
<1>1. BotTypeOK
  BY BotAssumption DEF InitBot, BotTypeOK
<1>2. \A i \in Updates : Carried(i, 0)
  BY BotAssumption DEF InitBot, Carried, Updates
<1>. QED
  BY <1>1, <1>2 DEF InitBot, BotInv, NothingElseLost

LEMMA Concat ==
  ASSUME NEW S, NEW s \in Seq(S), NEW t \in Seq(S)
  PROVE  /\ s \o t \in Seq(S) /\ Len(s \o t) = Len(s) + Len(t)
         /\ \A i \in 1..Len(s) : (s \o t)[i] = s[i]
         /\ \A i \in (Len(s) + 1)..(Len(s) + Len(t)) : (s \o t)[i] = t[i - Len(s)]
OBVIOUS

(* The tasks of updates f + 1 to s, and tasks t with those behind them.    *)
TasksOf(f, s) == [n \in 1..(s - f) |-> f + n]

Extended(r, t, f, s) ==
  /\ r \in Seq(1..s)
  /\ Len(t) \in Nat /\ Len(r) = Len(t) + (s - f)
  /\ DOMAIN t = 1..Len(t) /\ DOMAIN r = 1..Len(r)
  /\ \A n \in 1..Len(t) : r[n] = t[n]
  /\ \A n \in (Len(t) + 1)..Len(r) : r[n] = f + (n - Len(t))

LEMMA Appended ==
  ASSUME NEW s \in Nat, NEW f \in Nat, s > f, NEW t \in Seq(1..s)
  PROVE  Extended(t \o TasksOf(f, s), t, f, s)
<1>. DEFINE new == TasksOf(f, s)
            r   == t \o new
<1>1. s - f \in Nat /\ \A n \in 1..(s - f) : f + n \in 1..s
  OBVIOUS
<1>2. new \in [1..(s - f) -> 1..s] /\ DOMAIN new = 1..(s - f)
  BY <1>1 DEF TasksOf
<1>3. \A n \in 1..(s - f) : new[n] = f + n
  BY DEF TasksOf
<1>. HIDE DEF new
<1>4. new \in Seq(1..s) /\ Len(new) = s - f
  BY <1>1, <1>2 DEF new, TasksOf
<1>5. /\ r \in Seq(1..s) /\ Len(r) = Len(t) + Len(new)
      /\ \A n \in 1..Len(t) : r[n] = t[n]
      /\ \A n \in (Len(t) + 1)..(Len(t) + Len(new)) : r[n] = new[n - Len(t)]
  BY <1>4, Concat
<1>. HIDE DEF r
<1>6. /\ Len(t) \in Nat /\ DOMAIN t = 1..Len(t) /\ DOMAIN r = 1..Len(r)
      /\ Len(r) = Len(t) + (s - f)
  BY <1>4, <1>5, LenProperties
<1>7. ASSUME NEW n \in (Len(t) + 1)..Len(r) PROVE r[n] = f + (n - Len(t))
  <2>1. n - Len(t) \in 1..(s - f)
    BY <1>1, <1>6
  <2>2. r[n] = new[n - Len(t)]
    BY <1>4, <1>5, <1>6
  <2>. QED
    BY <1>3, <2>1, <2>2
<1>8. Extended(r, t, f, s)
  BY <1>5, <1>6, <1>7 DEF Extended
<1>. QED
  BY <1>8 DEF r, new

Elements(t) == {t[n] : n \in DOMAIN t}

LEMMA ExtendedElements ==
  ASSUME NEW s \in Nat, NEW f \in Nat, s > f, NEW t, NEW r, Extended(r, t, f, s)
  PROVE  Elements(r) = Elements(t) \cup (f + 1)..s
<1>1. ASSUME NEW n \in DOMAIN r
      PROVE  r[n] \in (f + 1)..s \/ \E m \in DOMAIN t : r[n] = t[m]
  <2>1. CASE n \in 1..Len(t)
    BY <2>1 DEF Extended
  <2>2. CASE n \notin 1..Len(t)
    <3>1. n \in (Len(t) + 1)..Len(r) /\ n - Len(t) \in 1..(s - f)
      BY <2>2 DEF Extended
    <3>2. r[n] = f + (n - Len(t))
      BY <3>1 DEF Extended
    <3>. QED
      BY <3>1, <3>2
  <2>. QED
    BY <2>1, <2>2
<1>2. ASSUME NEW m \in DOMAIN t PROVE \E n \in DOMAIN r : r[n] = t[m]
  <2>1. m \in DOMAIN r /\ r[m] = t[m]
    BY DEF Extended
  <2>. QED
    BY <2>1
<1>3. ASSUME NEW i \in (f + 1)..s PROVE \E n \in DOMAIN r : r[n] = i
  <2>1. Len(t) + (i - f) \in (Len(t) + 1)..Len(r) /\ Len(t) + (i - f) \in DOMAIN r
    BY DEF Extended
  <2>2. r[Len(t) + (i - f)] = f + ((Len(t) + (i - f)) - Len(t))
    BY <2>1 DEF Extended
  <2>3. f + ((Len(t) + (i - f)) - Len(t)) = i
    BY DEF Extended
  <2>. QED
    BY <2>1, <2>2, <2>3
<1>. QED
  BY <1>1, <1>2, <1>3 DEF Elements

LEMMA Offsets ==
  ASSUME BotInv, Poll
  PROVE  /\ sent \in Nat /\ floor' \in Nat /\ floor \in Nat /\ last \in Nat
         /\ sent > floor' /\ floor' >= floor /\ floor' >= last
         /\ floor' = floor \/ floor' = last
         /\ tasks \in Seq(1..sent)
         /\ tasks' = tasks \o TasksOf(floor', sent)
BY BotAssumption DEF BotInv, BotTypeOK, Poll, Confirm, TasksOf

(* What a poll does: the new tasks are those of floor' + 1 to sent.        *)
LEMMA Polled ==
  ASSUME BotInv, Poll
  PROVE  /\ Extended(tasks', tasks, floor', sent)
         /\ Waiting' = Waiting \cup (floor' + 1)..sent
<1>1. Extended(tasks', tasks, floor', sent)
  BY Offsets, Appended
<1>2. Elements(tasks') = Elements(tasks) \cup (floor' + 1)..sent
  BY <1>1, Offsets, ExtendedElements
<1>. QED
  BY <1>1, <1>2 DEF Waiting, Elements

LEMMA PollKeeps ==
  ASSUME BotInv, Poll
  PROVE  BotInv'
<1>. /\ last' = sent /\ UNCHANGED <<sent, polling, done, failed, dropped>>
     /\ sent \in Nat /\ floor' \in Nat /\ floor \in Nat /\ last \in Nat
     /\ sent > floor' /\ floor' >= last
     /\ floor' = floor \/ floor' = last
  BY Offsets DEF Poll
<1>1. BotTypeOK'
  <2>1. floor' \in 0..sent /\ last' \in 0..sent
    OBVIOUS
  <2>2. tasks' \in Seq(1..sent)
    BY Polled DEF Extended
  <2>. QED
    BY <2>1, <2>2 DEF BotInv, BotTypeOK
<1>2. ASSUME NEW k \in DOMAIN tasks'
      PROVE  /\ tasks'[k] \in Nat /\ tasks'[k] <= last'
             /\ \/ k \in DOMAIN tasks /\ tasks'[k] = tasks[k] /\ tasks[k] <= last
                \/ /\ k \in Nat /\ Len(tasks) \in Nat /\ k > Len(tasks)
                   /\ tasks'[k] = floor' + (k - Len(tasks)) /\ tasks'[k] > last
  <2>1. /\ Len(tasks) \in Nat /\ Len(tasks') = Len(tasks) + (sent - floor')
        /\ DOMAIN tasks = 1..Len(tasks) /\ k \in 1..Len(tasks')
    BY Polled DEF Extended
  <2>2. CASE k \in 1..Len(tasks)
    <3>1. tasks'[k] = tasks[k]
      BY <2>2, Polled DEF Extended
    <3>2. tasks[k] \in 1..sent
      BY <2>1, <2>2, Offsets, ElementOfSeq
    <3>3. k \in DOMAIN tasks /\ tasks[k] <= last
      BY <2>1, <2>2 DEF BotInv
    <3>. QED
      BY <3>1, <3>2, <3>3
  <2>3. CASE k \notin 1..Len(tasks)
    <3>1. k \in Nat /\ k > Len(tasks) /\ k \in (Len(tasks) + 1)..Len(tasks')
      BY <2>1, <2>3
    <3>2. tasks'[k] = floor' + (k - Len(tasks))
      BY <3>1, Polled DEF Extended
    <3>3. k - Len(tasks) \in 1..(sent - floor')
      BY <2>1, <3>1
    <3>. QED
      BY <2>1, <3>1, <3>2, <3>3
  <2>. QED
    BY <2>2, <2>3
<1>3. ASSUME NEW m \in DOMAIN tasks', NEW n \in DOMAIN tasks', tasks'[m] = tasks'[n]
      PROVE  m = n
  <2>1. CASE m \in DOMAIN tasks /\ n \in DOMAIN tasks
              /\ tasks'[m] = tasks[m] /\ tasks'[n] = tasks[n]
    BY <1>3, <2>1 DEF BotInv
  <2>. QED
    BY <1>2, <1>3, <2>1
<1>4. ASSUME NEW i \in 1..last' PROVE Settled(i)'
  <2>1. CASE i \in 1..last \/ i \in 1..floor
    <3>1. Settled(i)
      BY <2>1 DEF BotInv, Settled, NothingElseLost
    <3>. QED
      BY <3>1, Polled DEF Settled
  <2>2. CASE i \notin 1..last /\ i \notin 1..floor
    <3>0. i \in 1..sent
      OBVIOUS
    <3>1. i \in (floor' + 1)..sent
      <4>1. CASE floor' = floor
        BY <2>2, <3>0, <4>1
      <4>2. CASE floor' = last
        BY <2>2, <3>0, <4>2
      <4>. QED
        BY <4>1, <4>2
    <3>. QED
      BY <3>1, Polled DEF Settled
  <2>. QED
    BY <2>1, <2>2
<1>5. \A i \in 1..floor' : i \in 1..last'
  OBVIOUS
<1>6. NothingElseLost'
  BY <1>4, <1>5 DEF NothingElseLost, Settled
<1>. QED
  BY <1>1, <1>2, <1>3, <1>4, <1>6 DEF BotInv

LEMMA Below ==
  ASSUME NEW i \in Nat, NEW f \in Nat, i <= f, NEW s \in Nat
  PROVE  i \notin (f + 1)..s
OBVIOUS

LEMMA PollCarries ==
  ASSUME BotInv, NEW n \in Nat, NEW i \in Updates, Carried(i, n), Poll
  PROVE  done'[i] <= n + (IF i <= last' /\ i \notin Waiting' THEN 1 ELSE 0)
<1>1. /\ last' = sent /\ done' = done /\ sent \in Nat /\ floor' \in Nat /\ last \in Nat
      /\ floor' >= last
  BY Offsets DEF Poll
<1>2. done[i] \in Nat /\ i \in Nat
  BY BotAssumption DEF BotInv, BotTypeOK, Updates
<1>3. Waiting' = Waiting \cup (floor' + 1)..sent
  BY Polled
<1>4. CASE i <= last /\ i \notin Waiting
  <2>1. done[i] <= n + 1
    BY <1>4 DEF Carried
  <2>2. i <= sent /\ i \notin (floor' + 1)..sent
    <3>1. sent > floor'
      BY Offsets
    <3>2. i <= floor' /\ i <= sent
      BY <1>1, <1>2, <1>4, <3>1
    <3>. QED
      BY <1>1, <1>2, <3>2, Below
  <2>. QED
    BY <1>1, <1>2, <1>3, <1>4, <2>1, <2>2
<1>5. CASE ~ (i <= last /\ i \notin Waiting)
  BY <1>1, <1>2, <1>5 DEF Carried
<1>. QED
  BY <1>4, <1>5

(* The first task is taken off.                                            *)
LEMMA Taken ==
  ASSUME BotInv, tasks # <<>>, tasks' = Tail(tasks)
  PROVE  /\ tasks' \in Seq(1..sent)
         /\ Head(tasks) \in 1..last /\ Head(tasks) \in Updates
         /\ Waiting = Waiting' \cup {Head(tasks)} /\ Head(tasks) \notin Waiting'
         /\ \A m, n \in DOMAIN tasks' : tasks'[m] = tasks'[n] => m = n
         /\ \A n \in DOMAIN tasks' : tasks'[n] <= last
<1>. USE BotAssumption DEF BotInv, BotTypeOK
<1>1. /\ tasks \in Seq(1..sent) /\ Len(tasks) \in Nat /\ Len(tasks) > 0
      /\ DOMAIN tasks = 1..Len(tasks)
  OBVIOUS
<1>2. /\ tasks' \in Seq(1..sent) /\ DOMAIN tasks' = 1..(Len(tasks) - 1)
      /\ \A n \in 1..(Len(tasks) - 1) : tasks'[n] = tasks[n + 1]
      /\ Head(tasks) = tasks[1]
  BY <1>1
<1>3. Head(tasks) \in 1..last /\ Head(tasks) \in Updates
  BY <1>1, <1>2 DEF Updates
<1>4. \A n \in DOMAIN tasks :
        n = 1 \/ (n - 1 \in DOMAIN tasks' /\ tasks'[n - 1] = tasks[n])
  BY <1>1, <1>2
<1>5. \A n \in DOMAIN tasks' : /\ n + 1 \in DOMAIN tasks /\ n + 1 # 1
                               /\ tasks'[n] = tasks[n + 1]
  BY <1>1, <1>2
<1>6. 1 \in DOMAIN tasks
  BY <1>1
<1>. DEFINE h == Head(tasks)
<1>7. h = tasks[1]
  BY <1>2
<1>. HIDE DEF h
<1>8. Waiting' = {tasks'[n] : n \in DOMAIN tasks'}
  BY DEF Waiting
<1>9. Waiting = Waiting' \cup {h}
  <2>1. ASSUME NEW i \in Waiting PROVE i \in Waiting' \cup {h}
    <3>1. PICK n \in DOMAIN tasks : i = tasks[n]
      BY DEF Waiting
    <3>. QED
      BY <1>4, <1>7, <1>8, <3>1
  <2>2. ASSUME NEW i \in Waiting' PROVE i \in Waiting
    BY <1>5, <1>8 DEF Waiting
  <2>. QED
    BY <1>6, <1>7, <2>1, <2>2 DEF Waiting
<1>10. h \notin Waiting'
  <2>. SUFFICES ASSUME NEW n \in DOMAIN tasks', tasks'[n] = h PROVE FALSE
    BY <1>8
  <2>. QED
    BY <1>5, <1>6, <1>7
<1>11. ASSUME NEW m \in DOMAIN tasks', NEW n \in DOMAIN tasks', tasks'[m] = tasks'[n]
       PROVE  m = n
  <2>1. m + 1 = n + 1
    BY <1>5, <1>11
  <2>2. m \in Nat /\ n \in Nat
    BY <1>2
  <2>. QED
    BY <2>1, <2>2
<1>12. \A n \in DOMAIN tasks' : tasks'[n] <= last
  BY <1>1, <1>2
<1>. QED
  BY <1>2, <1>3, <1>9, <1>10, <1>11, <1>12 DEF h

LEMMA TaskKeeps ==
  ASSUME BotInv, Handled \/ HandleFails
  PROVE  BotInv'
<1>. USE BotAssumption DEF BotInv, BotTypeOK
<1>. DEFINE h == Head(tasks)
<1>1. /\ tasks # <<>> /\ tasks' = Tail(tasks)
      /\ UNCHANGED <<sent, floor, last, polling, dropped>>
  BY DEF Handled, HandleFails
<1>2. /\ h \in Updates
      /\ \/ failed' = failed /\ done' = [done EXCEPT ![h] = @ + 1]
         \/ failed' = failed \cup {h} /\ done' = done
  BY <1>1, Taken DEF Handled, HandleFails
<1>. HIDE DEF h
<1>3. done' \in [Updates -> Nat] /\ failed' \subseteq Updates
  BY <1>2
<1>4. BotTypeOK'
  BY <1>1, <1>3, Taken
<1>5. ASSUME NEW i \in Updates, Settled(i) PROVE Settled(i)'
  <2>1. CASE i = h
    BY <1>2, <2>1 DEF Settled
  <2>2. CASE i # h
    <3>1. i \in Waiting => i \in Waiting'
      BY <1>1, <2>2, Taken DEF h
    <3>2. done'[i] = done[i]
      BY <1>2, <2>2
    <3>. QED
      BY <1>1, <1>2, <1>5, <3>1, <3>2 DEF Settled
  <2>. QED
    BY <2>1, <2>2
<1>6. \A i \in 1..last : i \in Updates
  BY DEF Updates
<1>7. \A i \in 1..last' : Settled(i)'
  BY <1>1, <1>5, <1>6
<1>8. NothingElseLost'
  BY <1>1, <1>5 DEF NothingElseLost, Settled, Updates
<1>. QED
  BY <1>1, <1>4, <1>7, <1>8, Taken

LEMMA TaskCarries ==
  ASSUME BotInv, NEW n \in Nat, NEW i \in Updates, Carried(i, n),
         Handled \/ HandleFails
  PROVE  done'[i] <= n + (IF i <= last' /\ i \notin Waiting' THEN 1 ELSE 0)
<1>. DEFINE h == Head(tasks)
<1>1. /\ tasks # <<>> /\ tasks' = Tail(tasks) /\ last' = last
      /\ done' = [done EXCEPT ![h] = @ + 1] \/ done' = done
  BY DEF Handled, HandleFails
<1>2. /\ h \in 1..last /\ h \in Waiting /\ h \notin Waiting'
      /\ i # h => (i \in Waiting <=> i \in Waiting')
  BY <1>1, Taken
<1>3. done \in [Updates -> Nat] /\ last \in Nat /\ i \in Nat
  BY BotAssumption DEF BotInv, BotTypeOK, Updates
<1>. HIDE DEF h
<1>. QED
  BY <1>1, <1>2, <1>3 DEF Carried

(* Within the life of a process.                                           *)
LEMMA BotKeeps ==
  ASSUME BotInv, BotStep
  PROVE  BotInv'
<1>. USE BotAssumption DEF BotInv, BotTypeOK
<1>1. CASE Send
  BY <1>1 DEF Send, Settled, NothingElseLost, Waiting, Updates
<1>2. CASE PollLost
  BY <1>2 DEF PollLost, Confirm, Settled, NothingElseLost, Waiting
<1>3. CASE Disable
  BY <1>3 DEF Disable, Settled, NothingElseLost, Waiting
<1>4. CASE UNCHANGED botVars
  BY <1>4 DEF botVars, Settled, NothingElseLost, Waiting
<1>. QED
  BY <1>1, <1>2, <1>3, <1>4, PollKeeps, TaskKeeps DEF BotStep

LEMMA BotCarries ==
  ASSUME BotInv, NEW n \in Nat, NEW i \in Updates, Carried(i, n), BotStep
  PROVE  done'[i] <= n + (IF i <= last' /\ i \notin Waiting' THEN 1 ELSE 0)
<1>1. CASE Send \/ PollLost \/ Disable \/ UNCHANGED botVars
  BY <1>1 DEF Send, PollLost, Disable, botVars, Carried, Waiting
<1>. QED
  BY <1>1, PollCarries, TaskCarries DEF BotStep

(* A new process.                                                          *)
LEMMA BotRestarts ==
  ASSUME BotInv, NEW n \in Nat, \A i \in Updates : Carried(i, n), BootBot
  PROVE  /\ BotInv'
         /\ \A i \in Updates :
              done'[i] <= n + 1 + (IF i <= last' /\ i \notin Waiting' THEN 1 ELSE 0)
<1>. USE BotAssumption DEF BotInv, BotTypeOK
<1>1. /\ last' = 0 /\ tasks' = <<>> /\ polling' = TRUE
      /\ dropped' = dropped \cup {i \in Waiting : i <= floor}
      /\ UNCHANGED <<sent, floor, done, failed>>
  BY DEF BootBot
<1>2. Waiting \subseteq Updates
  BY DEF Waiting, Updates
<1>3. BotTypeOK'
  BY <1>1, <1>2
<1>4. NothingElseLost'
  BY <1>1 DEF NothingElseLost
<1>5. ASSUME NEW i \in Updates
      PROVE  done'[i] <= n + 1 + (IF i <= last' /\ i \notin Waiting' THEN 1 ELSE 0)
  <2>1. done[i] \in Nat /\ done[i] <= n + 1
    BY DEF Carried
  <2>. QED
    BY <1>1, <2>1 DEF Updates
<1>. QED
  BY <1>1, <1>3, <1>4, <1>5
=============================================================================
