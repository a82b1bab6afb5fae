--------------------------------- MODULE Bot ---------------------------------
(***************************************************************************)
(* The companion bot of src/bot.py and the Telegram service as far as the  *)
(* bot can tell: updates are numbered; a poll for the updates from an      *)
(* offset on confirms those before it, for good; the bot makes a task of   *)
(* every update and moves its offset before the tasks have run.            *)
(*                                                                         *)
(* What a command does to the links is in Management.  Tasks start in the  *)
(* order they were made and reach the database without a wait.             *)
(***************************************************************************)
EXTENDS Naturals, Sequences

CONSTANTS
  MaxUpdate    \* bound on the updates that are sent

ASSUME BotAssumption == MaxUpdate \in Nat

VARIABLES
  sent,     \* how many updates users have sent
  floor,    \* the updates up to here are confirmed
  last,     \* last_update_id
  tasks,    \* the updates whose tasks have not run
  polling,  \* whether the polling loop runs
  done,     \* history: how many times an update was carried out
  failed,   \* history: updates whose task raised
  dropped   \* history: confirmed updates whose tasks died with a process

botVars == <<sent, floor, last, tasks, polling, done, failed, dropped>>

Updates == 1..MaxUpdate

Waiting == {tasks[n] : n \in DOMAIN tasks}

InitBot ==
  /\ sent = 0
  /\ floor = 0
  /\ last = 0
  /\ tasks = <<>>
  /\ polling = TRUE
  /\ done = [i \in Updates |-> 0]
  /\ failed = {}
  /\ dropped = {}

Send ==
  /\ sent < MaxUpdate
  /\ sent' = sent + 1
  /\ UNCHANGED <<floor, last, tasks, polling, done, failed, dropped>>

(* Mutant of Confirm: the offset is one too high. *)
ConfirmNext == floor' = IF last >= floor /\ last < sent THEN last + 1 ELSE floor

(* Telegram takes the offset, last + 1. *)
Confirm == floor' = IF last > floor THEN last ELSE floor

(* The answer to a poll is lost, or comes with an error or nothing. *)
PollLost ==
  /\ polling
  /\ Confirm
  /\ UNCHANGED <<sent, last, tasks, polling, done, failed, dropped>>

(* Mutant of Poll: the offset does not move on. *)
PollAgain ==
  /\ polling
  /\ Confirm
  /\ sent > floor'
  /\ tasks' = tasks \o [n \in 1..(sent - floor') |-> floor' + n]
  /\ UNCHANGED <<sent, last, polling, done, failed, dropped>>

(* Mutant of Poll: of several updates, only the newest gets a task. *)
PollNewest ==
  /\ polling
  /\ Confirm
  /\ sent > floor'
  /\ tasks' = Append(tasks, sent)
  /\ last' = sent
  /\ UNCHANGED <<sent, polling, done, failed, dropped>>

(* The unconfirmed updates come. *)
Poll ==
  /\ polling
  /\ Confirm
  /\ sent > floor'
  /\ tasks' = tasks \o [n \in 1..(sent - floor') |-> floor' + n]
  /\ last' = sent
  /\ UNCHANGED <<sent, polling, done, failed, dropped>>

(* 401 or 404: the loop ends, until the next start. *)
Disable ==
  /\ polling
  /\ polling' = FALSE
  /\ UNCHANGED <<sent, floor, last, tasks, done, failed, dropped>>

Handled ==
  /\ tasks # <<>>
  /\ tasks' = Tail(tasks)
  /\ done' = [done EXCEPT ![Head(tasks)] = @ + 1]
  /\ UNCHANGED <<sent, floor, last, polling, failed, dropped>>

(* A task that raises, say because the file is locked, is not run again. *)
HandleFails ==
  /\ tasks # <<>>
  /\ tasks' = Tail(tasks)
  /\ failed' = failed \cup {Head(tasks)}
  /\ UNCHANGED <<sent, floor, last, polling, done, dropped>>

BootBot ==
  /\ last' = 0
  /\ tasks' = <<>>
  /\ polling' = TRUE
  /\ dropped' = dropped \cup {i \in Waiting : i <= floor}
  /\ UNCHANGED <<sent, floor, done, failed>>

-----------------------------------------------------------------------------

BotTypeOK ==
  /\ sent \in 0..MaxUpdate
  /\ floor \in 0..sent
  /\ last \in 0..sent
  /\ tasks \in Seq(1..sent)
  /\ polling \in BOOLEAN
  /\ done \in [Updates -> Nat]
  /\ failed \subseteq Updates /\ dropped \subseteq Updates

(* A confirmed update never comes again; one that is neither carried out   *)
(* nor waiting was lost with its process or its task raised, and nothing   *)
(* else loses one (bot.py:250-258).                                        *)
NothingElseLost ==
  \A i \in 1..floor : done[i] > 0 \/ i \in Waiting \cup failed \cup dropped
=============================================================================
