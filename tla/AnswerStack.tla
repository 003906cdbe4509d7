---------------------------- MODULE AnswerStack -----------------------------
(***************************************************************************)
(* What the L1 review track promises about a card, without transactions,   *)
(* locks, logs or snapshots: its schedule is a stack of answers.  An       *)
(* answer goes on top, undo takes the top one off, and nothing else        *)
(* changes it until the card leaves the queue for good.  An answer is      *)
(* named by its place in the order of answering, so a stack is the set of  *)
(* its members and the top is the largest of them.                         *)
(***************************************************************************)
EXTENDS Naturals

CONSTANT Cards  \* rows of user_word_progress

VARIABLES
  place,  \* of each card: not yet enqueued, in the queue, or removed
  stack,  \* the answers each card's schedule is computed from
  last    \* the highest number given out so far

stackVars == <<place, stack, last>>

Top(S, i) == i \in S /\ \A j \in S : j <= i

StackInit ==
  /\ place = [c \in Cards |-> "none"]
  /\ stack = [c \in Cards |-> {}]
  /\ last = 0

Enter(c) ==
  /\ place[c] = "none"
  /\ place' = [place EXCEPT ![c] = "queued"]
  /\ UNCHANGED <<stack, last>>

Push(c) ==
  /\ place[c] = "queued"
  /\ last' > last
  /\ stack' = [stack EXCEPT ![c] = @ \cup {last'}]
  /\ UNCHANGED place

Pop(c, i) ==
  /\ place[c] = "queued"
  /\ Top(stack[c], i)
  /\ stack' = [stack EXCEPT ![c] = @ \ {i}]
  /\ last' >= last
  /\ UNCHANGED place

Leave(c) ==
  /\ place[c] = "queued"
  /\ place' = [place EXCEPT ![c] = "gone"]
  /\ stack' = [stack EXCEPT ![c] = {}]
  /\ last' >= last

(* Entries of the log that are not answers take numbers too. *)
Number ==
  /\ last' > last
  /\ UNCHANGED <<place, stack>>

StackNext ==
  \/ \E c \in Cards : Enter(c) \/ Push(c) \/ (\E i \in stack[c] : Pop(c, i)) \/ Leave(c)
  \/ Number

StackSpec == StackInit /\ [][StackNext]_stackVars
=============================================================================
