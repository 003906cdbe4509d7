---------------------------- MODULE EffectLedger ----------------------------
(***************************************************************************)
(* What the review outbox promises to the rest of the application,         *)
(* without leases, workers, retries or receipts: an answer that was        *)
(* recorded is queued; its downstream effects are later applied all        *)
(* together and once, or the event is given up and waits for an operator   *)
(* to replay it.  Applied events are eventually purged by retention.       *)
(* Module Outbox is shown to implement this one; the modules that compose  *)
(* the review tracks use this one in place of the worker.                  *)
(***************************************************************************)
EXTENDS Naturals

CONSTANTS
  Events,   \* rows of outbox_events, one per recorded answer
  L2Events  \* those whose payload says track = "l2"

VARIABLES
  ledger,   \* where each event stands
  count     \* how often each effect of each event was committed

ledgerVars == <<ledger, count>>

Effects == {"l2_transition", "l1_cascade", "session_cards_seen", "l2_weak_signal"}

(* The effects the worker runs for an event, by track. *)
EffectsOf(e) ==
  IF e \in L2Events THEN {"l2_weak_signal"}
                    ELSE {"l2_transition", "l1_cascade", "session_cards_seen"}

LedgerStates == {"absent", "queued", "applied", "dead", "purged"}

LedgerTypeOK ==
  /\ ledger \in [Events -> LedgerStates]
  /\ count \in [Events -> [Effects -> Nat]]

LedgerInit ==
  /\ ledger = [e \in Events |-> "absent"]
  /\ count = [e \in Events |-> [f \in Effects |-> 0]]

Record(e) ==
  /\ ledger[e] = "absent"
  /\ ledger' = [ledger EXCEPT ![e] = "queued"]
  /\ UNCHANGED count

Apply(e) ==
  /\ ledger[e] = "queued"
  /\ ledger' = [ledger EXCEPT ![e] = "applied"]
  /\ count' = [count EXCEPT ![e] =
                 [f \in Effects |-> IF f \in EffectsOf(e) THEN @[f] + 1 ELSE @[f]]]

(* One recovery statement may give up several events at once. *)
GiveUp(S) ==
  /\ \A e \in S : ledger[e] = "queued"
  /\ ledger' = [e \in Events |-> IF e \in S THEN "dead" ELSE ledger[e]]
  /\ UNCHANGED count

Replay(e) ==
  /\ ledger[e] = "dead"
  /\ ledger' = [ledger EXCEPT ![e] = "queued"]
  /\ UNCHANGED count

Purge(e) ==
  /\ ledger[e] = "applied"
  /\ ledger' = [ledger EXCEPT ![e] = "purged"]
  /\ UNCHANGED count

LedgerNext ==
  \/ \E e \in Events : Record(e) \/ Apply(e) \/ Replay(e) \/ Purge(e)
  \/ \E S \in SUBSET Events : GiveUp(S)

LedgerSpec == LedgerInit /\ [][LedgerNext]_ledgerVars
=============================================================================
