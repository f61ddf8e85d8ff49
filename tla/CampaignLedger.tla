--------------------------- MODULE CampaignLedger ---------------------------
(***************************************************************************)
(* What the escrow promises about the money of a campaign, whatever its    *)
(* detailed status: stakes are raised up to a target; committed money can  *)
(* be released to the farmer; one single decision then divides all that is *)
(* left between the farmer and the investors; and after that decision an   *)
(* investor is paid at most once, never more than pro rata of the stake.   *)
(*                                                                         *)
(* ProductionEscrow is shown to implement this specification.              *)
(***************************************************************************)
EXTENDS Integers

CONSTANTS
  Campaigns,
  Holders,    \* those who may hold a stake
  Money       \* the amounts considered, a set of natural numbers

VARIABLES
  phase,      \* "none", "raising", "committed" or "divided"
  target,     \* what the campaign wants to raise
  raised,     \* what it has raised
  farmer,     \* the part of it given to the farmer
  pool,       \* the part of it given to the investors
  stake,      \* the investors' unredeemed stakes
  paid        \* what the investors have been paid

vars == <<phase, target, raised, farmer, pool, stake, paid>>

Init ==
  /\ phase = [c \in Campaigns |-> "none"]
  /\ target = [c \in Campaigns |-> 0]
  /\ raised = [c \in Campaigns |-> 0]
  /\ farmer = [c \in Campaigns |-> 0]
  /\ pool = [c \in Campaigns |-> 0]
  /\ stake = [c \in Campaigns |-> [h \in Holders |-> 0]]
  /\ paid = [c \in Campaigns |-> 0]

Open(c) ==
  /\ phase[c] = "none"
  /\ phase' = [phase EXCEPT ![c] = "raising"]
  /\ \E t \in Money \ {0} : target' = [target EXCEPT ![c] = t]
  /\ UNCHANGED <<raised, farmer, pool, stake, paid>>

\* Raising money; the campaign may commit as soon as the target is met.
Raise(c, h, amount) ==
  /\ phase[c] = "raising"
  /\ raised[c] + amount <= target[c]
  /\ raised' = [raised EXCEPT ![c] = @ + amount]
  /\ stake' = [stake EXCEPT ![c][h] = @ + amount]
  /\ \/ UNCHANGED phase
     \/ raised'[c] = target[c] /\ phase' = [phase EXCEPT ![c] = "committed"]
  /\ UNCHANGED <<target, farmer, pool, paid>>

Commit(c) ==
  /\ phase[c] = "raising"
  /\ raised[c] = target[c]
  /\ phase' = [phase EXCEPT ![c] = "committed"]
  /\ UNCHANGED <<target, raised, farmer, pool, stake, paid>>

Release(c, amount) ==
  /\ phase[c] = "committed"
  /\ farmer[c] + amount <= raised[c]
  /\ farmer' = [farmer EXCEPT ![c] = @ + amount]
  /\ UNCHANGED <<phase, target, raised, pool, stake, paid>>

\* The one decision: everything not yet released goes to one side or the other.
Divide(c, amount) ==
  /\ phase[c] \in {"raising", "committed"}
  /\ farmer[c] + amount <= raised[c]
  /\ phase' = [phase EXCEPT ![c] = "divided"]
  /\ farmer' = [farmer EXCEPT ![c] = @ + amount]
  /\ pool' = [pool EXCEPT ![c] = raised[c] - farmer'[c]]
  /\ UNCHANGED <<target, raised, stake, paid>>

Pay(c, h, amount) ==
  /\ phase[c] = "divided"
  /\ stake[c][h] > 0
  /\ amount * raised[c] <= stake[c][h] * pool[c]
  /\ stake' = [stake EXCEPT ![c][h] = 0]
  /\ paid' = [paid EXCEPT ![c] = @ + amount]
  /\ UNCHANGED <<phase, target, raised, farmer, pool>>

Next ==
  \E c \in Campaigns :
    \/ Open(c)
    \/ \E h \in Holders, amount \in Money \ {0} : Raise(c, h, amount)
    \/ Commit(c)
    \/ \E amount \in Money \ {0} : Release(c, amount)
    \/ \E amount \in Money : Divide(c, amount)
    \/ \E h \in Holders, amount \in Money \ {0} : Pay(c, h, amount)

Spec == Init /\ [][Next]_vars
=============================================================================
