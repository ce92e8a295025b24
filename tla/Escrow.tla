------------------------------- MODULE Escrow -------------------------------
(***************************************************************************)
(* What the payment platform promises about an agent's money, without the  *)
(* mechanism: no frozen-balance counter, no order rows, no jobs.           *)
(*                                                                         *)
(* A payment takes its amount out of the spendable funds once, when it is  *)
(* opened.  A held payment ends exactly once: charged (the money is gone)  *)
(* or returned (all of it comes back).  A charged payment may be refunded  *)
(* in full, once.  Nothing else moves a payment's money.                   *)
(***************************************************************************)
EXTENDS Integers

CONSTANTS
  Agents,      \* the agents, each with one VA account
  NoAgent,     \* the agent of a payment that has not been opened
  Payments     \* the identities payments can have

VARIABLES
  spendable,   \* what each agent can still spend
  payment      \* each payment's agent, amount and state

escrowVars == <<spendable, payment>>

States == {"none", "held", "charged", "returned", "refunded"}

Unopened == [agent |-> NoAgent, amount |-> 0, state |-> "none"]

EscrowInit ==
  /\ spendable = [a \in Agents |-> 0]
  /\ payment = [p \in Payments |-> Unopened]

\* Money enters or leaves the platform, never beyond what can be spent.
Fund(a, v) ==
  /\ spendable[a] + v >= 0
  /\ spendable' = [spendable EXCEPT ![a] = @ + v]
  /\ UNCHANGED payment

\* Money moves between two accounts of the platform.
Move(a, b, v) ==
  /\ a # b
  /\ 0 < v /\ v <= spendable[a]
  /\ spendable' = [spendable EXCEPT ![a] = @ - v, ![b] = @ + v]
  /\ UNCHANGED payment

\* A payment is opened against sufficient funds; the channel may already
\* have charged it or turned it down.
Open(p, a, v, s) ==
  /\ payment[p] = Unopened
  /\ 0 < v /\ v <= spendable[a]
  /\ s \in {"held", "charged", "returned"}
  /\ payment' = [payment EXCEPT ![p] = [agent |-> a, amount |-> v, state |-> s]]
  /\ spendable' = IF s = "returned"
                  THEN spendable
                  ELSE [spendable EXCEPT ![a] = @ - v]

Charge(p) ==
  /\ payment[p].state = "held"
  /\ payment' = [payment EXCEPT ![p].state = "charged"]
  /\ UNCHANGED spendable

\* The payment goes from state s to state t and its whole amount comes back.
GiveBack(p, s, t) ==
  /\ payment[p].state = s
  /\ payment' = [payment EXCEPT ![p].state = t]
  /\ spendable' = [spendable EXCEPT ![payment[p].agent] = @ + payment[p].amount]

\* The amounts are whatever the step moves: any step whose effect is that of
\* one of the actions is allowed, so none of them needs a set to choose from.
EscrowNext ==
  \/ \E a \in Agents : Fund(a, spendable'[a] - spendable[a])
  \/ \E a, b \in Agents : Move(a, b, spendable[a] - spendable'[a])
  \/ \E p \in Payments :
       \/ /\ payment'[p].agent \in Agents
          /\ Open(p, payment'[p].agent, payment'[p].amount, payment'[p].state)
       \/ Charge(p)
       \/ GiveBack(p, "held", "returned")
       \/ GiveBack(p, "charged", "refunded")

EscrowSpec == EscrowInit /\ [][EscrowNext]_escrowVars
=============================================================================
