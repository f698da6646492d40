------------------------------- MODULE Escrow -------------------------------
(***************************************************************************)
(* What the program promises to the players of its tournaments, without    *)
(* accounts, counters, clocks or lamports.  A tournament is open, locked,  *)
(* playing, settled and done, in this order.  Players come and go while it *)
(* is open; from then on a member stays until the settlement, except that  *)
(* one may be sent away to make the field even.  The winners are the top   *)
(* quarter by score, ties included; every member leaves exactly once, and  *)
(* only then is the tournament done.                                       *)
(***************************************************************************)
EXTENDS Integers, FiniteSets

CONSTANTS Ids,      \* 0..n, tournaments in their order
          Members   \* all who may take part

VARIABLES phase, members, score, winners

vars == <<phase, members, score, winners>>

Init ==
    /\ phase = [t \in Ids |-> "Unused"]
    /\ members = [t \in Ids |-> {}]
    /\ score = [t \in Ids |-> [p \in Members |-> 0]]
    /\ winners = [t \in Ids |-> {}]

OpenFirst ==
    /\ \A t \in Ids : phase[t] = "Unused"
    /\ phase' = [phase EXCEPT ![0] = "Open"]
    /\ UNCHANGED <<members, score, winners>>

Deposit(t, p) ==
    /\ phase[t] = "Open"
    /\ p \notin members[t]
    /\ members' = [members EXCEPT ![t] = @ \cup {p}]
    /\ UNCHANGED <<phase, score, winners>>

Refund(t, p) ==
    /\ phase[t] = "Open"
    /\ p \in members[t]
    /\ members' = [members EXCEPT ![t] = @ \ {p}]
    /\ UNCHANGED <<phase, score, winners>>

Lock(t) ==
    /\ phase[t] = "Open"
    /\ Cardinality(members[t]) >= 2
    /\ phase' = [phase EXCEPT ![t] = "Locked"]
    /\ UNCHANGED <<members, score, winners>>

\* Nobody leaves an even field, one member leaves an odd one.
Begin(t) ==
    LET odd == Cardinality(members[t]) % 2
    IN  /\ phase[t] = "Locked"
        /\ phase' = [phase EXCEPT ![t] = "Playing"]
        /\ \E gone \in SUBSET members[t] :
              /\ Cardinality(gone) = odd
              /\ members' = [members EXCEPT ![t] = @ \ gone]
        /\ UNCHANGED <<score, winners>>

\* Members gain points; nobody else's score and no other tournament's moves.
Play(t) ==
    /\ phase[t] = "Playing"
    /\ score' = [score EXCEPT ![t] = score'[t]]
    /\ \A p \in Members :
          /\ score'[t][p] >= score[t][p]
          /\ p \notin members[t] => score'[t][p] = score[t][p]
    /\ UNCHANGED <<phase, members, winners>>

Ahead(t, p) == {q \in members[t] : score[t][q] > score[t][p]}

\* Members with fewer than a quarter of the field ahead of them.
TopQuarter(t) ==
    {p \in members[t] : 4 * Cardinality(Ahead(t, p)) < Cardinality(members[t])}

\* A settlement opens the next tournament.
Settle(t) ==
    /\ phase[t] = "Playing"
    /\ t + 1 \in Ids /\ phase[t + 1] = "Unused"
    /\ phase' = [phase EXCEPT ![t] = "Settled", ![t + 1] = "Open"]
    /\ winners' = [winners EXCEPT ![t] = TopQuarter(t)]
    /\ UNCHANGED <<members, score>>

\* A member leaves with his share, if he is a winner, or without one.
Release(t, p) ==
    /\ phase[t] = "Settled"
    /\ p \in members[t]
    /\ members' = [members EXCEPT ![t] = @ \ {p}]
    /\ winners' = [winners EXCEPT ![t] = @ \ {p}]
    /\ score' = [score EXCEPT ![t][p] = 0]
    /\ UNCHANGED phase

Close(t) ==
    /\ phase[t] = "Settled"
    /\ members[t] = {}
    /\ phase' = [phase EXCEPT ![t] = "Done"]
    /\ UNCHANGED <<members, score, winners>>

Next ==
    \/ OpenFirst
    \/ \E t \in Ids :
          \/ \E p \in Members : Deposit(t, p) \/ Refund(t, p) \/ Release(t, p)
          \/ Lock(t) \/ Begin(t) \/ Play(t) \/ Settle(t) \/ Close(t)

Spec == Init /\ [][Next]_vars

=============================================================================
