---------------------------- MODULE MCDeployment ----------------------------
(***************************************************************************)
(* Two small deployments of Orchestration: two clients, two migrations, one  *)
(* feed of two changes, at most one trade.                                  *)
(***************************************************************************)
EXTENDS Orchestration

Files == <<"000_schemas", "010_cdc_ingestion_order">>

\* A was there before the log; N is registered by it, onboarded after go-live,
\* and may trade before either.
Founding == [A |-> <<"M1">>, N |-> <<"M1">>]
FoundingLog == <<[client |-> "N", op |-> "insert"], [client |-> "A", op |-> "update"]>>
FoundingTrades == <<[client |-> "N", instrument |-> "Gold", early |-> TRUE]>>

\* N too is onboarded after go-live, but its first change is an update.
Onboarding == [A |-> <<"M1">>, N |-> <<"M1">>]
OnboardingLog == <<[client |-> "N", op |-> "update"], [client |-> "A", op |-> "update"]>>
NoTrades == <<>>
=============================================================================
