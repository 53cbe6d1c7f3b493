------------------------------ MODULE RemoteTurns ------------------------------
(* The remote turns that the outbox and the ledger speak of; a bridge gives    *)
(* every turn an id of its own (index.ts, allocateInteractionId).              *)
EXTENDS Naturals, FiniteSets

CONSTANT Interactions

ASSUME TurnsAssumption == IsFiniteSet(Interactions)
=============================================================================
