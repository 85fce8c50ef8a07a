-------------------------- MODULE DatabaseDrivers ----------------------------
(***************************************************************************)
(* The database drivers (Drivers) with what they promise; under these      *)
(* names the module can be extended together with that of another part.    *)
(***************************************************************************)
CONSTANTS
  Engines, MainDb, OtherDbs, Schema, Batches, BatchSize, MaxScript,
  NoValue   \* the None of a driver

VARIABLES engine, idle, dcall, ran, manual, replies, durable

Driver == INSTANCE Drivers WITH None <- NoValue, call <- dcall

ASSUME DriversAssumption == Driver!DriversAssumption

(* Every statement meets the session its caller asked for, and the batches *)
(* of a manual transaction are atomic (db/*.rs, db/transaction.rs).        *)
DriversKeepTheirWord == Driver!RunsAsAsked /\ Driver!BatchesAreAtomic

=============================================================================
