---------------------------- MODULE MCMigrations ----------------------------
EXTENDS Migrations

CONSTANTS a1, a2, a3

MCActors   == {a1, a2, a3}
MCCommands == Upgrades \cup Downgrades \cup Writers
=============================================================================
