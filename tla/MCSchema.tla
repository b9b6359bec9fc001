------------------------------ MODULE MCSchema ------------------------------
(* Two operators at a database with three stored transactions.             *)
EXTENDS SchemaStages
=============================================================================
