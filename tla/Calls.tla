------------------------------- MODULE Calls ---------------------------------
(***************************************************************************)
(* What the modules of the back office share: the requests that can be in  *)
(* flight together, and the value that stands for NULL.  Every handler is  *)
(* cut into one action per statement it sends to the database or to Redis, *)
(* so requests interleave between the statements.                          *)
(***************************************************************************)
EXTENDS Integers, FiniteSets

CONSTANTS
  Requests,   \* requests that can be in flight together
  None

ASSUME CallsAssumption == None \notin Requests
=============================================================================
