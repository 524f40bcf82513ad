------------------------------ MODULE MCInbox ------------------------------
(* Three messages with different stamps, in any order of arrival.          *)
EXTENDS Inbox

CONSTANTS m1, m2, m3

MCStamp == m1 :> 0 @@ m2 :> 1 @@ m3 :> 2
=============================================================================
