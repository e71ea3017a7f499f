----------------------- MODULE MCSubscriptionDispatcher -----------------------
(* Instances of SubscriptionDispatcher for TLC.                            *)
EXTENDS SubscriptionDispatcher

CONSTANTS base, er

\* One base chain endpoint and one ER node, both known at startup.
MCStartup == <<base, er>>
=============================================================================
