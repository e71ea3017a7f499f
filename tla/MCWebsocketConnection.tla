------------------------ MODULE MCWebsocketConnection ------------------------
(* Instances of WebsocketConnection for TLC.                               *)
EXTENDS WebsocketConnection, TLC

CONSTANTS Breaks, Refusals, Rejections

MCBudget == "break" :> Breaks @@ "refuse" :> Refusals
              @@ "reject" :> Rejections

IdSymmetry == Permutations(Subids) \cup Permutations(Clients)
                \cup Permutations(Conns) \cup Permutations(Topics)
=============================================================================
