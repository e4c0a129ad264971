-------------------------- MODULE MCSessionRouting --------------------------
(* Three events of two chats, the first and the last from the same one.     *)
EXTENDS SessionRouting, TLC
CONSTANTS e1, e2, e3, chatA, chatB
ThreeEvents == {e1, e2, e3}
TwoKeys     == {chatA, chatB}
TwoChats    == e1 :> chatA @@ e2 :> chatB @@ e3 :> chatA
=============================================================================
