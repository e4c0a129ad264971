--------------------------- MODULE OrderedStream ---------------------------
(***************************************************************************)
(* What who listens to a stream is promised, whatever carries it: it hears  *)
(* what was sent, in that order and without a gap, and hears nothing after  *)
(* the end.  The end is "whole" when all was heard that is ever sent,       *)
(* "broken" when the listener is told that something is missing, and "cut"  *)
(* without such notice only after the listener's side has stopped it.       *)
(***************************************************************************)
EXTENDS Naturals, Sequences

CONSTANT Items      (* what may be sent *)

VARIABLES sent,     (* all that was sent                      *)
          heard,    (* what was heard of it                   *)
          end,      (* "open", "whole", "broken" or "cut"     *)
          stopped   (* the listener's side has stopped it     *)

Init == sent = <<>> /\ heard = <<>> /\ end = "open" /\ stopped = FALSE

Send(x) == /\ end # "whole"
           /\ sent' = Append(sent, x)
           /\ UNCHANGED <<heard, end, stopped>>

Hear == /\ end = "open" /\ Len(heard) < Len(sent)
        /\ heard' = Append(heard, sent[Len(heard) + 1])
        /\ UNCHANGED <<sent, end, stopped>>

End(e) == /\ end = "open"
          /\ e = "whole" => heard = sent
          /\ e = "cut" => stopped
          /\ end' = e
          /\ UNCHANGED <<sent, heard, stopped>>

Stop == stopped' = TRUE /\ UNCHANGED <<sent, heard, end>>

Next ==
  \/ \E x \in Items : Send(x)
  \/ Hear
  \/ \E e \in {"whole", "broken", "cut"} : End(e)
  \/ Stop

Spec == Init /\ [][Next]_<<sent, heard, end, stopped>>
=============================================================================
