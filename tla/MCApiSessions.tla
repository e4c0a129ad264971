--------------------------- MODULE MCApiSessions ----------------------------
(* Two requests that name the same session, on a server nothing disturbs.    *)
EXTENDS ApiSessions
OneSession == {[by |-> "name", name |-> "A", stream |-> FALSE]}
=============================================================================
