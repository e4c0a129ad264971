----------------------------- MODULE MCProfiles -----------------------------
(* One command after the other, on the root and one profile.                 *)
EXTENDS Profiles
CONSTANTS user, work
OneUser == {user}
OneProfile == {work}
=============================================================================
