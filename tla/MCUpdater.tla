----------------------------- MODULE MCUpdater ------------------------------
(* One update at a time, to one of two releases.                              *)
EXTENDS Updater
CONSTANT update
OneUpdate == {update}
=============================================================================
