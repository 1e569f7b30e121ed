----------------------------- MODULE MCPollLoop ------------------------------
(* Small instances of VbtPollLoop. *)
EXTENDS VbtPollLoop

\* Three connections to a table of two slots: the fewest that leave a gap with a row
\* behind it.
MCPopulations ==
  {<<"unix", "tcp", "trunk">>, <<"ctl", "ctl", "ctl">>, <<"unix", "trunk", "ctl">>}
=============================================================================
