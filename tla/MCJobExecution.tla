-------------------------- MODULE MCJobExecution --------------------------
(* Instances of JobExecution for TLC. *)
EXTENDS JobExecution

\* Two bundles that differ in a name only; the second has no file that
\* find_entry_script would take without being told.
TwoBundles == {<< <<"main.py", "x">> >>, << <<"tune.sh", "x">> >>}
OneBundle == {<< <<"main.py", "x">> >>}
=============================================================================
