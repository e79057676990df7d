-------------------------------- MODULE MCConfig --------------------------------
(* An instance of ExecConfig for TLC: a variable holds a good word or a bad *)
(* one, and only dry_run is particular about it.                            *)
EXTENDS ExecConfig

DefaultOf(f) == IF f = "dry_run" THEN "true" ELSE "default"
===============================================================================
