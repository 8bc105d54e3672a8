------------------------------ MODULE MCFilePV ------------------------------
(* FilePV on small instances. *)
EXTENDS FilePV, TLC

(* The ways of use that are explored. *)
MCUses == {{"load", "new", "machine_crash"}, {"load", "new", "resign"},
           {"load", "generate"}, {"load", "reset"}, {"load", "use_after_close"}}

(* Processes, keys and contents are interchangeable. *)
Symmetry == Permutations(Procs) \cup Permutations(Keys)
              \cup Permutations(Contents)
=============================================================================
