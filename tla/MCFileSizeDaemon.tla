--------------------------- MODULE MCFileSizeDaemon ---------------------------
(* Instances of FileSizeDaemon for TLC.                                      *)
EXTENDS FileSizeDaemon, TLC

(* daemon.conf names nothing but a path; or it changes both settings or     *)
(* none of them.                                                             *)
PathConfigs == [file : {Unset}, socket : Paths]
MixedConfigs ==
  {c \in Config : (c.file \in {Unset, DefaultFile}) = (c.socket \in {Unset, DefaultPath})}

(* Bound: behaviours are not followed beyond the removal of a PID file that  *)
(* another instance had open, after which the properties promise nothing.    *)
UntilClobbered == ~clobbered

Symmetry == Permutations(Instances)
=============================================================================
