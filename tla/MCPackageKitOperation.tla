----------------------- MODULE MCPackageKitOperation -----------------------
(* Model checking PackageKitOperation: what PackageKit may say to a        *)
(* recovery, which takes no notice of the rest, and commands that differ   *)
(* in nothing.                                                             *)
EXTENDS PackageKitOperation, TLC

Understood == Signals \ {"destroy", "lost", "malformed", "failed", "rejected"}
Alike      == Permutations(Ids)
=============================================================================
