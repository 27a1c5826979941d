--------------------------- MODULE MCConfigStore ---------------------------
(***************************************************************************)
(* Few requests, overlapping in every way: the module Panel has them all.  *)
(***************************************************************************)
EXTENDS ConfigStore, TLC

FewPlans == {<<Update({"paths"}, {})>>, <<Replace({"password", "completed"}), Save>>}

FewCliPlans == {<<Update({}, {"password", "completed"}), Update({}, {"password"})>>,
                <<Replace({}), Save>>}

HandlerSymmetry == Permutations(Handlers)
=============================================================================
