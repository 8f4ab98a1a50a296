----------------------------- MODULE MCCompiler -----------------------------
(***************************************************************************)
(* The families of SourceFamilies for Compiler.                            *)
(***************************************************************************)
EXTENDS Compiler, SourceFamilies

\* Every third source of loops and conditions, then those of data, then those of
\* constants.
Loops == 588
Data  == 672
UnitOf(k) ==
  CASE k <= Loops -> LoopUnitOf(3 * k)
    [] k > Loops /\ k <= Loops + Data -> DataUnitOf(k - Loops)
    [] OTHER -> ConstUnitOf(k - Loops - Data)
AllUnits == 1 .. (Loops + Data + 144)

NoPrograms == {}
MCNames  == {"null", "main"}
MCInputs == {<<3, 1>>}
MCJunk   == {77}
=============================================================================
