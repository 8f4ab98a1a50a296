----------------------------- MODULE MCBackEnd -----------------------------
(***************************************************************************)
(* The families of SourceFamilies for BackEnd.                             *)
(***************************************************************************)
EXTENDS BackEnd

Family == INSTANCE SourceFamilies

\* Every 43rd source of loops and conditions: 43 has no divisor in common
\* with the numbers of conditions and statements.
Control == 40
\* Then those of frames, then every fifth of those of constants.
Frames == 80
UnitOf(k) ==
  CASE k <= Control -> Family!LoopUnitOf(43 * k)
    [] k > Control /\ k <= Control + Frames -> Family!FrameUnitOf(k - Control)
    [] OTHER -> Family!ConstUnitOf(5 * (k - Control - Frames))
AllUnits == 1 .. (Control + Frames + 28)

WrongUnitOf(k)   == Family!WrongFrameOf(k)
GlobalFromGlobal == Family!GlobalFromGlobal
ArrayToLibrary   == Family!ArrayToLibrary
LargeArray       == Family!LargeArray

MCInputs == {<<3, 1>>}
\* The programs of the frames, for the assumptions on Programs.
FramePrograms == {Analysis!get_ir_program(Family!FrameUnitOf(k)).program : k \in Family!FrameUnits}
NoPrograms == {}
=============================================================================
