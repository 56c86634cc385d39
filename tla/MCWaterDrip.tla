---------------------------- MODULE MCWaterDrip ----------------------------
(***************************************************************************)
(* TLC instance of WaterDrip: three pictures of one to three lines.        *)
(***************************************************************************)
EXTENDS WaterDrip

MCData ==
    << << {0}, {3, 15}, Bits >>,
       << {} >>,
       << Bits \ {7}, {1} >> >>

\* The commands, the character before '0' and the one after the last command.
MCCharacters == -1..3
=============================================================================
