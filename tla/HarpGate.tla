------------------------------ MODULE HarpGate ------------------------------
(***************************************************************************)
(* What a player is promised: an instrument that looks at the streams      *)
(* from time to time and then starts or stops single voices until exactly  *)
(* the streams that were interrupted are sounding.  A voice that is        *)
(* already right is left alone, so a hand that stays in a stream does not  *)
(* strike its note again.  When no stream is interrupted all voices may be *)
(* stopped at once.  The instrument may also go down, and forget.          *)
(***************************************************************************)
EXTENDS Naturals

CONSTANT Voices

VARIABLES target,     (* the streams that were interrupted at the last look *)
          sounding    (* the voices the instrument has started and not stopped *)

gateVars == <<target, sounding>>

GateInit == target = {} /\ sounding = {}

Look(S) ==
    /\ sounding = target
    /\ target' = S
    /\ UNCHANGED sounding

Start(v) ==
    /\ v \in target \ sounding
    /\ sounding' = sounding \cup {v}
    /\ UNCHANGED target

Stop(v) ==
    /\ v \in sounding \ target
    /\ sounding' = sounding \ {v}
    /\ UNCHANGED target

Hush ==
    /\ sounding = target
    /\ target' = {}
    /\ sounding' = {}

GoDown == target' = {} /\ sounding' = {}

GateNext ==
    \/ \E S \in SUBSET Voices : Look(S)
    \/ \E v \in Voices : Start(v) \/ Stop(v)
    \/ Hush
    \/ GoDown

GateSpec == GateInit /\ [][GateNext]_gateVars
=============================================================================
