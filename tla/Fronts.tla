------------------------------- MODULE Fronts -------------------------------
(***************************************************************************)
(* The two fronts an agent is met at, the browser it drives and the        *)
(* terminal it is driven from.  They share no state: each step is of one.  *)
(***************************************************************************)
EXTENDS Browser, Terminal

FrontsInit == BrowserInit /\ TerminalInit

FrontsNext ==
  \/ BrowserNext /\ UNCHANGED terminalVars
  \/ TerminalNext /\ UNCHANGED browserVars

FrontsSpec == FrontsInit /\ [][FrontsNext]_<<browserVars, terminalVars>>

(***************************************************************************)
(* What the browser and the terminal promise, see there.                   *)
(***************************************************************************)
FrontsSound == BrowserSound /\ TerminalSound
=============================================================================
