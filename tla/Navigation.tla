----------------------------- MODULE Navigation -----------------------------
(***************************************************************************)
(* What the page loader promises to the renderer, with no network, no      *)
(* timers and no sub-resources: the renderer asks for navigations, and is  *)
(* fed documents.  A navigation is fed once (`finished'), may then be fed  *)
(* its completed form any number of times (`refreshed'), and never before; *)
(* an error or a stop ends it; and whatever is fed always belongs to the   *)
(* navigation that was asked for last.                                     *)
(***************************************************************************)
EXTENDS Naturals

VARIABLES
  nav,    (* number of the newest navigation                               *)
  phase,  (* how far it got                                                *)
  fed     (* navigation whose document the engine holds, 0: none or an error page *)

navVars == <<nav, phase, fed>>

Phase == {"idle", "loading", "initial", "final", "stopped", "error"}

NavTypeOK == nav \in Nat /\ phase \in Phase /\ fed \in Nat

NavInit == nav = 0 /\ phase = "idle" /\ fed = 0

Start ==
  /\ nav' = nav + 1
  /\ phase' = "loading"
  /\ UNCHANGED fed

FeedInitial ==
  /\ phase = "loading"
  /\ phase' = "initial"
  /\ fed' = nav
  /\ UNCHANGED nav

FeedFinal ==
  /\ phase \in {"initial", "final"}
  /\ phase' = "final"
  /\ fed' = nav
  /\ UNCHANGED nav

Error ==
  /\ phase # "error"
  /\ phase' = "error"
  /\ fed' = 0
  /\ UNCHANGED nav

(* A stop leaves an error page where it is.                                 *)
Stop ==
  /\ nav' = nav + 1
  /\ phase' = IF phase = "error" THEN "error" ELSE "stopped"
  /\ UNCHANGED fed

NavNext == Start \/ FeedInitial \/ FeedFinal \/ Error \/ Stop

NavSpec == NavInit /\ [][NavNext]_navVars
=============================================================================
