-------------------------- MODULE MCMemoryWatchdog --------------------------
(* Three tabs, so that two in the background have an order.  The default    *)
(* configuration on a machine with 16 GiB; the loads and ratios lie in every *)
(* region that the thresholds and their bands tell apart.                   *)
EXTENDS MemoryWatchdog, TLC

CONSTANTS a, b, c

MCTab == {a, b, c}
TabSymmetry == Permutations(MCTab)

MCRam == [warning |-> 85, critical |-> 93, band |-> 8]
MCGpu == [warning |-> 80, critical |-> 92, band |-> 5]
MCBudget ==
  [baseline |-> 400, reference |-> 8192, scaleMin |-> 75, scaleMax |-> 400,
   min |-> 192, max |-> 2048, fraction |-> 10,
   warning |-> 60, critical |-> 35, fgWarning |-> 80, fgCritical |-> 60,
   ceiling |-> 200, minHard |-> 512, maxHard |-> 4096]
MCLoad  == {77, 84, 92, 93}
MCRatio == {87, 92}

(* The worked examples of docs/resource_manager.md.                         *)
Row(gib) ==
  LET cell(level, foreground) ==
        <<Soft(MCBudget, 1024 * gib, level, foreground),
          Hard(MCBudget, 1024 * gib, level, foreground)>>
  IN << cell("normal", TRUE), cell("normal", FALSE), cell("warning", TRUE),
        cell("warning", FALSE), cell("critical", TRUE), cell("critical", FALSE) >>

ASSUME WorkedExamples ==
  /\ BudgetConfig(MCBudget) = MCBudget
  /\ Row(4)  = << <<300, 600>>, <<300, 600>>, <<240, 512>>,
                  <<192, 512>>, <<192, 512>>, <<192, 512>> >>
  /\ Row(8)  = << <<400, 800>>, <<400, 800>>, <<320, 640>>,
                  <<240, 512>>, <<240, 512>>, <<192, 512>> >>
  /\ Row(16) = << <<800, 1600>>, <<800, 1600>>, <<640, 1280>>,
                  <<480, 960>>, <<480, 960>>, <<280, 560>> >>
  /\ Row(32) = << <<1600, 3200>>, <<1600, 3200>>, <<1280, 2560>>,
                  <<960, 1920>>, <<960, 1920>>, <<560, 1120>> >>
=============================================================================
