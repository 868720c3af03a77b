------------------------------ MODULE MCDayGate ------------------------------
(* The limits table of core/risk/limits.yaml in small units: every limit lies
   between two of the Values, so that each reading can be within, over or lost. *)
EXTENDS DayGate

CONSTANTS s1, s2, p1, p2, c1, c2

MCLimits ==
    [single_name |-> 1, gross |-> 1, net_low |-> -1, net_high |-> 1, sector |-> 1,
     beta |-> 1, liquidation |-> 1, volatility |-> 1,
     pod_dd |-> [warn |-> [abs |-> -1, pct |-> 0],
                 cut  |-> [abs |-> -2, pct |-> 1],
                 stop |-> [abs |-> -3, pct |-> 1]],
     var95 |-> 1, es975 |-> 1, correlation |-> 1, reduce |-> -1, halt |-> -2,
     utilization |-> 1, pb_share |-> 1, financing_cost |-> 1, cash |-> 1,
     respect_hard_cap |-> TRUE, utilisation |-> 80, adv |-> 2,
     charge_pods |-> TRUE, ir_floor |-> 0]

MCValues == {Unmeasured, NaN, -2, -1, 0, 1, 2}

\* A day on which nothing is wrong (CLEAN_* of tests/test_pipeline_failclosed.py),
\* with one pod or two in the fund, and with or without pod targets.
CleanDay(pods, targets) ==
    [health    |-> [c \in Checks |-> TRUE],
     orders    |-> {},
     book      |-> [gross |-> 1, net |-> 0, liquidation |-> 1, volatility |-> 1,
                    drawdown |-> 0, percentile |-> 1],
     weights   |-> [s \in Symbols |-> 1],
     sectors   |-> {1},
     betas     |-> {0},
     targets   |-> targets,
     fund      |-> [var95 |-> 1, es975 |-> 1, pods |-> pods, drawdown |-> 0,
                    correlation |-> IF pods = 1 THEN Unmeasured ELSE 0],
     financing |-> [utilization |-> 1, cost |-> 1, cash |-> 1],
     shares    |-> {1},
     capacity  |-> [p \in Pods |-> [tested |-> 1, participation |-> 1, allocated |-> 1]],
     cost      |-> [p \in Pods |-> [ir |-> 1, cost |-> 1, capital |-> 1, volatility |-> 1]],
     adv_measured  |-> [p \in Pods |-> TRUE],
     cost_measured |-> [p \in Pods |-> TRUE]]

\* The pods crowd into s1 and offset each other in s2.
CrowdedTargets == [p \in Pods |-> [s \in Symbols |->
                     IF p = p1 \/ s = s1 THEN 1 ELSE -1]]

MCFirstInputs == {CleanDay(pods, targets) :
                    pods \in {1, 2}, targets \in {Unmeasured, CrowdedTargets}}
==============================================================================
