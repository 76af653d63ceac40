-------------------------------- MODULE MCPage --------------------------------
(* Page for TLC: two sliders of the simulation and two of the fork page move,  *)
(* and all sliders of the positions and of the lesson.                         *)
EXTENDS Page

MCSliders == [n \in SliderNames |-> CASE n = "debt" -> {1000, 50000} [] n = "ltv" -> {50}
                                      [] OTHER -> {}]
MCParams == [n \in ParamNames |-> CASE n = "poolDepth" -> {500, 10000}
                                    [] n = "attackerCapital" -> {100} [] OTHER -> {}]
MCLpInputs == [priceRatio |-> {10, 300}, concentration |-> {-50, 45}, fee |-> {100},
               depositUsd |-> {1, 20}]
MCV2IL == [r \in 10..1000 |-> CASE r = 10 -> -4250 [] r \in {50, 200} -> -572
             [] r = 300 -> -1340 [] r = 500 -> -2546 [] OTHER -> 0]
MCEduInputs == [swapSize |-> {3, 100}, liquidity |-> {100, 2600}, gasPrice |-> {500}]

\* A CSS pixel is two of the screen, one, and a half of one, where the width is odd.
MCScreens == {[width |-> 333, height |-> 200, ratio |-> 4],
              [width |-> 41, height |-> 21, ratio |-> 2], [width |-> 41, height |-> 21, ratio |-> 1]}
=============================================================================
