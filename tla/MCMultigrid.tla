----------------------------- MODULE MCMultigrid -----------------------------
(* The four versions of the multigrid benchmark, one timed iteration each.    *)
EXTENDS LoopTeam

Ser == INSTANCE MGSerial
Clk == INSTANCE MGCilk
Omp == INSTANCE MGOpenMP
Ff == INSTANCE MGFastFlow

Versions == {"SER", "CLK", "OMP", "FF"}
Programs == [SER |-> Ser!main(1), CLK |-> Clk!main(1), OMP |-> Omp!main(1), FF |-> Ff!main(1)]
=============================================================================
