---------------------------- MODULE MCBenchmark ----------------------------
(* Benchmark over a few times, zero and far outliers among them.           *)
EXTENDS Benchmark

SomeTimes == {0, 10, 12, 100}
=============================================================================
