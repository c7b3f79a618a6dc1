--------------------------- MODULE MCGpuCholesky ---------------------------
(* Instances of GpuCholesky for TLC: two thread blocks; outer block columns *)
(* of one block column, in every variant, or of two.                        *)
EXTENDS GpuCholesky

MCJobs == [method : Method, m : {4}, n : {3}, nb : {2}]
              \cup [method : {"ll", "hp"}, m : {4}, n : {4}, nb : {4}]
MCFailing == {{}, {1}, {2}}
=============================================================================
