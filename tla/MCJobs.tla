------------------------------- MODULE MCJobs -------------------------------
(* Model checking of Jobs: a few rows, two or three triggering goroutines,  *)
(* two or three process lives.                                              *)
EXTENDS Jobs, TLC

\* HTTP request goroutines are interchangeable.  Safety runs only.
HttpSymmetry == Permutations(Http)
=============================================================================
