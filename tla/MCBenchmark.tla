---------------------------- MODULE MCBenchmark -----------------------------
EXTENDS BenchmarkInv

Plain == [counts |-> <<1>>, reset |-> FALSE, skip_deploy |-> FALSE,
          access |-> "ingress", skip_teardown |-> FALSE, preflight |-> FALSE]

(* A full run over two node counts, the same left running, a fresh one on  *)
(* what is deployed, a small one through a port-forward, and a preflight.  *)
Mixed == {[Plain EXCEPT !.counts = <<1, 2>>],
          [Plain EXCEPT !.counts = <<2>>, !.skip_teardown = TRUE],
          [Plain EXCEPT !.counts = <<2>>, !.reset = TRUE, !.skip_deploy = TRUE],
          [Plain EXCEPT !.skip_deploy = TRUE, !.access = "forward"],
          [Plain EXCEPT !.preflight = TRUE]}

Kept == {[Plain EXCEPT !.skip_teardown = TRUE]}

(* All steps but those between the loss of a volume and its migration. *)
Recoverable == (Steps \union {"auth"}) \ {"stores", "scale0", "gone", "claim", "apply", "pgready",
                        "migrate", "migrated"}
=============================================================================
