---------------------------- MODULE MCRunIngest -----------------------------
(* Instances of RunIngest for TLC. *)
EXTENDS RunIngest, TLC

CONSTANTS r1, r2, s1, b1, b2

SpanOfR1 == s1 :> r1

\* An OTLP export of two unfinished traces, and a batch of calls and ends that
\* a client posts to /ingest/v1 for the same runs, whose ids derive from the
\* trace ids.
TwoTraces ==
  (b1 :> << [type |-> "run_start", run |-> r1],
            [type |-> "span_start", span |-> s1],
            [type |-> "run_start", run |-> r2],
            [type |-> "provider_call", run |-> r1, span |-> s1] >>) @@
  (b2 :> << [type |-> "provider_call", run |-> r2, span |-> NoSpan],
            [type |-> "tool_call", run |-> r2],
            [type |-> "run_end", run |-> r2, status |-> "failed"],
            [type |-> "span_end", span |-> s1, status |-> "succeeded"],
            [type |-> "run_end", run |-> r1, status |-> "succeeded"] >>)
=============================================================================
