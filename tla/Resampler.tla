----------------------------- MODULE Resampler -----------------------------
(***************************************************************************)
(* The streaming resampler of apps/companion-core/src/audio.rs, as the     *)
(* number of samples it makes: their values are left out.  One sample in   *)
(* is dst units of time and one sample out src of them, so that the phase  *)
(* t and the step are integers (in the code 1.0 and src/dst, as floats).   *)
(***************************************************************************)
EXTENDS Naturals

\* Resampler::new
New(src, dst) == [src |-> src, dst |-> dst, t |-> 0, primed |-> FALSE]

\* How many of n samples in are intervals to step through: the very first
\* sample only gives the line its start.
Intervals(r, n) == IF r.primed THEN n ELSE n - 1

\* How often the inner loop runs in a call of process: while the phase is in
\* the current interval, push and step.
Pushes(r, n) ==
    LET end == Intervals(r, n) * r.dst
    IN  IF r.t < end THEN 1 + (end - r.t - 1) \div r.src ELSE 0

\* The resampler after a call of process with n > 0 samples.
Fed(r, n) ==
    [r EXCEPT !.primed = TRUE, !.t = @ + Pushes(r, n) * r.src - Intervals(r, n) * r.dst]

-----------------------------------------------------------------------------
(* What it promises.                                                       *)

CeilDiv(a, b) == (a + b - 1) \div b

\* n samples in make this many out, however they were cut into chunks: one at
\* every step that begins before the last sample.
Promised(src, dst, n) == IF n = 0 THEN 0 ELSE CeilDiv((n - 1) * dst, src)

\* The loop over the samples of a call is what one call per sample would be.
SampleBySample(rates, length) ==
    \A src, dst \in rates, n \in 1..length, k \in 0..length :
        LET r == IF k = 0 THEN New(src, dst) ELSE Fed(New(src, dst), k)
        IN  /\ Fed(r, n + 1) = Fed(Fed(r, 1), n)
            /\ Pushes(r, n + 1) = Pushes(r, 1) + Pushes(Fed(r, 1), n)

=============================================================================
