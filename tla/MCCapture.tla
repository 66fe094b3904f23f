----------------------------- MODULE MCCapture -----------------------------
(***************************************************************************)
(* A small instance of Capture: three runs, one of which may be overtaken  *)
(* by two changes of session, and two predictions that outlive the limit.  *)
(***************************************************************************)
EXTENDS Capture, TLC

Counts(prompt, completion) == [prompt |-> prompt, completion |-> completion]
Generation(metadata, info, tools, text) ==
    [metadata |-> metadata, info |-> info, tools |-> tools, text |-> text]
Response(usage, billed, generations) ==
    [usage |-> usage, billed |-> billed, generations |-> generations]

MCResponses ==
    {Response(Counts(3, 1), Absent, <<Generation(Counts(3, 1), Absent, <<>>, TRUE)>>),
     Response(Counts(0, 0), Counts(2, 1), <<Generation(Absent, Counts(1, 1), <<"search">>, TRUE)>>),
     Response(Absent, Absent, <<Generation(Counts(1, 1), Counts(2, 1), <<>>, TRUE),
                                Generation(Absent, Counts(1, 0), <<>>, FALSE)>>)}

Outcome(status, video, outputs, time) ==
    [status |-> status, video |-> video, outputs |-> outputs, time |-> time]
MCOutcomes ==
    {Outcome("succeeded", FALSE, 2, 0), Outcome("succeeded", TRUE, 1, None),
     Outcome("failed", FALSE, None, 3)}

Symmetry == Permutations(Runs) \cup Permutations(Chains)
                \cup Permutations(Pollers) \cup Permutations(Jobs)
=============================================================================
