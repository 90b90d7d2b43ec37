--------------------------- MODULE MCExpectSession ---------------------------
(* Instances of ExpectSession: which streams prompts appear on. *)
EXTENDS ExpectSession

\* The first step listens to stdout, the others to stderr.
OneStream == [k \in Prompt |-> IF k = 1 THEN {"stdout"} ELSE {"stderr"}]
BothStreams == [k \in Prompt |-> Streams]
=============================================================================
