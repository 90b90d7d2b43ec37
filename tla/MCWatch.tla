------------------------------- MODULE MCWatch -------------------------------
(* Instances of Watch: the watchers and the texts. *)
EXTENDS Watch

CONSTANTS out, err, poller

Plain == [sources |-> {"session"}, phases |-> {"run"}, patterns |-> <<>>, order |-> <<>>,
          once |-> FALSE, dedupe |-> TRUE, missing |-> "ignore", action |-> "report"]

\* A flow of the file, which runs a script and is only warned of; a failure, of the
\* session and of the file; and a flow whose last pattern is its first one again, which
\* must be complete.  The watch listens to both streams of a job.
StageWatchers ==
  <<[Plain EXCEPT !.order = <<"b", "x">>, !.sources = {"file"}, !.missing = "warn",
                  !.action = "script"],
    [Plain EXCEPT !.patterns = <<"b">>, !.sources = {"session", "file"}, !.once = TRUE,
                  !.action = "fail"],
    [Plain EXCEPT !.order = <<"a", "b", "a">>, !.missing = "fail"]>>

Cuts == {<<"a">>, <<"a", "b">>}

Written == {<<>>, <<"b">>, <<"b", "x">>}

FileAndSession == [f \in Feeders |-> IF f = poller THEN "file" ELSE "session"]

Streams == Permutations({out, err})

\* The instance is one that the theorem about the file speaks of.
ASSUME Supposed == OneReader
==============================================================================
