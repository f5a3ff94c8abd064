-------------------------- MODULE MCStreamFallback --------------------------
(***************************************************************************)
(* Small instances of StreamFallback: two streams without retries, and one  *)
(* stream whose upstream is tried again and whose writes may fail.  A       *)
(* behaviour is one of the one or the other.                               *)
(***************************************************************************)
EXTENDS StreamFallback

CONSTANTS p1, p2, Retried    \* the stream of the instance with retries and lost writes

TwoCandidates == <<p1, p2>>

VARIABLE part                \* "plain" or "retry"

Again == INSTANCE StreamFallback WITH Retry <- TRUE, WritesFail <- TRUE

StreamInit ==
    \/ part = "plain" /\ Init
    \/ part = "retry" /\ Again!Init

StreamNext ==
    /\ \/ part = "plain" /\ Next
       \/ part = "retry" /\ Again!Next /\ \A s \in Streams \ {Retried} : pc'[s] = "new"
    /\ UNCHANGED part

\* The fairness of StreamFallback, without retries.
PlainFairness ==
    \A s \in Streams :
        /\ WF_vars(part = "plain" /\ Goroutine(s))
        /\ WF_vars(part = "plain" /\ Upstream(s))
        /\ WF_vars(part = "plain" /\ Handler(s))

StreamSpec == StreamInit /\ [][StreamNext]_<<vars, part>> /\ PlainFairness

-----------------------------------------------------------------------------
\* IncrementLoad and DecrementLoad, without retries: the load of a provider is the
\* number of streams it serves, on every way out of the loop.
PlainLoadExact == part = "plain" => LoadExact

\* While its client stays connected, a stream without retries comes to an end and the
\* handler tells the client: by an error or by closing the stream.
PlainStreamEnds == part = "plain" => StreamEnds
=============================================================================
