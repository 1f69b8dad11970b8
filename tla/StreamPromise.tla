---------------------------- MODULE StreamPromise ----------------------------
(****************************************************************************)
(* What the callbacks of a stream may rely on, as output_pa.c does and PortAudio   *)
(* assumes: a stream is called only between its start and its end, one call at a    *)
(* time, its end is followed by the finished callback, and it is closed only when    *)
(* nothing is being called. Streams of a host API that repeats go on calling         *)
(* after the end, and may be stopped without the finished callback.               *)
(****************************************************************************)
CONSTANT Streams
VARIABLES status,        \* of each stream
          repeating      \* streams of an API that repeats

Init == status = [s \in Streams |-> "closed"] /\ repeating = {}

Turns(s, from, to) == status[s] \in from /\ status' = [status EXCEPT ![s] = to]
Ended(s) == IF s \in repeating THEN {"finished"} ELSE {}

Opens(s) == Turns(s, {"closed"}, "opened") /\ repeating' \in {repeating, repeating \cup {s}}
Closes(s) == Turns(s, {"opened", "finished"}, "closed") /\ repeating' = repeating \ {s}

Steps(s) ==
    \/ Turns(s, {"opened"}, "active")                        \* Pa_StartStream
    \/ Turns(s, {"active"} \cup Ended(s), "calling")         \* the callback
    \/ \E r \in {"active", "complete"} \cup Ended(s) : Turns(s, {"calling"}, r)
    \/ Turns(s, {"active", "complete"} \cup Ended(s), "finishing")    \* the finished callback
    \/ Turns(s, {"finishing"}, "finished")
    \/ s \in repeating /\ Turns(s, {"active"}, "finished")   \* Pa_StopStream

Next == \E s \in Streams : Opens(s) \/ Closes(s) \/ (Steps(s) /\ UNCHANGED repeating)

Spec == Init /\ [][Next]_<<status, repeating>>
=============================================================================
