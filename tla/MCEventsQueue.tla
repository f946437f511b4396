-------------------------- MODULE MCEventsQueue ---------------------------
(* EventsQueue for TLC: LogSnag alone, PostHog alone, and the two together. *)
EXTENDS EventsQueue, TLC

MCConfs == {{"tinybird", "logsnag", "resend"},
            {"tinybird", "posthog", "resend"},
            {"tinybird", "logsnag", "posthog", "resend"}}
TinybirdAlone == {{"tinybird"}}
Symmetric == Permutations(Fingerprints) \cup Permutations(Batches)
===========================================================================
